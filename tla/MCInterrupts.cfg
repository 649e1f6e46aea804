CONSTANTS
    Lines = {0, 7, 12, 15}
    MaxRaised = 2
SPECIFICATION Spec
INVARIANTS
    Balanced
    OncePerRequest
PROPERTIES
    Acknowledged
