CONSTANTS
    MaxOpenFiles = 2
    MaxFilename = 3
    MaxPath = 5
    Width = 8
    Slash = Slash
    a = a
    Letters = {a, b}
    b = b
    Root = Root
    D = D
    F = F
    G = G
    Null = Null
    Dirs = {Root, D}
    Nodes = {Root, D, F, G}
    Paths <- MCPaths
    MaxLength = 2
    Moves <- MCMoves
    NameLists <- MCNameLists
SPECIFICATION Spec
INVARIANTS
    OpensMatch
    NothingDangles
    ResolvesAsNamed
PROPERTIES
    ChangesAsNamed
    RefinesOpenFiles
