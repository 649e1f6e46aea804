CONSTANTS
    Width = 4
    Height = 3
    TabStop = 2
    ScrollbackLines = 2
    Glyphs <- MCGlyphs
    Keys <- MCKeys
    BufferMax = 4
    CmdMax = 2
    ArgMax = 1
    Prompt <- MCPrompt
    Banner <- MCBanner
    Unknown <- MCUnknown
    Texts <- MCTexts
    Clear <- MCClear
    Echo <- MCEcho
    MaxKeys = 7
SPECIFICATION Spec
INVARIANTS
    PromptKept
PROPERTIES
    RunsWhatWasTyped
    RefinesPaper
