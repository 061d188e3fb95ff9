SPECIFICATION PSpec
CONSTANTS
    Char <- MCChar
    Keys <- MCKeys
    Output <- MCOutput
    OpenFile = "SI"
    Del = "DEL"
    BackSpace = "BS"
    Nul = "NUL"
    ResetR = "E5"
    ResetW = "E3"
    Marks <- MCMarks
    LineEnds <- MCLineEnds
    FileText <- MCFileText
    FilePresent = TRUE
    TtyFails = FALSE
    Period = 1
    LineDelay = 1
    MaxTyped = 2
    MaxScreen = 2
    MaxResets = 1
INVARIANTS StatusStillTrue
PROPERTIES LinkSpec
