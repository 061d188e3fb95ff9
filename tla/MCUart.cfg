SPECIFICATION ReadingSpec
CONSTANTS
    Char <- MCChar
    Keys <- MCKeys
    Output <- MCOutput
    OpenFile = "SI"
    Del = "DEL"
    BackSpace = "BS"
    Nul = "NUL"
    ResetR = "E5"
    ResetW = "E3"
    Marks <- MCMarks
    LineEnds <- MCLineEnds
    FileText <- MCFileText
    FilePresent = TRUE
    TtyFails = TRUE
    Period = 2
    LineDelay = 1
    MaxTyped = 2
    MaxScreen = 2
    MaxResets = 1
INVARIANTS TypeOK TxTimerCoherent ReceiverCoherent
PROPERTIES NoRxOverrun RxPaced TxPaced TxDrains KeysAreRead
