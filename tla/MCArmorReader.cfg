CONSTANTS
    ByteBase = 4
    Base = 3
    BlockLen = 2
    BytesPerWord = 2
    Header <- MCHeader
    Footer <- MCFooter
    Texts <- MCTexts
    Sources = {"plain", "dataEOF"}
    ReadSizes = {0, 1, 4}
    ScanLen = 6
    BufLen = 5
    FrameLim = 5
    MaxHiccups = 1
SPECIFICATION FairSpec
INVARIANTS
    TypeOK
    BodyPrefix
    FramesBeforeEOF
    AcceptedMessage
    NoFalseAlarm
    BorrowedNeverKept
PROPERTIES
    VerdictIsFinal
    Answered
