CONSTANTS
    ByteBase = 4
    Base = 3
    BlockLen = 2
    BytesPerWord = 2
    Header <- MCHeader
    Footer <- MCFooter
    Texts <- MCTexts
    Sources = {"dataEOF"}
    ReadSizes = {4}
    ScanLen = 3
    BufLen = 5
    FrameLim = 5
    MaxHiccups = 0
SPECIFICATION Spec
INVARIANT PunctuationSeen
