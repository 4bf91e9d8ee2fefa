\* One fault of any kind, a second Close and retries, every mode and version.
CONSTANTS
    Byte <- MCByte
    BlockSize = 2
    MaxBlockNumber = 3
    MaxFaults = 1
    OtherChunks <- MCOtherChunks
    Payload <- MCPayload
    MaxWritten = 4
    MaxCloses = 2
    ReadSizes = {0, 1, 3}
SPECIFICATION Spec
INVARIANTS
    IInv
    NumberUsedOnce
    OutputIsPrefix
    CleanEOF
    CompleteMessage
    NoPanic
    NoFalseAlarm
PROPERTIES
    VerdictIsFinal
    Refinement
