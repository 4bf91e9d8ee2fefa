\* A stream that is closed twice.
CONSTANTS
    Byte <- MCByte
    BlockSize = 2
    MaxBlockNumber = 3
    MaxFaults = 0
    OtherChunks <- MCOtherChunks
    Payload <- MCPayload
    MaxWritten = 1
    MaxCloses = 2
    ReadSizes = {3}
SPECIFICATION Spec
INVARIANTS
    AssertedChunkState
