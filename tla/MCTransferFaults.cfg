\* Two faults on a short message, in blocks of one byte; callers that go on
\* until they have an answer.
CONSTANTS
    Byte <- MCByte
    BlockSize = 1
    MaxBlockNumber = 2
    MaxFaults = 2
    OtherChunks <- MCEmptyChunk
    Payload <- MCPayload
    MaxWritten = 3
    MaxCloses = 1
    ReadSizes = {2}
SPECIFICATION FairSpec
INVARIANTS
    CleanEOF
PROPERTIES
    Refinement
    Delivered
    Answered
