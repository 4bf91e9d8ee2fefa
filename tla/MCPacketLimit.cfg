\* How many packets the overflow check lets through.
CONSTANTS
    Byte <- MCByte
    BlockSize = 1
    MaxBlockNumber = 2
    MaxFaults = 0
    OtherChunks <- MCOtherChunks
    Payload <- MCPayload
    MaxWritten = 3
    MaxCloses = 1
    ReadSizes = {3}
SPECIFICATION Spec
INVARIANTS
    DocumentedPacketLimit
