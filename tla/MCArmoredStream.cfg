CONSTANTS
    ByteBase = 4
    Base = 3
    BlockLen = 2
    BytesPerWord = 2
    Header <- MCHeader
    Footer <- MCFooter
    HeaderPackets <- MCHeaderPackets
    BlockPackets <- MCBlockPackets
    FinalPackets <- MCFinalPackets
    MaxPackets = 4
    MaxCalls = 4
    MaxFailures = 2
SPECIFICATION Spec
CHECK_DEADLOCK FALSE
INVARIANTS
    TypeOK
    TextComplete
    TextIsPrefix
    StreamComplete
    CompleteWhenFramed
