CONSTANTS
    Signers = {a, b}
    Versions <- MCVersions
    Validators <- MCValidators
    Chunks <- MCChunks
    MaxStreams = 2
    MaxBlocks = 2
    MaxText = 2
SPECIFICATION Spec
CHECK_DEADLOCK FALSE
SYMMETRY Symmetry
ACTION_CONSTRAINT SignersFirst
INVARIANTS
    TypeOK
    DetachedAuthentic
    AttachedAuthentic
    NoFalseAlarm
