CONSTANTS
    Keys = {k1, k2, k3}
    Ephemeral = eph
    SymmetricKeys = {s1}
    Identifiers = {i1, i2}
    NoKID = nokid
    NoKey = nokey
    WordSize = 8
    MaxReceiverCount = 2
SPECIFICATION Spec
CHECK_DEADLOCK FALSE
SYMMETRY Symmetry
INVARIANT AnonReceiversRepeated
