CONSTANTS
    Brands <- MCBrands
    Strays <- MCStrays
    Gaps <- MCGaps
    MaxFrameLength = 48
    MaxBrandLength = 8
    BinaryLens = {0, 10, 22, 23, 30}
    Sizes = {16, 90, 4096}
    MaxFailures = 1
SPECIFICATION Spec
CHECK_DEADLOCK FALSE
INVARIANTS
    TypeOK
    NeverDenied
    RightDecoder
PROPERTIES
    AnswerStands
