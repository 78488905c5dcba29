SPECIFICATION Spec
CONSTANTS
    ArgMax = 14
    StemMax = 12
    NestMax = 10
    BiasSmall = 0
    TransMax = 4
INVARIANTS
    OutlineKept
    CopyKept
CHECK_DEADLOCK FALSE
