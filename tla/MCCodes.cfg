SPECIFICATION Spec
CHECK_DEADLOCK FALSE
CONSTANTS
    ByteMax = 3
    FlushAt = 2
    SimilarAt = 2
    SlotMax = 4
    CharMax = 9
    Made <- Outcome
    Reread <- Parsed
INVARIANTS CMapsRight MapsRight CodesShown
