SPECIFICATION Spec
CONSTANTS
    StdMax = 4
    CodeMax = 5
    Seac = 190
    Made <- Embedded
    Read <- ReadFont
INVARIANT GlyphsShown
CHECK_DEADLOCK FALSE
