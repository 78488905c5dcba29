SPECIFICATION Spec
CHECK_DEADLOCK FALSE
CONSTANTS
    CodeMax = 15
    GlyfLimit = 131072
    StandardNames = 3
    FileWith <- InFile
    Made <- MadeOf
INVARIANT TrueTypeShown
