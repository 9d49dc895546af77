\* Aligning every 8-bit value, up to the top of the width.
CONSTANTS
    Bits <- MCBits
    Values <- MCValues
    Alignments <- MCAlignments
SPECIFICATION Spec
CHECK_DEADLOCK FALSE
INVARIANT AlignNotBelowValue
