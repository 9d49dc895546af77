\* Flag parsing, executable layouts, VM values and alignment.
CONSTANTS
    l1 = l1
    l2 = l2
SPECIFICATION Spec
\* A parse and a deinitialized executable stop.
CHECK_DEADLOCK FALSE
INVARIANTS
    TypeOK
    ParseMatchesReference
    LayoutsOutliveExecutable
    AlignMatchesReference
PROPERTIES
    NoLayoutLeaked
