\* The PLT tables of aarch64 and x86, with a symbol-relative entry.
CONSTANTS
    t1 = t1
    t2 = t2
SPECIFICATION Spec
CHECK_DEADLOCK FALSE
INVARIANT SymbolRelocationsRejected
