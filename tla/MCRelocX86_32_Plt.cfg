CONSTANTS
    t1 = t1
    t2 = t2
    AddrBits = 3
    Word32Bits = 3
    VaddrBias = 6
    SiteValues = {0, 3}
    TableIds <- MCTableIds
    Offsets <- MCOffsets
    DynTables <- MCDynTables
    RelTables <- MCRelTables
SPECIFICATION Spec
CHECK_DEADLOCK FALSE
INVARIANT SymbolRelocationsRejected
