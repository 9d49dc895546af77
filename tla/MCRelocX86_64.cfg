CONSTANTS
    t1 = t1
    t2 = t2
    AddrBits = 3
    Word32Bits = 2
    VaddrBias = 6
    SiteValues = {0, 7}
    TableIds <- MCTableIds
    Offsets <- MCOffsets
    DynTables <- MCDynTables
    RelaTables <- MCRelaTables
SPECIFICATION Spec
CHECK_DEADLOCK FALSE
INVARIANTS
    TypeOK
    ResultReflectsInput
    RelocatedImageMatchesABI
