\* EraseUnusedVariableStoreOp over every block, a store in between included.
CONSTANTS
    Vars <- MCVars
    PoolConsts <- MCPoolConsts
    PoolData <- MCPoolData
    RuntimeData <- MCRuntimeData
    InitInits <- MCInitInits
    InitBlocks <- MCAllBlocks
SPECIFICATION Spec
\* The rewriting stops at a fixpoint.
CHECK_DEADLOCK FALSE
INVARIANTS
    RewritesPreserveSemantics
