CONSTANTS
    MaxCount <- MCMaxCount
    MaxCalls <- MCMaxCalls
SPECIFICATION Spec
CHECK_DEADLOCK FALSE
INVARIANTS
    TypeOK
    CompleteOnSuccess
    SkippedOnlyAfterFailureInRow
PROPERTIES
    DispatchImplementsOrder
