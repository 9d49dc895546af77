CONSTANTS
    MaxCount <- MCMaxCount
    MaxCalls <- MCMaxCalls
SPECIFICATION Spec
CHECK_DEADLOCK FALSE
INVARIANT FailureReported
