\* M = 2^24 + 1: the float quotient rounds M down, and the high padding is
\* negative.
CONSTANTS
    Problems <- MCLargeProblems
    Configs <- MCConfigs
    OutKinds = {"fill"}
    LoadKinds = {"tile"}
SPECIFICATION Spec
INVARIANT TypeOK
CHECK_DEADLOCK FALSE
