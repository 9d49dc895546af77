\* A matmul that accumulates into a loaded output tile: padding M or N
\* replaces the accumulator by a zero fill and drops the loaded values.
CONSTANTS
    Problems <- MCProblems
    Configs <- MCConfigs
    OutKinds = {"fill", "load"}
    LoadKinds = {"tile"}
SPECIFICATION Spec
INVARIANT RewritePreservesProduct
CHECK_DEADLOCK FALSE
