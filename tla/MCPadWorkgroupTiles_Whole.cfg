\* Loads without sizes: the subtensor is cut at the padded sizes, so the
\* result is larger than the matmul's.
CONSTANTS
    Problems <- MCProblems
    Configs <- MCConfigs
    OutKinds = {"fill"}
    LoadKinds = {"whole"}
SPECIFICATION Spec
INVARIANT RewritePreservesProduct
CHECK_DEADLOCK FALSE
