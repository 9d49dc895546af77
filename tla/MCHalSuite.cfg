\* Shape math, pack canonicalization, subspan folding, variable rewrites and workgroup tile padding, each over its inputs.
CONSTANTS
    s1 = s1
    s2 = s2
    s3 = s3
    s4 = s4
SPECIFICATION Spec
\* The rewriting stops at a fixpoint.
CHECK_DEADLOCK FALSE
INVARIANTS
    TypeOK
    ExpansionMatchesReference
    UsesPreserveMeaning
    RewritesPreserveMeaning
    FixpointIsNormalForm
    RewritesPreserveSemantics
    RewritePreservesProduct
    ShapesConsistent
    PaddedToTileMultiples
PROPERTIES
    CanonicalizationTerminates
    FoldingTerminates
