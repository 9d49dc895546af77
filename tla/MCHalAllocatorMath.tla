------------------------- MODULE MCHalAllocatorMath -------------------------
(* Every op kind over shapes of rank 0 to 2 with dims up to 3, element     *)
(* sizes 1 and 4, in-bounds indices and non-empty in-bounds lengths; the   *)
(* subviews are of boxes contiguous in the view (MCAllSubviewOps has all). *)
EXTENDS HalAllocatorMath

MCShapes == UNION {[1..r -> 1..3] : r \in 0..2}
MCElems == {1, 4}

InBounds(shape) == {i \in [1..Len(shape) -> 0..2] :
                        \A k \in 1..Len(shape) : i[k] < shape[k]}

Lengths(shape, idx) == {l \in [1..Len(shape) -> 1..3] :
                            \A k \in 1..Len(shape) : idx[k] + l[k] <= shape[k]}

IdxOps(k, s, e) ==
    {[kind |-> k, shape |-> s, elem |-> e, indices |-> i] : i \in InBounds(s)}

RangeOps(k, s, e) ==
    UNION {{[kind |-> k, shape |-> s, elem |-> e, indices |-> i, lengths |-> l] :
               l \in Lengths(s, i)} : i \in InBounds(s)}

\* Subviews of a box that is contiguous in the view: all but the first
\* non-unit length span their whole dims.
Contiguous(op) ==
    \A k \in 1..Len(op.shape) :
        (\E j \in 1..(k - 1) : op.lengths[j] > 1) => op.lengths[k] = op.shape[k]

MCSubviewOps ==
    {o \in UNION {RangeOps("bv_subview", s, e) : s \in MCShapes, e \in MCElems} :
        Contiguous(o)}

MCAllSubviewOps == UNION {RangeOps("bv_subview", s, e) : s \in MCShapes, e \in MCElems}
MCRootOps ==
    MCSubviewOps \cup
    {[kind |-> "alloc_size", shape |-> s, elem |-> e] :
        s \in MCShapes, e \in MCElems}
    \cup UNION {IdxOps(k, s, e) :
                k \in {"alloc_offset", "bv_offset"}, s \in MCShapes, e \in MCElems}
    \cup UNION {RangeOps(k, s, e) :
                k \in {"alloc_range", "bv_range"}, s \in MCShapes, e \in MCElems}

=============================================================================
