-------------------------- MODULE HalAllocatorMath --------------------------
(***************************************************************************)
(* The shape-math canonicalizations of src/iree/compiler/Dialect/HAL/IR/   *)
(* HALOpFolders.cpp: hal.buffer_view.compute_offset/compute_range are      *)
(* rewritten to hal.allocator.compute_offset/compute_range over the view's *)
(* dims and element type, and those, with hal.allocator.compute_size, are  *)
(* expanded into index arithmetic.  The greedy rewrite driver applies the  *)
(* patterns in any order; an op is a record and the arithmetic an expanded *)
(* op folds to is its value.  hal.buffer_view.subview is expanded into a   *)
(* compute_range and a buffer_view.create over the subspan of that range. *)
(* Four op slots: the root op, the two compute_offset ops that             *)
(* ExpandAllocatorComputeRangeOp creates, and the compute_range of a       *)
(* subview.                                                                *)
(***************************************************************************)
EXTENDS Integers, Sequences, SequencesExt, FiniteSetsExt

CONSTANTS
    RootOps     \* the ops the function may start with

OpIds == {"root", "start", "end", "sub"}
None == [kind |-> "none"]

\* getElementCount: the base value multiplied by every dim.
getElementCount(base, dims) == FoldLeft(LAMBDA acc, d : acc * d, base, dims)

\* Mutant: the inner loop starts at j = i.
AxisOffsetFromI(shape, indices, i) ==
    getElementCount(indices[i], SubSeq(shape, i, Len(shape)))

\* One term of ExpandAllocatorComputeOffsetOp: indices[i] times every later
\* dim of the shape.
AxisOffset(shape, indices, i) ==
    getElementCount(indices[i], SubSeq(shape, i + 1, Len(shape)))

\* The sum of the axis offsets over the indices, times the element size.
ComputeOffset(shape, elem, indices) ==
    FoldLeft(LAMBDA acc, i : acc + AxisOffset(shape, indices, i), 0,
             [i \in 1..Len(indices) |-> i]) * elem

\* Mutant: one too many subtracted.
EndIndicesOffByOne(shape, indices, lengths) ==
    [i \in 1..Len(shape) |-> indices[i] + lengths[i] - 2]

\* ExpandAllocatorComputeRangeOp's endIndices: indices + lengths - 1.
EndIndices(shape, indices, lengths) ==
    [i \in 1..Len(shape) |-> indices[i] + lengths[i] - 1]

VARIABLES
    input,      \* the root op as the function started
    ops         \* OpIds -> the op in that slot, "value" once expanded

vars == <<input, ops>>

Init ==
    /\ input \in RootOps
    /\ ops = [o \in OpIds |-> IF o = "root" THEN input ELSE None]

Value(v) == [kind |-> "value", v |-> v]

\* ExpandBufferViewComputeOffsetOp: the view's dims and element type feed a
\* hal.allocator.compute_offset.
ExpandBufferViewComputeOffsetOp(id) ==
    /\ ops[id].kind = "bv_offset"
    /\ ops' = [ops EXCEPT ![id] = [@ EXCEPT !.kind = "alloc_offset"]]
    /\ UNCHANGED input

\* ExpandBufferViewComputeRangeOp: likewise for compute_range.
ExpandBufferViewComputeRangeOp(id) ==
    /\ ops[id].kind = "bv_range"
    /\ ops' = [ops EXCEPT ![id] = [@ EXCEPT !.kind = "alloc_range"]]
    /\ UNCHANGED input

\* ExpandBufferViewSubviewOp: a compute_range of the box, and a view created
\* over the subspan of the view's buffer at that range, with the lengths as
\* its shape and the view's element type.
ExpandBufferViewSubviewOp(id) ==
    LET op == ops[id] IN
    /\ op.kind = "bv_subview"
    /\ ops' = [ops EXCEPT
                 ![id] = [kind |-> "view", range |-> "sub", elem |-> op.elem,
                          shape |-> op.lengths],
                 !["sub"] = [op EXCEPT !.kind = "bv_range"]]
    /\ UNCHANGED input

ExpandAllocatorComputeSizeOp(id) ==
    /\ ops[id].kind = "alloc_size"
    /\ ops' = [ops EXCEPT ![id] = Value(getElementCount(@.elem, @.shape))]
    /\ UNCHANGED input

ExpandAllocatorComputeOffsetOp(id) ==
    /\ ops[id].kind = "alloc_offset"
    /\ ops' = [ops EXCEPT
                 ![id] = Value(ComputeOffset(@.shape, @.elem, @.indices))]
    /\ UNCHANGED input

RangeLength(op) ==
    [kind |-> "range", elem |-> op.elem, first |-> "start", last |-> "end"]

\* ExpandAllocatorComputeRangeOp: compute_offset ops for the first and the
\* last element; the root becomes (start, end - start + element size).
ExpandAllocatorComputeRangeOp(id) ==
    LET op == ops[id] IN
    /\ op.kind = "alloc_range"
    /\ ops' = [ops EXCEPT
                 ![id] = RangeLength(op),
                 !["start"] = [kind |-> "alloc_offset", shape |-> op.shape,
                               elem |-> op.elem, indices |-> op.indices],
                 !["end"] = [kind |-> "alloc_offset", shape |-> op.shape,
                             elem |-> op.elem,
                             indices |-> EndIndices(op.shape, op.indices,
                                                    op.lengths)]]
    /\ UNCHANGED input

Next ==
    \E id \in OpIds :
        \/ ExpandBufferViewComputeOffsetOp(id)
        \/ ExpandBufferViewComputeRangeOp(id)
        \/ ExpandBufferViewSubviewOp(id)
        \/ ExpandAllocatorComputeSizeOp(id)
        \/ ExpandAllocatorComputeOffsetOp(id)
        \/ ExpandAllocatorComputeRangeOp(id)

\* The greedy driver keeps applying patterns while one matches.
Spec == Init /\ [][Next]_vars /\ WF_vars(Next)

\* No pattern matches any more.
Expanded == \A id \in OpIds : ops[id].kind \in {"none", "value", "range", "view"}

\* What the root op's results evaluate to once everything is expanded.
RangeResults(r) == <<ops[r.first].v, ops[r.last].v - ops[r.first].v + r.elem>>

\* A created view: the subspan's offset and length, then the view's shape.
Results ==
    LET r == ops["root"] IN
    CASE r.kind = "value" -> <<r.v>>
      [] r.kind = "view" -> RangeResults(ops[r.range]) \o <<r.shape>>
      [] OTHER -> RangeResults(r)

-----------------------------------------------------------------------------
(* Reference definitions: row-major layout as the order of index tuples.   *)

Elements(shape) ==
    {e \in [1..Len(shape) -> 0..getElementCount(1, shape)] :
        \A i \in 1..Len(shape) : e[i] < shape[i]}

LexLess(a, b) ==
    \E k \in DOMAIN a : (\A j \in 1..(k - 1) : a[j] = b[j]) /\ a[k] < b[k]

\* The byte offset of an element: element size times the number of
\* elements before it in row-major order.
RefOffset(shape, elem, idx) ==
    elem * Cardinality({e \in Elements(shape) : LexLess(e, idx)})

\* The elements of the box indices .. indices + lengths - 1.
Box(op) ==
    {e \in Elements(op.shape) :
        \A i \in 1..Len(op.shape) :
            op.indices[i] <= e[i] /\ e[i] < op.indices[i] + op.lengths[i]}

\* The tightest byte span holding every element of the box.
RefRange(op) ==
    LET starts == {RefOffset(op.shape, op.elem, e) : e \in Box(op)}
    IN <<Min(starts), Max(starts) + op.elem - Min(starts)>>

Reference(op) ==
    CASE op.kind = "alloc_size" -> <<op.elem * Cardinality(Elements(op.shape))>>
      [] op.kind \in {"alloc_offset", "bv_offset"} ->
            <<RefOffset(op.shape, op.elem, op.indices)>>
      [] op.kind = "bv_subview" -> RefRange(op) \o <<op.lengths>>
      [] OTHER -> RefRange(op)

-----------------------------------------------------------------------------
TypeOK ==
    /\ input \in RootOps
    /\ \A id \in OpIds : ops[id].kind = "value" => ops[id].v \in Nat

(* Whatever order the patterns are applied in, once no pattern matches the  *)
(* root's results are the byte size, the byte offset, or the tightest byte  *)
(* range of the box, of a row-major tensor, and a subview is a view of the  *)
(* box's lengths over the subspan of that range: the nested loops of        *)
(* ExpandAllocatorComputeOffsetOp and the endIndices of                     *)
(* ExpandAllocatorComputeRangeOp agree with the layout.                     *)
ExpansionMatchesReference == Expanded => Results = Reference(input)

(* A subview's element e is the element indices + e of the view: the dense *)
(* layout of the box's lengths, from the start of the subspan, addresses   *)
(* the same bytes as the view's own layout.  This needs the box to be      *)
(* contiguous in the view; a box that is not (two rows of a wider tensor)  *)
(* gets a subspan with the rows' gap in it.                                *)
SubviewIsSlice ==
    input.kind = "bv_subview" /\ Expanded =>
        \A e \in Elements(input.lengths) :
            Results[1] + RefOffset(input.lengths, input.elem, e)
              = RefOffset(input.shape, input.elem,
                          [i \in 1..Len(e) |-> input.indices[i] + e[i]])

=============================================================================
