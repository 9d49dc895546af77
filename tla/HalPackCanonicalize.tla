------------------------- MODULE HalPackCanonicalize ------------------------
(***************************************************************************)
(* Folding and canonicalization of hal.allocator.pack in                   *)
(* src/iree/compiler/Dialect/HAL/IR/HALOpFolders.cpp, under the greedy     *)
(* rewrite driver, which applies any matching fold or pattern until none   *)
(* matches.  A pack op has a sequence of slices (each with a lifetime      *)
(* interval and a dynamic size) and an optional base offset; its results  *)
(* are the total length and one packed offset per slice.  The uses of     *)
(* those results are SSA values: a result, a constant zero, the base      *)
(* offset, a slice's size, or the base added to another value.  The       *)
(* packing itself runs later, so a packed offset of a pack with two or    *)
(* more slices is known only by the slice it belongs to.                  *)
(***************************************************************************)
EXTENDS Integers, Sequences, SequencesExt, FiniteSetsExt

CONSTANTS
    Slices,     \* slice identities (their dynamic size values)
    Lifetime,   \* Slices -> <<lifetimeStart, lifetimeEnd>>
    InitPacks   \* the pack ops the function may start with

Offsets == {"none", "zero", "base"}     \* no offset, constant 0, a value
Erased == [id |-> -1]

\* Slice::operator<: by lifetime start, then lifetime end.
SliceLess(a, b) ==
    \/ Lifetime[a][1] < Lifetime[b][1]
    \/ Lifetime[a][1] = Lifetime[b][1] /\ Lifetime[a][2] < Lifetime[b][2]

PositionOf(seq, x) == CHOOSE i \in 1..Len(seq) : seq[i] = x

Result(id, i) == [k |-> "result", op |-> id, idx |-> i]
Total(id) == [k |-> "total", op |-> id]
Zero == [k |-> "zero"]
Base == [k |-> "base"]
Size(s) == [k |-> "size", s |-> s]
Add(v) == [k |-> "add", v |-> v]

VARIABLES
    pack,   \* the live pack op [id, slices, offset], or Erased
    uses,   \* each user (the total's, each slice's) -> the value it uses
    orig    \* the meaning of each use before any rewrite

vars == <<pack, uses, orig>>

Users(p) == {"total"} \cup ToSet(p.slices)

InitialUses(p) ==
    [u \in Users(p) |-> IF u = "total" THEN Total(p.id)
                        ELSE Result(p.id, PositionOf(p.slices, u))]

\* What a value denotes: what it is an offset or a length of, and how many
\* times the base offset is added.  A packed offset includes the base.
RECURSIVE Den(_)
Den(v) ==
    LET B == IF pack # Erased /\ pack.offset = "base" THEN 1 ELSE 0 IN
    CASE v.k = "add" -> [Den(v.v) EXCEPT !.nbase = @ + 1]
      [] v.k = "zero" -> [what |-> <<"zero">>, nbase |-> 0]
      [] v.k = "base" -> [what |-> <<"zero">>, nbase |-> 1]
      [] v.k = "size" -> [what |-> <<"size", v.s>>, nbase |-> 0]
      [] pack = Erased \/ v.op # pack.id ->
            [what |-> <<"dangling">>, nbase |-> 0]
      [] v.k = "total" ->
            CASE Len(pack.slices) = 0 -> [what |-> <<"zero">>, nbase |-> 0]
              [] Len(pack.slices) = 1 ->
                    [what |-> <<"size", pack.slices[1]>>, nbase |-> 0]
              [] OTHER -> [what |-> <<"total", ToSet(pack.slices)>>, nbase |-> 0]
      [] OTHER ->
            IF Len(pack.slices) = 1 THEN [what |-> <<"zero">>, nbase |-> B]
            ELSE [what |-> <<"slice", pack.slices[v.idx]>>, nbase |-> B]

Init ==
    /\ pack \in InitPacks
    /\ uses = InitialUses(pack)
    /\ orig = [u \in Users(pack) |-> Den(InitialUses(pack)[u])]

\* replaceAllUsesWith on every use, inside additions too.
RECURSIVE Subst(_, _)
Subst(v, f) ==
    IF v.k = "add" THEN Add(Subst(v.v, f))
    ELSE IF v \in DOMAIN f THEN f[v] ELSE v

Replace(f) == [u \in DOMAIN uses |-> Subst(uses[u], f)]

\* Mutant: offset() is pushed without checking that there is one.
FoldOffsetNoNullCheck(p) ==
    IF p.offset = "none" THEN [k |-> "null"]
    ELSE IF p.offset = "base" THEN Base ELSE Zero

\* The single slice's offset: the base offset value if any (the constant 0
\* when that is what it is), else a zero attribute.
FoldOffset(p) == IF p.offset = "base" THEN Base ELSE Zero

\* AllocatorPackOp::fold: no slices fold to a zero-length slab; one slice
\* to its size and an offset of the base offset, or zero.
Fold ==
    /\ pack # Erased /\ Len(pack.slices) <= 1
    /\ uses' = Replace(
         IF Len(pack.slices) = 0 THEN (Total(pack.id) :> Zero)
         ELSE (Total(pack.id) :> Size(pack.slices[1]))
              @@ (Result(pack.id, 1) :> FoldOffset(pack)))
    /\ pack' = Erased
    /\ UNCHANGED orig

\* PropagateAllocatorPackBaseOffset: strip the offset; unless it is the
\* constant 0, add it to every use of every packed offset.
PropagateAllocatorPackBaseOffset ==
    /\ pack # Erased /\ pack.offset # "none"
    /\ pack' = [pack EXCEPT !.offset = "none"]
    /\ uses' = IF pack.offset = "zero" THEN uses
               ELSE Replace([r \in {Result(pack.id, i) : i \in 1..Len(pack.slices)}
                               |-> Add(r)])
    /\ UNCHANGED orig

\* std::stable_sort of the slices: positions ordered by slice, then by
\* position.
StableOrders(sl) ==
    {SortSeq([i \in 1..Len(sl) |-> i],
             LAMBDA a, b : SliceLess(sl[a], sl[b])
                           \/ (~SliceLess(sl[b], sl[a]) /\ a < b))}

\* Mutant: std::sort, which may order equal slices either way.
AnyOrders(sl) ==
    {p \in [1..Len(sl) -> 1..Len(sl)] :
        /\ ToSet(p) = 1..Len(sl)
        /\ \A i \in 1..(Len(sl) - 1) : ~SliceLess(sl[p[i + 1]], sl[p[i]])}

SortOrders(sl) == StableOrders(sl)

\* Mutant: the old offsets are remapped by position, not by slice.
RemapByPosition(id, p) ==
    [r \in {Result(pack.id, i) : i \in 1..Len(p)} |-> Result(id, r.idx)]

\* Each slice's old packed offset becomes the new op's offset at its new
\* position.
RemapBySlice(id, p) ==
    [r \in {Result(pack.id, i) : i \in 1..Len(p)} |->
        Result(id, PositionOf(p, r.idx))]

\* CanonicalizeAllocatorPackIntervals: if sorting changes the order,
\* rebuild the op with the sorted slices and the same offset, remap the
\* total and every offset, and erase the old op.
CanonicalizeAllocatorPackIntervals ==
    /\ pack # Erased
    /\ \E p \in SortOrders(pack.slices) :
         /\ \E i \in 1..Len(p) : p[i] # i
         /\ LET id == 1 - pack.id IN
            /\ pack' = [pack EXCEPT !.id = id,
                                    !.slices = [i \in 1..Len(p) |-> @[p[i]]]]
            /\ uses' = Replace((Total(pack.id) :> Total(id))
                               @@ RemapBySlice(id, p))
    /\ UNCHANGED orig

Next ==
    \/ Fold
    \/ PropagateAllocatorPackBaseOffset
    \/ CanonicalizeAllocatorPackIntervals

\* The greedy driver applies a matching rewrite while there is one.
Spec == Init /\ [][Next]_vars /\ WF_vars(Next)

Fixpoint == ~ENABLED Next

-----------------------------------------------------------------------------
PackRecords ==
    [id : {0, 1}, slices : Seq(Slices), offset : Offsets]

TypeOK ==
    /\ pack \in PackRecords \cup {Erased}
    /\ pack # Erased => IsInjective(pack.slices)
    /\ \A u \in DOMAIN uses :
         LET Atom(v) == v.k \in {"result", "total", "zero", "base", "size"}
         IN Atom(uses[u]) \/ (uses[u].k = "add" /\ Atom(uses[u].v))

(* Whatever rewrites the driver applies, in whatever order, every use     *)
(* still means what it meant: the same slice's packed offset with the base *)
(* added once, the same total length, and never a result of an erased op. *)
(* Covers the fold's results, the base offset propagation and the remap   *)
(* after sorting.                                                          *)
UsesPreserveMeaning == \A u \in DOMAIN uses : Den(uses[u]) = orig[u]

(* The canonicalizer reaches a fixpoint: the sorting pattern stops        *)
(* matching once the slices are in order, and the propagation once the    *)
(* offset is stripped.                                                     *)
CanonicalizationTerminates == <>[]Fixpoint

=============================================================================
