-------------------------- MODULE HalSubspanFolding -------------------------
(***************************************************************************)
(* The buffer canonicalizations of src/iree/compiler/Dialect/HAL/IR/       *)
(* HALOpFolders.cpp under the greedy rewrite driver: subspans folded into  *)
(* the buffer operands and offsets of hal.command_buffer.fill_buffer,      *)
(* copy_buffer and push_descriptor_set, and the accessors                  *)
(* hal.buffer.allocator, hal.buffer_view.buffer and                        *)
(* hal.command_buffer.device skipped when the defining op is known.       *)
(*                                                                         *)
(* A function has a fixed set of defining ops: buffers (allocations,       *)
(* constants, subspans of another buffer at an offset, block arguments),   *)
(* buffer views (created from a buffer, or arguments) and command buffers  *)
(* (created on a device, or arguments).  One command and one accessor op  *)
(* use them; a buffer operand is a buffer name or a buffer_view.buffer of *)
(* a view, an accessor a buffer.allocator of a buffer operand or a        *)
(* command_buffer.device of a command buffer.                              *)
(***************************************************************************)
EXTENDS Integers, Sequences, SequencesExt

CONSTANTS
    Defs,       \* buffer name -> [k: "alloc"|"constant"|"subspan"|"arg", ...]
    Views,      \* view name -> [k: "create", buf] | [k: "arg"]
    CmdBufs,    \* command buffer name -> [k: "create", device] | [k: "arg"]
    InitCmds,   \* [kind: "fill"|"copy"|"push", bufs, offs]
    InitAccs    \* the accessor ops

VB(v) == [k |-> "vb", view |-> v]        \* hal.buffer_view.buffer
BA(b) == [k |-> "ba", buf |-> b]         \* hal.buffer.allocator
CBD(c) == [k |-> "cbd", cb |-> c]        \* hal.command_buffer.device
Named(n) == [k |-> "name", n |-> n]      \* a value defined elsewhere

VARIABLES
    cmd,    \* the command op
    acc,    \* the accessor op, or the value that replaced it
    input,  \* the command and accessor as the function started
    mapped  \* the constants ExpandAllocatorConstantOp has made allocator.maps

vars == <<cmd, acc, input, mapped>>

Init ==
    /\ cmd \in InitCmds
    /\ acc \in InitAccs
    /\ input = <<cmd, acc>>
    /\ mapped = {}

IsSubspan(b) == b.k = "name" /\ b.n \in DOMAIN Defs /\ Defs[b.n].k = "subspan"

\* Every use of the replaced value, in the command and in the accessor.
ReplaceUses(old, new) ==
    /\ cmd' = [cmd EXCEPT !.bufs = [i \in DOMAIN @ |->
                                      IF @[i] = old THEN new ELSE @[i]]]
    /\ acc' = IF acc = old THEN new
              ELSE IF acc.k = "ba" /\ acc.buf = old THEN BA(new) ELSE acc

\* Mutant: the subspan's offset replaces the operand's instead of adding.
FoldedOffsetDropped(b, off) == Defs[b.n].off

\* The operand's offset rebased onto the subspan's source: an AddIOp of the
\* subspan's source offset and the operand's offset.
FoldedOffset(b, off) == Defs[b.n].off + off

\* One rewrite of the command's operands: every operand defined by a
\* subspan becomes the subspan's source at the rebased offset.
FoldSubspans(c) ==
    [c EXCEPT !.bufs = [i \in DOMAIN @ |->
                          IF IsSubspan(@[i]) THEN Named(Defs[@[i].n].src)
                          ELSE @[i]],
              !.offs = [i \in DOMAIN @ |->
                          IF IsSubspan(c.bufs[i])
                            THEN FoldedOffset(c.bufs[i], @[i]) ELSE @[i]]]

\* Mutant: the binding loop breaks, instead of continuing, at the first
\* binding without a defining op (a block argument).
FoldPushStopEarly(c) ==
    LET stop == {i \in DOMAIN c.bufs :
                   c.bufs[i].k = "name" /\ Defs[c.bufs[i].n].k = "arg"}
        upto == IF stop = {} THEN Len(c.bufs)
                ELSE CHOOSE i \in stop : \A j \in stop : i <= j
    IN [c EXCEPT !.bufs = [i \in DOMAIN @ |->
                             IF i <= upto /\ IsSubspan(@[i])
                               THEN Named(Defs[@[i].n].src) ELSE @[i]],
                 !.offs = [i \in DOMAIN @ |->
                             IF i <= upto /\ IsSubspan(c.bufs[i])
                               THEN FoldedOffset(c.bufs[i], @[i]) ELSE @[i]]]

FoldPushBindings(c) == FoldSubspans(c)

\* needsUpdate: the pattern fails unless some operand is a subspan.
NeedsUpdate == \E i \in DOMAIN cmd.bufs : IsSubspan(cmd.bufs[i])

FoldCommandBufferFillBufferSubspans ==
    /\ cmd.kind = "fill" /\ NeedsUpdate
    /\ cmd' = FoldSubspans(cmd)
    /\ UNCHANGED <<acc, input, mapped>>

FoldCommandBufferCopyBufferSubspans ==
    /\ cmd.kind = "copy" /\ NeedsUpdate
    /\ cmd' = FoldSubspans(cmd)
    /\ UNCHANGED <<acc, input, mapped>>

FoldCommandBufferPushDescriptorSetBufferSubspan ==
    /\ cmd.kind = "push" /\ NeedsUpdate
    /\ cmd' = FoldPushBindings(cmd)
    /\ UNCHANGED <<acc, input, mapped>>

\* SkipBufferViewBufferOp: buffer_view.buffer of a created view is the
\* buffer it was created from.
SkipBufferViewBufferOp ==
    \E v \in DOMAIN Views :
        /\ Views[v].k = "create"
        /\ \/ VB(v) \in ToSet(cmd.bufs)
           \/ acc.k = "ba" /\ acc.buf = VB(v)
        /\ ReplaceUses(VB(v), Named(Views[v].buf))
        /\ UNCHANGED <<input, mapped>>

\* Mutant: a subspan's allocator accessor is replaced by the source buffer.
SubspanAllocatorIsBuffer(b) == Named(Defs[b.n].src)

SubspanAllocator(b) == BA(Named(Defs[b.n].src))

\* Mutant: the AllocatorConstantOp case is missing.
SkipBufferAllocatorOpNoConstant ==
    /\ acc.k = "ba" /\ acc.buf.k = "name" /\ acc.buf.n \in DOMAIN Defs
    /\ LET d == Defs[acc.buf.n] IN
       \/ d.k = "alloc" /\ acc' = Named(d.allocator)
       \/ d.k = "subspan" /\ acc' = SubspanAllocator(acc.buf)
    /\ UNCHANGED <<cmd, input, mapped>>

\* SkipBufferAllocatorOp: the allocator of an allocation or a constant is
\* the allocator it came from; of a subspan, the allocator of its source.
SkipBufferAllocatorOp ==
    /\ acc.k = "ba" /\ acc.buf.k = "name" /\ acc.buf.n \in DOMAIN Defs
    /\ LET d == Defs[acc.buf.n] IN
       \/ d.k = "alloc" /\ acc' = Named(d.allocator)
       \/ d.k = "constant" /\ acc.buf.n \notin mapped /\ acc' = Named(d.allocator)
       \/ d.k = "subspan" /\ acc' = SubspanAllocator(acc.buf)
    /\ UNCHANGED <<cmd, input, mapped>>

\* ExpandAllocatorConstantOp: a constant of an element type with a HAL
\* value becomes an allocator.map of its host buffer on the same allocator,
\* which replaces every use of the constant; SkipBufferAllocatorOp has no
\* case for an AllocatorMapOp.
ExpandAllocatorConstantOp ==
    \E c \in DOMAIN Defs :
        /\ Defs[c].k = "constant" /\ c \notin mapped /\ Defs[c].elemok
        /\ mapped' = mapped \cup {c}
        /\ UNCHANGED <<cmd, acc, input>>

\* SkipCommandBufferDeviceOp: the device a command buffer was created on.
SkipCommandBufferDeviceOp ==
    /\ acc.k = "cbd" /\ CmdBufs[acc.cb].k = "create"
    /\ acc' = Named(CmdBufs[acc.cb].device)
    /\ UNCHANGED <<cmd, input, mapped>>

Next ==
    \/ FoldCommandBufferFillBufferSubspans
    \/ FoldCommandBufferCopyBufferSubspans
    \/ FoldCommandBufferPushDescriptorSetBufferSubspan
    \/ SkipBufferViewBufferOp
    \/ SkipBufferAllocatorOp
    \/ SkipCommandBufferDeviceOp
    \/ ExpandAllocatorConstantOp

\* The greedy driver applies a matching rewrite while there is one.
Spec == Init /\ [][Next]_vars /\ WF_vars(Next)

-----------------------------------------------------------------------------
(* What the IR means.                                                      *)

\* The storage a buffer operand at an offset addresses: the buffer that is
\* not a subspan of another, or the view that is an argument, and the
\* offset into it.
RECURSIVE Loc(_, _)
Loc(b, off) ==
    CASE b.k = "vb" /\ Views[b.view].k = "create" ->
            Loc(Named(Views[b.view].buf), off)
      [] b.k = "vb" -> <<"view", b.view, off>>
      [] Defs[b.n].k = "subspan" -> Loc(Named(Defs[b.n].src), Defs[b.n].off + off)
      [] OTHER -> <<"buffer", b.n, off>>

Allocators ==
    {Defs[b].allocator : b \in {d \in DOMAIN Defs : Defs[d].k \in {"alloc", "constant"}}}
Devices ==
    {CmdBufs[c].device : c \in {d \in DOMAIN CmdBufs : CmdBufs[d].k = "create"}}

\* What an accessor or the value that replaced it denotes.
Meaning(a) ==
    LET l == IF a.k = "ba" THEN Loc(a.buf, 0) ELSE <<>> IN
    CASE a.k = "ba" /\ l[1] = "buffer" /\ Defs[l[2]].k # "arg" ->
            <<"allocator", Defs[l[2]].allocator>>
      [] a.k = "ba" -> <<"allocator of", l[2]>>
      [] a.k = "cbd" /\ CmdBufs[a.cb].k = "create" ->
            <<"device", CmdBufs[a.cb].device>>
      [] a.k = "cbd" -> <<"device of", a.cb>>
      [] a.n \in Allocators -> <<"allocator", a.n>>
      [] a.n \in Devices -> <<"device", a.n>>
      [] OTHER -> <<"buffer", a.n>>

CmdMeaning(c) == [i \in DOMAIN c.bufs |-> Loc(c.bufs[i], c.offs[i])]

\* The canonical form: every operand is the storage it addresses.
Operand(l) == IF l[1] = "view" THEN VB(l[2]) ELSE Named(l[2])

NormalCmd(c) ==
    [c EXCEPT !.bufs = [i \in DOMAIN @ |-> Operand(CmdMeaning(c)[i])],
              !.offs = [i \in DOMAIN @ |-> CmdMeaning(c)[i][3]]]

NormalAcc(a) ==
    LET m == Meaning(a) IN
    CASE m[1] \in {"allocator", "device"} -> Named(m[2])
      [] m[1] = "allocator of" /\ a.k = "ba" -> BA(Operand(Loc(a.buf, 0)))
      [] OTHER -> a

Fixpoint == ~ENABLED Next

-----------------------------------------------------------------------------
BufOperands == {Named(n) : n \in DOMAIN Defs} \cup {VB(v) : v \in DOMAIN Views}

TypeOK ==
    /\ cmd.kind \in {"fill", "copy", "push"}
    /\ cmd.bufs \in Seq(BufOperands) /\ cmd.offs \in Seq(Nat)
    /\ DOMAIN cmd.bufs = DOMAIN cmd.offs
    /\ \/ acc.k = "ba" /\ acc.buf \in BufOperands
       \/ acc.k = "cbd" /\ acc.cb \in DOMAIN CmdBufs
       \/ acc.k = "name" /\ acc.n \notin DOMAIN Defs
    /\ mapped \subseteq {c \in DOMAIN Defs : Defs[c].k = "constant"}

(* After every rewrite, each command operand still addresses the same     *)
(* bytes of the same storage and the accessor still denotes the same      *)
(* allocator or device: the offset arithmetic of the subspan folds and    *)
(* the forwarding of SkipBufferAllocatorOp through subspans.              *)
RewritesPreserveMeaning ==
    /\ CmdMeaning(cmd) = CmdMeaning(input[1])
    /\ Meaning(acc) = Meaning(input[2])

(* Whatever order the driver applies the patterns in, when none matches   *)
(* the IR is the canonical form: no operand is a subspan or an accessor of *)
(* a created view, and the accessor is resolved as far as the defining    *)
(* ops allow.  The subspan folds match only once buffer_view.buffer has   *)
(* been skipped, so this needs the patterns to enable one another.  The   *)
(* one order-dependent outcome: a buffer.allocator of a constant that      *)
(* ExpandAllocatorConstantOp reached first stays an accessor of the map.   *)
FixpointIsNormalForm ==
    Fixpoint => /\ cmd = NormalCmd(input[1])
                /\ \/ acc = NormalAcc(input[2])
                   \/ acc.k = "ba" /\ acc.buf.k = "name" /\ acc.buf.n \in mapped

(* The canonicalization converges: a pattern that reports success changes *)
(* the IR, so the driver reaches a point where nothing matches.  Each fold *)
(* of a command's subspans must take every subspan operand, or it matches  *)
(* again with nothing to do.                                               *)
FoldingTerminates == <>Fixpoint

=============================================================================
