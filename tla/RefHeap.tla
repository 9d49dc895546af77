------------------------------ MODULE RefHeap -------------------------------
(***************************************************************************)
(* Reference-counted IREE objects (iree_vm_instance_t, iree_vm_context_t,  *)
(* iree_vm_module_t, iree_hal_device_t, iree_hal_buffer_t, buffer views,   *)
(* iree_vm_list_t), as the callers under src/ rely on them: a create      *)
(* returns one reference, an object retains what it is built on, release   *)
(* of NULL is a no-op, and the last release destroys the object and        *)
(* releases what it holds.  The implementations of these objects are not  *)
(* in this source; this module is the contract, modelled from the spec.    *)
(*                                                                         *)
(* A heap is a record: refs (reference counts), created (objects that      *)
(* exist or have existed) and holds (the objects each one retains).        *)
(***************************************************************************)
EXTENDS Integers, FiniteSetsExt

EmptyHeap(objs) ==
    [refs |-> [o \in objs |-> 0], created |-> {}, holds |-> [o \in objs |-> {}]]

Live(h, o) == o \in h.created /\ h.refs[o] > 0

Destroyed(h) == {o \in h.created : h.refs[o] = 0}

\* *_create(..., &o) with o built on kids: o starts with one reference and
\* retains each kid.
HCreate(h, o, kids) ==
    [h EXCEPT !.refs = [p \in DOMAIN @ |->
                          IF p = o THEN 1
                          ELSE IF p \in kids THEN @[p] + 1 ELSE @[p]],
              !.created = @ \cup {o},
              !.holds[o] = kids]

\* *_push_ref_move: the list takes over the caller's reference.
HMove(h, list, o) == [h EXCEPT !.holds[list] = @ \cup {o}]

\* Mutant: release without the NULL check.
RECURSIVE HReleaseNoNullCheck(_, _)
HReleaseNoNullCheck(h, o) ==
    LET h1 == [h EXCEPT !.refs[o] = @ - 1]
    IN IF h1.refs[o] = 0
         THEN FoldSet(LAMBDA c, acc : HReleaseNoNullCheck(acc, c), h1, h.holds[o])
         ELSE h1

\* *_release(o): NULL (never created) and already-destroyed objects are
\* left alone here; the caller's misuse of the latter is recorded apart.
RECURSIVE HRelease(_, _)
HRelease(h, o) ==
    IF ~Live(h, o) THEN h
    ELSE LET h1 == [h EXCEPT !.refs[o] = @ - 1]
         IN IF h1.refs[o] = 0
              THEN FoldSet(LAMBDA c, acc : HRelease(acc, c), h1, h.holds[o])
              ELSE h1

=============================================================================
