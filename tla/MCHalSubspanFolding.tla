------------------------- MODULE MCHalSubspanFolding ------------------------
(* An allocation, two constants (one of an element type with no HAL      *)
(* value) and a buffer argument, subspans of each, one a subspan of a     *)
(* subspan; views created from a subspan and an allocation and a view     *)
(* argument; a created and an argument command buffer.  Every fill, copy  *)
(* and two-binding push over a choice of operands, with every accessor.   *)
EXTENDS HalSubspanFolding

MCDefs ==
    ("a0" :> [k |-> "alloc", allocator |-> "al"])
    @@ ("c0" :> [k |-> "constant", allocator |-> "alc", elemok |-> TRUE])
    @@ ("c1" :> [k |-> "constant", allocator |-> "alc", elemok |-> FALSE])
    @@ ("p0" :> [k |-> "arg"])
    @@ ("s1" :> [k |-> "subspan", src |-> "a0", off |-> 4])
    @@ ("s2" :> [k |-> "subspan", src |-> "s1", off |-> 2])
    @@ ("s3" :> [k |-> "subspan", src |-> "p0", off |-> 1])
    @@ ("s4" :> [k |-> "subspan", src |-> "c0", off |-> 8])

MCViews ==
    ("v1" :> [k |-> "create", buf |-> "s2"]) @@ ("v2" :> [k |-> "arg"])
    @@ ("v3" :> [k |-> "create", buf |-> "a0"])

MCCmdBufs == ("cb1" :> [k |-> "create", device |-> "dev"]) @@ ("cb2" :> [k |-> "arg"])

Operands == {Named("s2"), Named("s3"), Named("p0"), Named("a0"), VB("v1"), VB("v2")}
Offs == {0, 3}

MCInitCmds ==
    {[kind |-> "fill", bufs |-> <<b>>, offs |-> <<o>>] : b \in Operands, o \in Offs}
    \cup {[kind |-> k, bufs |-> <<b1, b2>>, offs |-> <<o1, o2>>] :
            k \in {"copy", "push"}, b1, b2 \in Operands, o1, o2 \in Offs}

MCInitAccs ==
    {BA(b) : b \in {Named(n) : n \in DOMAIN MCDefs} \cup {VB(v) : v \in DOMAIN MCViews}}
    \cup {CBD(c) : c \in DOMAIN MCCmdBufs}
=============================================================================
