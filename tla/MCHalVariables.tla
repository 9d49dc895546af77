------------------------- MODULE MCHalVariables ------------------------------
(* Two variables, one with every kind of initializer; blocks of up to     *)
(* three loads and stores, direct, through a hal.variable.address or      *)
(* through an argument, storing an earlier load's result or a pool        *)
(* constant: a laid-out span, a laid-out splat, a span with no runtime    *)
(* range, or a plain value, which is never resolved and stands for any    *)
(* other constant.                                                        *)
EXTENDS HalVariables

MCVars == {"x", "y"}

MCPoolConsts ==
    ("k1" :> [k |-> "span", buf |-> "rb", range |-> "r1"])
    @@ ("k2" :> [k |-> "splat", buf |-> "rb", range |-> "r2"])
    @@ ("k3" :> [k |-> "span", buf |-> "rb", range |-> NoAttr])
    @@ ("k4" :> [k |-> "value", buf |-> NoAttr, range |-> NoAttr])
MCPoolData == ("k1" :> 5) @@ ("k2" :> 6) @@ ("k3" :> 7) @@ ("k4" :> 8)
\* The runtime buffer holds each laid-out constant at its range.
MCRuntimeData == (<<"rb", "r1">> :> 5) @@ (<<"rb", "r2">> :> 6)

Fn(n, body) == [k |-> "func", blocks |-> n, body |-> body]
Const1 == [k |-> "const", c |-> 1]
Ret == [k |-> "return"]

MCInitInits ==
    {("x" :> x) @@ ("y" :> [k |-> "value", c |-> 0]) :
        x \in {[k |-> "value", c |-> 0], Fn(1, <<Const1, Ret>>),
               Fn(1, <<Const1, [k |-> "inc"], Ret>>), Fn(2, <<Const1, Ret>>)}}

Loads(id) ==
    {[k |-> "load", id |-> id, var |-> v] : v \in MCVars}
    \cup {[k |-> "load_ind", id |-> id, addr |-> a] :
            a \in {[k |-> "addr", v |-> "y"], [k |-> "ptr", v |-> "x"]}}

StoredValues(prev) ==
    {[k |-> "pool", c |-> p] : p \in DOMAIN MCPoolConsts}
    \cup {[k |-> "res", id |-> prev[j].id] :
            j \in {j \in 1..Len(prev) : prev[j].k \in {"load", "load_ind"}}}

Stores(id, prev) ==
    {[k |-> "store", id |-> id, val |-> x, var |-> v] :
        x \in StoredValues(prev), v \in MCVars}
    \cup {[k |-> "store_ind", id |-> id, val |-> x, addr |-> a] :
            x \in StoredValues(prev),
            a \in {[k |-> "addr", v |-> "x"], [k |-> "ptr", v |-> "y"]}}

Ops(prev) == Loads(Len(prev) + 1) \cup Stores(Len(prev) + 1, prev)

Extend(S) == UNION {{b \o <<op>> : op \in Ops(b)} : b \in S}

AllBlocks == LET B1 == Extend({<<>>}) B2 == Extend(B1) IN B1 \cup B2 \cup Extend(B2)

\* The case the pattern's comment describes: a variable is loaded and the
\* result stored back to it, with no write of the variable in between.
StoreBackUnclobbered(b) ==
    \A i, j \in 1..Len(b) :
        (/\ b[i].k \in {"store", "store_ind"} /\ b[i].val.k = "res"
         /\ b[j].id = b[i].val.id /\ Target(b[j]) = Target(b[i]))
        => \A m \in (j + 1)..(i - 1) :
              b[m].k \in {"store", "store_ind"} => Target(b[m]) # Target(b[i])

MCInitBlocks == {b \in AllBlocks : StoreBackUnclobbered(b)}
MCAllBlocks == AllBlocks
=============================================================================
