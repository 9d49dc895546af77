---------------------------- MODULE HalVariables -----------------------------
(***************************************************************************)
(* The hal.variable and hal.constant_pool canonicalizations of             *)
(* src/iree/compiler/Dialect/HAL/IR/HALOpFolders.cpp under the greedy      *)
(* rewrite driver: InlineConstVariableOpInitializer,                       *)
(* PropagateVariableLoadAddress, EraseUnusedVariableStoreOp,               *)
(* PropagateVariableStoreAddress and ResolveConstantPoolLoadToRuntimeBuffer.*)
(* The function is one block of variable loads and stores, run from the    *)
(* variables' initial values; an op is a record with the id of its SSA     *)
(* result.  An address is either a hal.variable.address op (the variable   *)
(* is known) or a function argument that points to a variable only at run  *)
(* time.  A stored value is the result of an earlier load, a              *)
(* hal.constant_pool.load of a pool constant or a hal.constant.subspan of  *)
(* a runtime buffer.                                                       *)
(***************************************************************************)
EXTENDS Integers, Sequences, SequencesExt, FiniteSetsExt

CONSTANTS
    Vars,           \* the hal.variable symbols
    PoolConsts,     \* Pool -> [k : {"span", "splat", "value"}, buf, range]
    PoolData,       \* the data of each pool constant
    RuntimeData,    \* <<runtime buffer, byte range>> -> the data there
    InitInits,      \* the variables' initializers the module may start with
    InitBlocks      \* the blocks the function may start with

NoAttr == "none"

VARIABLES
    inits,  \* Vars -> the variable's initial_value or initializer function
    block,  \* the function's ops, in order
    input   \* <<inits, block>> as the module started

vars == <<inits, block, input>>

\* The value an initializer function returns: its ops are a constant, then
\* increments of the previous result, then the return.
InitializerValue(f) ==
    FoldLeft(LAMBDA acc, op : IF op.k = "const" THEN op.c
                              ELSE IF op.k = "inc" THEN acc + 1 ELSE acc,
             0, f.body)

InitialValue(init) ==
    IF init.k = "value" THEN init.c ELSE InitializerValue(init)

\* What a stored value is at run time, given the load results so far.
Val(res, x) ==
    CASE x.k = "res" -> res[x.id]
      [] x.k = "pool" -> PoolData[x.c]
      [] OTHER -> RuntimeData[<<x.buf, x.range>>]

Target(op) == IF op.k \in {"load", "store"} THEN op.var ELSE op.addr.v

\* Running the block: the final variables and each load's result.
Run(ini, blk) ==
    FoldLeft(LAMBDA acc, op :
               IF op.k \in {"load", "load_ind"}
               THEN [acc EXCEPT !.res = (op.id :> acc.mem[Target(op)]) @@ @]
               ELSE [acc EXCEPT !.mem[Target(op)] = Val(acc.res, op.val)],
             [mem |-> [v \in Vars |-> InitialValue(ini[v])], res |-> <<>>],
             blk)

Init ==
    /\ inits \in InitInits
    /\ block \in InitBlocks
    /\ input = <<inits, block>>

\* Mutant: any initializer whose first op is a constant is inlined.
InlinableNoSizeCheck(f) == f.k = "func" /\ f.body[1].k = "const"

\* One block of two ops, a return last and a constant first.
Inlinable(f) ==
    /\ f.k = "func" /\ f.blocks = 1 /\ Len(f.body) = 2
    /\ f.body[2].k = "return" /\ f.body[1].k = "const"

\* InlineConstVariableOpInitializer: the variable gets the constant as its
\* initial value and loses the initializer.
InlineConstVariableOpInitializer(v) ==
    /\ Inlinable(inits[v])
    /\ inits' = [inits EXCEPT ![v] = [k |-> "value", c |-> @.body[1].c]]
    /\ UNCHANGED <<block, input>>

\* PropagateVariableLoadAddress: a load through a hal.variable.address
\* becomes a direct load.
PropagateVariableLoadAddress(i) ==
    /\ block[i].k = "load_ind" /\ block[i].addr.k = "addr"
    /\ block' = [block EXCEPT ![i] = [k |-> "load", id |-> @.id, var |-> @.addr.v]]
    /\ UNCHANGED <<inits, input>>

\* PropagateVariableStoreAddress: likewise for a store.
PropagateVariableStoreAddress(i) ==
    /\ block[i].k = "store_ind" /\ block[i].addr.k = "addr"
    /\ block' = [block EXCEPT ![i] = [k |-> "store", id |-> @.id,
                                      val |-> @.val, var |-> @.addr.v]]
    /\ UNCHANGED <<inits, input>>

\* EraseUnusedVariableStoreOp: a store of a value defined by a load of the
\* same variable is erased.
EraseUnusedVariableStoreOp(i) ==
    /\ block[i].k = "store" /\ block[i].val.k = "res"
    /\ \E j \in 1..Len(block) :
         /\ block[j].id = block[i].val.id
         /\ block[j].k = "load" /\ block[j].var = block[i].var
    /\ block' = RemoveAt(block, i)
    /\ UNCHANGED <<inits, input>>

\* Mutant: a span or splat without a runtime range is resolved anyway.
ResolvableNoRangeCheck(p) == p.k \in {"span", "splat"} /\ p.buf # NoAttr

\* The op is a span or a splat, and both its runtime attributes are set.
Resolvable(p) ==
    p.k \in {"span", "splat"} /\ p.buf # NoAttr /\ p.range # NoAttr

\* ResolveConstantPoolLoadToRuntimeBuffer: the load of a laid-out pool
\* constant becomes a hal.constant.subspan of its runtime buffer.
ResolveConstantPoolLoadToRuntimeBuffer(c) ==
    /\ Resolvable(PoolConsts[c])
    /\ \E i \in 1..Len(block) : block[i].k \in {"store", "store_ind"}
                                /\ block[i].val = [k |-> "pool", c |-> c]
    /\ block' = [i \in 1..Len(block) |->
                   IF block[i].k \in {"store", "store_ind"}
                      /\ block[i].val = [k |-> "pool", c |-> c]
                   THEN [block[i] EXCEPT !.val = [k |-> "csub",
                                                  buf |-> PoolConsts[c].buf,
                                                  range |-> PoolConsts[c].range]]
                   ELSE block[i]]
    /\ UNCHANGED <<inits, input>>

Next ==
    \/ \E v \in Vars : InlineConstVariableOpInitializer(v)
    \/ \E c \in DOMAIN PoolConsts : ResolveConstantPoolLoadToRuntimeBuffer(c)
    \/ \E i \in 1..Len(block) :
         \/ PropagateVariableLoadAddress(i)
         \/ PropagateVariableStoreAddress(i)
         \/ EraseUnusedVariableStoreOp(i)

\* The greedy driver applies a matching rewrite while there is one.
Spec == Init /\ [][Next]_vars /\ WF_vars(Next)

-----------------------------------------------------------------------------
TypeOK ==
    /\ \A v \in Vars : inits[v].k = "value" \/ inits[v].k = "func"
    /\ \A i \in 1..Len(block) :
         block[i].k \in {"store", "store_ind"} /\ block[i].val.k = "csub"
            => <<block[i].val.buf, block[i].val.range>> \in DOMAIN RuntimeData

(* Whatever the driver rewrites, in whatever order, running the function   *)
(* from the variables' initial values leaves every variable with the same  *)
(* value and gives every load the same result as before any rewrite: the   *)
(* inlined initializer, the direct load or store that replaced an indirect *)
(* one, the runtime buffer that replaced a pool load, and the erased store *)
(* change nothing a later op or the caller sees.                           *)
RewritesPreserveSemantics == Run(inits, block) = Run(input[1], input[2])

=============================================================================
