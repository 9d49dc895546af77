------------------------------ MODULE MCHalSuite -----------------------------
(* The four HAL canonicalization models and the workgroup tile padding   *)
(* of the LLVM codegen checked in one run: the initial state picks the     *)
(* model, and from there only its rewrites step.  Each model gets the      *)
(* inputs of its own MC module (MCHalAllocatorMath, MCHalPackCanonicalize, *)
(* MCHalSubspanFolding, MCHalVariables, MCPadWorkgroupTiles).  The inputs  *)
(* of the shape-math, variable and padding models are renamed root,        *)
(* vinput and pinput; the variables of the other models stay fixed.        *)
EXTENDS Naturals

CONSTANTS s1, s2, s3, s4

VARIABLES which, root, ops, pack, uses, orig, cmd, acc, input, mapped, inits, block,
          vinput, op, pinput

vars == <<which, root, ops, pack, uses, orig, cmd, acc, input, mapped, inits, block,
          vinput, op, pinput>>

Unused == [unused |-> TRUE]

MathIn == INSTANCE MCHalAllocatorMath WITH input <- root, RootOps <- {}
Math == INSTANCE MCHalAllocatorMath WITH input <- root, RootOps <- MathIn!MCRootOps

PackIn == INSTANCE MCHalPackCanonicalize WITH
            Slices <- {}, Lifetime <- <<>>, InitPacks <- {}
Pack == INSTANCE MCHalPackCanonicalize WITH
          Slices <- PackIn!MCSlices, Lifetime <- PackIn!MCLifetime,
          InitPacks <- PackIn!MCInitPacks

SubIn == INSTANCE MCHalSubspanFolding WITH
           Defs <- <<>>, Views <- <<>>, CmdBufs <- <<>>, InitCmds <- {},
           InitAccs <- {}
Sub == INSTANCE MCHalSubspanFolding WITH
         Defs <- SubIn!MCDefs, Views <- SubIn!MCViews, CmdBufs <- SubIn!MCCmdBufs,
         InitCmds <- SubIn!MCInitCmds, InitAccs <- SubIn!MCInitAccs

VarIn == INSTANCE MCHalVariables WITH input <- vinput,
           Vars <- {}, PoolConsts <- <<>>, PoolData <- <<>>, RuntimeData <- <<>>,
           InitInits <- {}, InitBlocks <- {}
Var == INSTANCE MCHalVariables WITH input <- vinput,
         Vars <- VarIn!MCVars, PoolConsts <- VarIn!MCPoolConsts,
         PoolData <- VarIn!MCPoolData, RuntimeData <- VarIn!MCRuntimeData,
         InitInits <- VarIn!MCInitInits, InitBlocks <- VarIn!MCInitBlocks

PadIn == INSTANCE MCPadWorkgroupTiles WITH input <- pinput,
           Problems <- {}, Configs <- {}, OutKinds <- {}, LoadKinds <- {}
Pad == INSTANCE MCPadWorkgroupTiles WITH input <- pinput,
         Problems <- PadIn!MCProblems, Configs <- PadIn!MCConfigs,
         OutKinds <- {"fill"}, LoadKinds <- {"tile"}

MathOff == root = Unused /\ ops = Unused
PackOff == pack = Unused /\ uses = Unused /\ orig = Unused
SubOff == cmd = Unused /\ acc = Unused /\ input = Unused /\ mapped = Unused
VarOff == inits = Unused /\ block = Unused /\ vinput = Unused
PadOff == op = Unused /\ pinput = Unused

Init ==
    \/ which = "math" /\ Math!Init /\ PackOff /\ SubOff /\ VarOff /\ PadOff
    \/ which = "pack" /\ Pack!Init /\ MathOff /\ SubOff /\ VarOff /\ PadOff
    \/ which = "subspan" /\ Sub!Init /\ MathOff /\ PackOff /\ VarOff /\ PadOff
    \/ which = "variables" /\ Var!Init /\ MathOff /\ PackOff /\ SubOff /\ PadOff
    \/ which = "pad" /\ Pad!Init /\ MathOff /\ PackOff /\ SubOff /\ VarOff

Next ==
    \/ which = "math" /\ Math!Next
       /\ UNCHANGED <<which, pack, uses, orig, cmd, acc, input, mapped, inits, block, vinput, op, pinput>>
    \/ which = "pack" /\ Pack!Next
       /\ UNCHANGED <<which, root, ops, cmd, acc, input, mapped, inits, block, vinput, op, pinput>>
    \/ which = "subspan" /\ Sub!Next
       /\ UNCHANGED <<which, root, ops, pack, uses, orig, inits, block, vinput, op, pinput>>
    \/ which = "variables" /\ Var!Next
       /\ UNCHANGED <<which, root, ops, pack, uses, orig, cmd, acc, input, mapped, op, pinput>>
    \/ which = "pad" /\ Pad!Next
       /\ UNCHANGED <<which, root, ops, pack, uses, orig, cmd, acc, input, mapped,
                      inits, block, vinput>>

\* The greedy driver applies a matching rewrite while there is one.
Spec == Init /\ [][Next]_vars /\ WF_vars(Next)

(* The type invariant of the model that runs.                               *)
TypeOK ==
    CASE which = "math" -> Math!TypeOK
      [] which = "pack" -> Pack!TypeOK
      [] which = "subspan" -> Sub!TypeOK
      [] which = "variables" -> Var!TypeOK
      [] OTHER -> Pad!TypeOK

(* Shape math: once no pattern matches, the root's results are the byte    *)
(* size, offset or tightest range of the box in a row-major tensor.        *)
ExpansionMatchesReference == which = "math" => Math!ExpansionMatchesReference

(* Pack: every use of a pack result keeps its meaning across the fold, the *)
(* base offset propagation and the remap after sorting.                    *)
UsesPreserveMeaning == which = "pack" => Pack!UsesPreserveMeaning

(* Subspans: every rewrite keeps the buffer, byte offset, allocator and    *)
(* device each operand and accessor denotes.                               *)
RewritesPreserveMeaning == which = "subspan" => Sub!RewritesPreserveMeaning

(* Subspans: at the fixpoint no command or accessor still refers to a     *)
(* subspan, a created view or a foldable defining op.                      *)
FixpointIsNormalForm == which = "subspan" => Sub!FixpointIsNormalForm

(* Variables: running the function gives every variable and every load    *)
(* the value it had before the rewrites, for stores back of an unclobbered *)
(* load.                                                                   *)
RewritesPreserveSemantics == which = "variables" => Var!RewritesPreserveSemantics

(* Padding: the rewritten IR computes the matmul's result: same shape,   *)
(* same products in every element.                                         *)
RewritePreservesProduct == which = "pad" => Pad!RewritePreservesProduct

(* Padding: the padded matmul's operand, output and result shapes agree.   *)
ShapesConsistent == which = "pad" => Pad!ShapesConsistent

(* Padding: every padded dim is a multiple of its vector tile size where   *)
(* the workgroup tile is.                                                  *)
PaddedToTileMultiples == which = "pad" => Pad!PaddedToTileMultiples

(* Pack: the canonicalizer stops at a fixpoint and stays there.            *)
CanonicalizationTerminates == <>[](which = "pack" => Pack!Fixpoint)

(* Subspans: the folding reaches a fixpoint.                               *)
FoldingTerminates == <>(which = "subspan" => Sub!Fixpoint)
=============================================================================
