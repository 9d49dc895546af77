---------------------------- MODULE MCRuntimeSuite ---------------------------
(* The runtime models checked in one run: command-line flag parsing, the  *)
(* layouts a local executable retains, the VM value constructors and the   *)
(* alignment helper.  The initial state picks the model, and from there    *)
(* only its steps run.  Each model gets the inputs of its own MC module    *)
(* (MCFlagsParse, MCLocalExecutableLayouts, MCVmValue, MCHostAlign); the   *)
(* variables of the other models stay fixed.                               *)
EXTENDS Naturals

CONSTANTS l1, l2

VARIABLES which,
          mode, argv0, argv, ord, stack, storage, help_shown, status,
          refs, destroyed, caller, exe, held, calls,
          value, made,
          arg, returned, result

flagVars == <<mode, argv0, argv, ord, stack, storage, help_shown, status>>
layVars == <<refs, destroyed, caller, exe, held, calls>>
valVars == <<value, made>>
alignVars == <<arg, returned, result>>
vars == <<which, flagVars, layVars, valVars, alignVars>>

Unused == [unused |-> TRUE]

FlagsIn == INSTANCE MCFlagsParse WITH BoolFlags <- {}, StringFlags <- {},
             Unregistered <- {}, Values <- {}, FileContents <- <<>>,
             Argvs <- {}, MaxDepth <- 0
Flags == INSTANCE MCFlagsParse WITH BoolFlags <- FlagsIn!MCBoolFlags,
           StringFlags <- FlagsIn!MCStringFlags,
           Unregistered <- FlagsIn!MCUnregistered, Values <- FlagsIn!MCValues,
           FileContents <- FlagsIn!MCFileContents, Argvs <- FlagsIn!MCArgvs,
           MaxDepth <- FlagsIn!MCMaxDepth
Lay == INSTANCE MCLocalExecutableLayouts WITH Layouts <- {l1, l2}, MaxLayouts <- 2
ValIn == INSTANCE MCVmValue WITH I32Inputs <- {}, I64Inputs <- {},
           F32Inputs <- {}, F64Inputs <- {}
\* Floats without a fraction only: make_f32 of one with a fraction is the
\* run vm_value_make_f32_truncates.
Val == INSTANCE MCVmValue WITH I32Inputs <- ValIn!MCI32Inputs,
         I64Inputs <- ValIn!MCI64Inputs, F32Inputs <- ValIn!MCIntegralF32Inputs,
         F64Inputs <- ValIn!MCF64Inputs
AlignIn == INSTANCE MCHostAlign WITH Bits <- 0, Values <- {}, Alignments <- {}
Align == INSTANCE MCHostAlign WITH Bits <- AlignIn!MCBits,
           Values <- AlignIn!MCValues, Alignments <- AlignIn!MCAlignments

FlagsOff == mode = Unused /\ argv0 = Unused /\ argv = Unused /\ ord = Unused
            /\ stack = Unused /\ storage = Unused /\ help_shown = Unused
            /\ status = Unused
LayOff == refs = Unused /\ destroyed = Unused /\ caller = Unused /\ exe = Unused
          /\ held = Unused /\ calls = Unused
ValOff == value = Unused /\ made = Unused
AlignOff == arg = Unused /\ returned = Unused /\ result = Unused

Init ==
    \/ which = "flags" /\ Flags!Init /\ LayOff /\ ValOff /\ AlignOff
    \/ which = "layouts" /\ Lay!Init /\ FlagsOff /\ ValOff /\ AlignOff
    \/ which = "value" /\ Val!Init /\ FlagsOff /\ LayOff /\ AlignOff
    \/ which = "align" /\ Align!Init /\ FlagsOff /\ LayOff /\ ValOff

FlagStep == which = "flags" /\ Flags!Next /\ UNCHANGED <<which, layVars, valVars, alignVars>>
LayStep(A) == which = "layouts" /\ A /\ UNCHANGED <<which, flagVars, valVars, alignVars>>
ValStep == which = "value" /\ Val!Next /\ UNCHANGED <<which, flagVars, layVars, alignVars>>
AlignStep == which = "align" /\ Align!Next /\ UNCHANGED <<which, flagVars, layVars, valVars>>

Next == FlagStep \/ LayStep(Lay!Next) \/ ValStep \/ AlignStep

\* The fairness of each model: the parse runs to its return, and the
\* executable is deinitialized and the caller releases its layouts.
Spec == Init /\ [][Next]_vars /\ WF_vars(FlagStep)
        /\ WF_vars(LayStep(Lay!Deinitialize))
        /\ \A l \in {l1, l2} : WF_vars(LayStep(Lay!CallerRelease(l)))

(* The type invariant of the model that runs.                               *)
TypeOK ==
    CASE which = "flags" -> Flags!TypeOK
      [] which = "layouts" -> Lay!TypeOK
      [] which = "value" -> Val!TypeOK
      [] OTHER -> Align!TypeOK

(* Flags: iree_flags_parse leaves the flag values, the argv and the status *)
(* the reference reading of the command line and its flagfiles gives.      *)
ParseMatchesReference == which = "flags" => Flags!ParseMatchesReference

(* Layouts: no layout a live executable stores has been destroyed.          *)
LayoutsOutliveExecutable == which = "layouts" => Lay!LayoutsOutliveExecutable

(* Layouts: every layout is eventually destroyed.                           *)
NoLayoutLeaked == \A l \in {l1, l2} : <>(which = "layouts" => l \in destroyed)

(* Alignment: iree_host_align returns the least multiple of a power-of-two  *)
(* alignment at or above the value, where that fits in the width.           *)
AlignMatchesReference == which = "align" => Align!AlignMatchesReference
=============================================================================
