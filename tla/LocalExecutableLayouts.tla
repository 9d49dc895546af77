----------------------- MODULE LocalExecutableLayouts ------------------------
(***************************************************************************)
(* The executable layouts a local executable retains                       *)
(* (src/iree/hal/local/local_executable.c): initialize stores the caller's *)
(* layouts in executable_layouts and retains each one, deinitialize        *)
(* releases each one, and issue_call runs the entry point against them.    *)
(* The layouts are shared, reference-counted objects: the caller holds its *)
(* own references and may release them at any time; a layout whose count   *)
(* reaches zero is destroyed (iree_hal_executable_layout_retain/release,   *)
(* which are not part of this source, modelled from the spec).            *)
(***************************************************************************)
EXTENDS Naturals, Sequences, SequencesExt

CONSTANTS Layouts,    \* the executable layout objects
          MaxLayouts  \* bound on executable_layout_count

VARIABLES refs,        \* reference count of each layout
          destroyed,   \* layouts whose count reached zero
          caller,      \* references the caller holds on each layout
          exe,         \* "none", "live" or "deinitialized"
          held,        \* executable_layouts, in order
          calls        \* issue_call invocations so far (bounded by one)

vars == <<refs, destroyed, caller, exe, held, calls>>

\* The caller created each layout and holds its one reference.
Init ==
    /\ refs = [l \in Layouts |-> 1]
    /\ destroyed = {}
    /\ caller = [l \in Layouts |-> 1]
    /\ exe = "none"
    /\ held = <<>>
    /\ calls = 0

\* How many times l occurs in the layout list s.
Occurrences(s, l) == Len(SelectSeq(s, LAMBDA x : x = l))

\* iree_hal_executable_layout_release on each element of s, in order: the
\* count of each drops by its occurrences, and a count reaching zero
\* destroys the layout.
ReleaseAll(s) ==
    /\ refs' = [l \in Layouts |-> refs[l] - Occurrences(s, l)]
    /\ destroyed' = destroyed \cup {l \in Layouts : refs'[l] = 0}

\* Mutant: initialize stores the layouts without retaining them.
InitializeNoRetain ==
    /\ exe = "none"
    /\ \E s \in BoundedSeq({l \in Layouts : caller[l] > 0}, MaxLayouts) :
          /\ held' = s
          /\ UNCHANGED refs
    /\ exe' = "live"
    /\ UNCHANGED <<destroyed, caller, calls>>

\* iree_hal_local_executable_initialize: the caller passes layouts it holds
\* (a layout may appear more than once); each element is stored and
\* retained.
Initialize ==
    /\ exe = "none"
    /\ \E s \in BoundedSeq({l \in Layouts : caller[l] > 0}, MaxLayouts) :
          /\ held' = s
          /\ refs' = [l \in Layouts |-> refs[l] + Occurrences(s, l)]
    /\ exe' = "live"
    /\ UNCHANGED <<destroyed, caller, calls>>

\* The caller drops one of its references, before or after creating the
\* executable.
CallerRelease(l) ==
    /\ caller[l] > 0
    /\ caller' = [caller EXCEPT ![l] = @ - 1]
    /\ ReleaseAll(<<l>>)
    /\ UNCHANGED <<exe, held, calls>>

\* iree_hal_local_executable_issue_call: the vtable's issue_call runs the
\* entry point with the executable's layouts.
IssueCall ==
    /\ exe = "live"
    /\ calls < 1
    /\ calls' = calls + 1
    /\ UNCHANGED <<refs, destroyed, caller, exe, held>>

\* Mutant: deinitialize releases only the first layout.
DeinitializeFirstOnly ==
    /\ exe = "live"
    /\ ReleaseAll(SubSeq(held, 1, IF held = <<>> THEN 0 ELSE 1))
    /\ exe' = "deinitialized"
    /\ UNCHANGED <<caller, held, calls>>

\* Mutant: deinitialize may run again on a deinitialized executable.
DeinitializeRepeatable ==
    /\ exe \in {"live", "deinitialized"}
    /\ ReleaseAll(held)
    /\ exe' = "deinitialized"
    /\ UNCHANGED <<caller, held, calls>>

\* iree_hal_local_executable_deinitialize: release each stored layout.
Deinitialize ==
    /\ exe = "live"
    /\ ReleaseAll(held)
    /\ exe' = "deinitialized"
    /\ UNCHANGED <<caller, held, calls>>

Next ==
    \/ Initialize \/ IssueCall \/ Deinitialize
    \/ \E l \in Layouts : CallerRelease(l)

Spec == Init /\ [][Next]_vars /\ WF_vars(Deinitialize)
        /\ \A l \in Layouts : WF_vars(CallerRelease(l))

-----------------------------------------------------------------------------
TypeOK ==
    /\ refs \in [Layouts -> Nat]
    /\ destroyed \subseteq Layouts
    /\ caller \in [Layouts -> Nat]
    /\ exe \in {"none", "live", "deinitialized"}
    /\ held \in Seq(Layouts)

\* While the executable is live, no layout it stores has been destroyed,
\* whenever the caller drops its own references: issue_call never runs
\* against a freed layout.
LayoutsOutliveExecutable ==
    exe = "live" => \A k \in 1..Len(held) : held[k] \notin destroyed

\* Every layout is eventually destroyed once the executable is
\* deinitialized and the caller has released its references: the
\* executable leaks no reference, a duplicated layout included.
NoLayoutLeaked ==
    \A l \in Layouts : <>(l \in destroyed)
=============================================================================
