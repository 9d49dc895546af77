--------------------------- MODULE ResourceSteps ----------------------------
(***************************************************************************)
(* A straight-line function built of IREE_RETURN_IF_ERROR steps, as in     *)
(* simple_embedding.c Run(), IREEBenchmark in iree-benchmark-module-main.cc *)
(* and iree_hal_vulkan_native_event_create: each step creates, moves into  *)
(* lists, uses and releases reference-counted objects (RefHeap), and a     *)
(* fallible step may instead fail, which returns with the status after the *)
(* step's cleanup, if it has one.  A failed create leaves its              *)
(* out-parameter NULL.  After the body, successful or not, an epilogue     *)
(* runs (a destructor, or the caller's release; empty for a plain          *)
(* function).                                                              *)
(***************************************************************************)
EXTENDS Integers, Sequences, SequencesExt, RefHeap

CONSTANTS
    Objects,    \* the objects the function may create
    Programs    \* [body, epilogue]: the steps of the body (one program per
                \* branch it may take) and of what runs after it returns

\* A step: creates (in order, each <<object, the objects it retains>>),
\* moves (<<list, object>>), the objects it uses, its releases (in order)
\* and whether it can fail.  The step touches what it uses, the objects its
\* creates retain and both ends of its moves, except what it creates.
Step(creates, moves, uses, releases, fallible) ==
    LET made == {c[1] : c \in ToSet(creates)}
        kids == UNION {c[2] : c \in ToSet(creates)}
        moved == {m[1] : m \in moves} \cup {m[2] : m \in moves}
    IN [creates |-> creates, moves |-> moves, made |-> made,
        touches |-> (uses \cup kids \cup moved) \ made,
        releases |-> releases, fallible |-> fallible, cleanup |-> <<>>]

\* A fallible step whose failure path releases, in order, what the function
\* has built so far before it returns the status.
WithCleanup(st, cleanup) == [st EXCEPT !.cleanup = cleanup]

VARIABLES
    heap,
    program,    \* the program (and branch) being run
    phase,      \* "body", "epilogue", "returned"
    pc,         \* the step of the current phase
    outcome,    \* "none", "ok", "error": the status the body returns
    misuse      \* objects used, moved or released after being destroyed

vars == <<heap, program, phase, pc, outcome, misuse>>

Init ==
    /\ heap = EmptyHeap(Objects)
    /\ program \in Programs
    /\ phase = "body"
    /\ pc = 1
    /\ outcome = "none"
    /\ misuse = {}

Code == IF phase = "body" THEN program.body ELSE program.epilogue

Apply(h, st) ==
    LET h1 == FoldLeft(LAMBDA acc, c : HCreate(acc, c[1], c[2]), h, st.creates)
        h2 == FoldSet(LAMBDA m, acc : HMove(acc, m[1], m[2]), h1, st.moves)
    IN FoldLeft(LAMBDA acc, o : HRelease(acc, o), h2, st.releases)

\* What the step touches that is not live, and what it releases that has
\* already been destroyed (an object the step itself creates is new).
Misused(h, st) ==
    {o \in st.touches : ~Live(h, o)}
    \cup ((ToSet(st.releases) \ st.made) \cap Destroyed(h))

\* The current step succeeds.
StepOk ==
    /\ phase # "returned" /\ pc <= Len(Code)
    /\ heap' = Apply(heap, Code[pc])
    /\ misuse' = misuse \cup Misused(heap, Code[pc])
    /\ pc' = pc + 1
    /\ UNCHANGED <<program, phase, outcome>>

\* IREE_RETURN_IF_ERROR: the current step fails, its cleanup runs and the
\* body returns.
StepFail ==
    /\ phase = "body" /\ pc <= Len(Code) /\ Code[pc].fallible
    /\ heap' = FoldLeft(LAMBDA acc, o : HRelease(acc, o), heap, Code[pc].cleanup)
    /\ misuse' = misuse \cup {o \in Code[pc].touches : ~Live(heap, o)}
                        \cup (ToSet(Code[pc].cleanup) \cap Destroyed(heap))
    /\ outcome' = "error" /\ phase' = "epilogue" /\ pc' = 1
    /\ UNCHANGED program

\* The body runs to its end and returns OK.
EndBody ==
    /\ phase = "body" /\ pc > Len(Code)
    /\ outcome' = "ok" /\ phase' = "epilogue" /\ pc' = 1
    /\ UNCHANGED <<heap, program, misuse>>

EndEpilogue ==
    /\ phase = "epilogue" /\ pc > Len(Code)
    /\ phase' = "returned"
    /\ UNCHANGED <<heap, program, pc, outcome, misuse>>

Next == StepOk \/ StepFail \/ EndBody \/ EndEpilogue

\* A straight-line function keeps running until it returns.
Spec == Init /\ [][Next]_vars /\ WF_vars(Next)

-----------------------------------------------------------------------------
TypeOK ==
    /\ heap.refs \in [Objects -> Nat]
    /\ heap.created \subseteq Objects
    /\ heap.holds \in [Objects -> SUBSET Objects]
    /\ program \in Programs
    /\ phase \in {"body", "epilogue", "returned"}
    /\ pc \in 1..(Len(Code) + 1)
    /\ outcome \in {"none", "ok", "error"}
    /\ misuse \subseteq Objects

(* Whatever step fails, no object is used, moved into a list or released  *)
(* after its last reference is gone: every release in the function and    *)
(* its epilogue happens after the last use of the reference it drops, and *)
(* no reference is released twice.                                         *)
NoUseAfterRelease == misuse = {}

(* When the function has returned OK, every object it created has been    *)
(* destroyed: the releases at its end, with the references that lists,    *)
(* views, modules and contexts hold, account for every create.            *)
NoLeakOnSuccess ==
    (phase = "returned" /\ outcome = "ok") => Destroyed(heap) = heap.created

(* Whichever step fails, once the function (and its epilogue) has         *)
(* returned, every object it created has been destroyed.                  *)
NoLeakOnReturn ==
    phase = "returned" => Destroyed(heap) = heap.created

=============================================================================
