----------------------- MODULE LocalExecutableDispatch -----------------------
(***************************************************************************)
(* iree_hal_local_executable_issue_dispatch_inline                         *)
(* (src/iree/hal/local/local_executable.c): the three nested loops over    *)
(* workgroup_id.z, .y and .x, each iteration issuing one call through      *)
(* iree_hal_local_executable_issue_call.  The entry point's result is a    *)
(* free choice: the generated code may return zero or non-zero on any      *)
(* call.  The loops are kept exactly as written, including the `break`     *)
(* taken on a failed call, which leaves only the innermost (x) loop.       *)
(***************************************************************************)
EXTENDS Naturals, Sequences

CONSTANTS MaxCount,  \* largest workgroup count per dimension
          MaxCalls   \* bound on the number of calls of one dispatch

ASSUME MaxCount \in Nat /\ MaxCalls \in Nat

VARIABLES count,   \* workgroup_count, copied from dispatch_state
          wid,     \* workgroup_id, the loop variables
          pc,      \* which test or statement of the loop nest runs next
          status,  \* the local `status`, returned at the end
          calls    \* log of issued calls: [wid, ok] records, in order

vars == <<count, wid, pc, status, calls>>

Counts == [x : 0..MaxCount, y : 0..MaxCount, z : 0..MaxCount]
Ids == [x : Nat, y : Nat, z : Nat]
Cells(c) == [x : 0..(c.x - 1), y : 0..(c.y - 1), z : 0..(c.z - 1)]

\* Entry: status = iree_ok_status(); the z loop initialises workgroup_id.z.
\* workgroup_id.y and .x are assigned by their loops before they are read.
Init ==
    /\ count \in Counts
    /\ wid = [x |-> 0, y |-> 0, z |-> 0]
    /\ pc = "z_test"
    /\ status = "ok"
    /\ calls = <<>>

\* Mutant: the z loop tests workgroup_id.z <= workgroup_count.z.
ZTestInclusive ==
    /\ pc = "z_test"
    /\ IF wid.z <= count.z
          THEN /\ wid' = [wid EXCEPT !.y = 0]
               /\ pc' = "y_test"
          ELSE /\ pc' = "done"
               /\ UNCHANGED wid
    /\ UNCHANGED <<count, status, calls>>

\* for (workgroup_id.z = 0; workgroup_id.z < workgroup_count.z; ++workgroup_id.z)
ZTest ==
    /\ pc = "z_test"
    /\ IF wid.z < count.z
          THEN /\ wid' = [wid EXCEPT !.y = 0]
               /\ pc' = "y_test"
          ELSE /\ pc' = "done"
               /\ UNCHANGED wid
    /\ UNCHANGED <<count, status, calls>>

\* Mutant: the x loop keeps the previous row's workgroup_id.x.
YTestNoXReset ==
    /\ pc = "y_test"
    /\ IF wid.y < count.y
          THEN /\ pc' = "x_test"
               /\ UNCHANGED wid
          ELSE /\ wid' = [wid EXCEPT !.z = @ + 1]
               /\ pc' = "z_test"
    /\ UNCHANGED <<count, status, calls>>

\* for (workgroup_id.y = 0; workgroup_id.y < workgroup_count.y; ++workgroup_id.y)
YTest ==
    /\ pc = "y_test"
    /\ IF wid.y < count.y
          THEN /\ wid' = [wid EXCEPT !.x = 0]
               /\ pc' = "x_test"
          ELSE /\ wid' = [wid EXCEPT !.z = @ + 1]
               /\ pc' = "z_test"
    /\ UNCHANGED <<count, status, calls>>

\* for (workgroup_id.x = 0; workgroup_id.x < workgroup_count.x; ++workgroup_id.x)
XTest ==
    /\ pc = "x_test"
    /\ IF wid.x < count.x
          THEN /\ pc' = "call"
               /\ UNCHANGED wid
          ELSE /\ wid' = [wid EXCEPT !.y = @ + 1]
               /\ pc' = "y_test"
    /\ UNCHANGED <<count, status, calls>>

\* Mutant: a failed call leaves both the x and the y loop.
IssueCallBreakPlane ==
    /\ pc = "call"
    /\ Len(calls) < MaxCalls
    /\ \E ok \in BOOLEAN :
          /\ status' = IF ok THEN "ok" ELSE "error"
          /\ calls' = Append(calls, [wid |-> wid, ok |-> ok])
          /\ IF ok
                THEN /\ wid' = [wid EXCEPT !.x = @ + 1]
                     /\ pc' = "x_test"
                ELSE /\ wid' = [wid EXCEPT !.z = @ + 1]
                     /\ pc' = "z_test"
    /\ UNCHANGED count

\* Mutant: a failed call restarts its row instead of moving to the next.
IssueCallRetryRow ==
    /\ pc = "call"
    /\ Len(calls) < MaxCalls
    /\ \E ok \in BOOLEAN :
          /\ status' = IF ok THEN "ok" ELSE "error"
          /\ calls' = Append(calls, [wid |-> wid, ok |-> ok])
          /\ IF ok
                THEN /\ wid' = [wid EXCEPT !.x = @ + 1]
                     /\ pc' = "x_test"
                ELSE /\ pc' = "y_test"
                     /\ UNCHANGED wid
    /\ UNCHANGED count

\* status = iree_hal_local_executable_issue_call(...);
\* if (!iree_status_is_ok(status)) break;
\* The break leaves the x loop only: control continues with ++workgroup_id.y.
IssueCall ==
    /\ pc = "call"
    /\ Len(calls) < MaxCalls
    /\ \E ok \in BOOLEAN :
          /\ status' = IF ok THEN "ok" ELSE "error"
          /\ calls' = Append(calls, [wid |-> wid, ok |-> ok])
          /\ IF ok
                THEN /\ wid' = [wid EXCEPT !.x = @ + 1]
                     /\ pc' = "x_test"
                ELSE /\ wid' = [wid EXCEPT !.y = @ + 1]
                     /\ pc' = "y_test"
    /\ UNCHANGED count

Next == ZTest \/ YTest \/ XTest \/ IssueCall

\* The loops run on the calling thread without suspension: each enabled
\* step is eventually taken.
Spec == Init /\ [][Next]_vars /\ WF_vars(Next)

-----------------------------------------------------------------------------
Issued == [i \in 1..Len(calls) |-> calls[i].wid]
Failed == {calls[i].wid : i \in {j \in 1..Len(calls) : ~calls[j].ok}}

\* The calls of the loops implement the abstract dispatch of DispatchOrder:
\* strictly increasing row-major workgroup ids, and the dispatch returns.
DispatchAbs == INSTANCE DispatchOrder
    WITH count <- count, issued <- Issued, finished <- (pc = "done")

DispatchImplementsOrder == DispatchAbs!FairSpec

\* The calls are issued with workgroup ids that lie in the grid; a loop
\* bound off by one would issue a workgroup id outside it.
TypeOK ==
    /\ count \in Counts
    /\ wid \in Ids
    /\ pc \in {"z_test", "y_test", "x_test", "call", "done"}
    /\ status \in {"ok", "error"}
    /\ calls \in Seq([wid : Cells(count), ok : BOOLEAN])

\* The row-major enumeration of the whole grid, the calls a dispatch with
\* no failing workgroup must issue.
RowMajor(c) ==
    [i \in 1..(c.x * c.y * c.z) |->
        [x |-> (i - 1) % c.x,
         y |-> ((i - 1) \div c.x) % c.y,
         z |-> (i - 1) \div (c.x * c.y)]]

\* When no entry point call failed, the dispatch has issued exactly one call
\* per workgroup of the grid, in row-major order, and returns success.
CompleteOnSuccess ==
    (pc = "done" /\ Failed = {}) => (Issued = RowMajor(count) /\ status = "ok")

\* A workgroup the dispatch passed over without issuing lies in a row
\* (same y and z) in which a workgroup with a smaller x failed: the only
\* way the loops skip a cell is the break of the x loop.
SkippedOnlyAfterFailureInRow ==
    LET Passed(c) == \E i \in 1..Len(calls) :
                        DispatchAbs!RowMajorBefore(c, calls[i].wid)
                        \/ pc = "done"
    IN \A c \in Cells(count) :
          (Passed(c) /\ \A i \in 1..Len(calls) : calls[i].wid # c) =>
             \E f \in Failed : f.z = c.z /\ f.y = c.y /\ f.x < c.x


\* Spec section 4.5 and 7: any single invocation failure is fatal to the
\* whole grid traversal, so a dispatch in which a call failed returns an
\* error status.
FailureReported ==
    (pc = "done" /\ Failed # {}) => status = "error"
=============================================================================
