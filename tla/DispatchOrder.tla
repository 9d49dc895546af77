---------------------------- MODULE DispatchOrder ----------------------------
(***************************************************************************)
(* What iree_hal_local_executable_issue_dispatch_inline promises its      *)
(* caller about the calls it issues, independent of how the loops are      *)
(* written: every call is for a cell of the workgroup grid, the cells are  *)
(* issued in strictly increasing row-major (z, y, x) order, so no cell is  *)
(* issued twice, and the dispatch eventually returns.                      *)
(***************************************************************************)
EXTENDS Naturals, Sequences

CONSTANT MaxCount   \* largest workgroup count per dimension

VARIABLES count,    \* the workgroup_count of the dispatch state
          issued,   \* the workgroup ids issued so far, in order
          finished  \* the dispatch has returned

vars == <<count, issued, finished>>

Counts == [x : 0..MaxCount, y : 0..MaxCount, z : 0..MaxCount]

Cells(c) == [x : 0..(c.x - 1), y : 0..(c.y - 1), z : 0..(c.z - 1)]

\* Row-major order: z is the slowest and x the fastest varying coordinate.
RowMajorBefore(a, b) ==
    \/ a.z < b.z
    \/ a.z = b.z /\ a.y < b.y
    \/ a.z = b.z /\ a.y = b.y /\ a.x < b.x

Init ==
    /\ count \in Counts
    /\ issued = <<>>
    /\ finished = FALSE

Issue ==
    /\ ~finished
    /\ \E c \in Cells(count) :
          /\ issued = <<>> \/ RowMajorBefore(issued[Len(issued)], c)
          /\ issued' = Append(issued, c)
    /\ UNCHANGED <<count, finished>>

Finish ==
    /\ ~finished
    /\ finished' = TRUE
    /\ UNCHANGED <<count, issued>>

Next == Issue \/ Finish

Spec == Init /\ [][Next]_vars

FairSpec == Spec /\ WF_vars(Finish)
=============================================================================
