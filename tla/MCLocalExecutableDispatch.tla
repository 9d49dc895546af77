--------------------- MODULE MCLocalExecutableDispatch ----------------------
(* Model of iree_hal_local_executable_issue_dispatch_inline for TLC: grids  *)
(* of up to 2 workgroups per dimension (so a failure can fall in the       *)
(* middle of a row, of a plane, and of the whole grid), and a call bound   *)
(* of one per cell of the largest grid.                                    *)
EXTENDS LocalExecutableDispatch

MCMaxCount == 2
MCMaxCalls == MCMaxCount * MCMaxCount * MCMaxCount
=============================================================================
