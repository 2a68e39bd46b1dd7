---------------------------- MODULE MCTaskBoard ----------------------------
(***************************************************************************)
(* A small instance of TaskBoard: two calls in flight on one task, one     *)
(* kill at any step, two claims and one edit.                              *)
(***************************************************************************)
EXTENDS TaskBoard

CONSTANTS p1, p2, w1

MCProcs == {p1, p2}
MCTasks == {1}
MCWorkers == {w1}
MCDeps == {{}, {1}}   \* {1}: a task that waits for itself is never ready
MCApproved == {}
=============================================================================
