---------------------------- MODULE MCTaskLedger ----------------------------
(***************************************************************************)
(* A small instance of TaskLedger: two tasks that may depend on each       *)
(* other, two workers.                                                     *)
(***************************************************************************)
EXTENDS TaskLedger, TLC

CONSTANTS t1, t2, w1, w2

MCTasks == {t1, t2}
MCWorkers == {w1, w2}
Alike == Permutations(MCTasks) \cup Permutations(MCWorkers)
=============================================================================
