------------------------- MODULE MCCompletionEvents -------------------------
(***************************************************************************)
(* Two tasks, two transition calls and two monitor polls in flight.        *)
(***************************************************************************)
EXTENDS CompletionEvents

CONSTANTS t1, t2, c1, c2, m1, m2

MCTasks == {t1, t2}
MCCallers == {c1, c2}
MCMonitors == {m1}
MCTwoMonitors == {m1, m2}
=============================================================================
