------------------------- MODULE MCPhaseController -------------------------
(***************************************************************************)
(* One or two overlapping polls, two or three rounds of work.              *)
(***************************************************************************)
EXTENDS PhaseController

CONSTANTS m1, m2

MCOneMonitor == {m1}
MCMonitors == {m1, m2}
=============================================================================
