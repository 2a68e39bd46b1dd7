-------------------------- MODULE MCWorkflowModes --------------------------
(***************************************************************************)
(* Small instances of WorkflowModes: the two planning modes with the one   *)
(* that overlaps with all, and, for one process, with an executing mode.   *)
(***************************************************************************)
EXTENDS WorkflowModes, TLC

CONSTANTS p1, p2

MCProcs == {p1, p2}
MCOneProc == {p1}
MCDoes == (p1 :> {"start", "update", "cancel"}) @@ (p2 :> {"write", "prompt", "clear"})
MCAll == (p1 :> Ops)
MCModes == {"deep-interview", "ralplan", "ultrawork"}
MCRalph == {"deep-interview", "ralplan", "ralph"}
=============================================================================
