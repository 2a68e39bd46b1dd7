------------------------------- MODULE Mutex -------------------------------
(***************************************************************************)
(* What a caller of withTeamLock, withTaskClaimLock, withMailboxLock,      *)
(* withScalingLock or withDispatchLock wants from it: the bodies passed as *)
(* `fn` never overlap.  DirLock is shown to implement this specification   *)
(* until a directory in use is removed as stale, and for good when callers *)
(* are neither killed nor slower than LOCK_STALE_MS.                       *)
(***************************************************************************)
CONSTANT Procs          \* callers of the lock

VARIABLE inside         \* callers whose fn() is running

Init == inside = {}

Enter(p) == inside = {} /\ inside' = {p}

Leave(p) == p \in inside /\ inside' = inside \ {p}

Next == \E p \in Procs : Enter(p) \/ Leave(p)

Spec == Init /\ [][Next]_inside
=============================================================================
