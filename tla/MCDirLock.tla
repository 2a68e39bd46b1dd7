----------------------------- MODULE MCDirLock -----------------------------
(***************************************************************************)
(* Small instances of DirLock: three callers, one of which may be killed   *)
(* at any step and another of which may hold the lock past LOCK_STALE_MS.  *)
(***************************************************************************)
EXTENDS DirLock

CONSTANTS p1, p2, p3

MCProcs == {p1, p2, p3}
MCNone == {}
MCOne == {p1}      \* the caller that may be killed
MCSlow == {p2}     \* the caller that may outlive LOCK_STALE_MS
=============================================================================
