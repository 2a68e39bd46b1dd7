------------------------------ MODULE DirLock ------------------------------
(***************************************************************************)
(* The directory lock of src/team/state/locks.ts and dispatch-lock.ts.     *)
(*                                                                         *)
(* A lock is a directory: mkdir is the atomic test-and-set, the file       *)
(* `owner` inside it says whose it is, and a directory whose mtime is      *)
(* older than LOCK_STALE_MS (five minutes) is removed by whoever meets it. *)
(* Every file-system call is a step of its own, so the model has the       *)
(* windows the code has: between mkdir and the owner file, between reading *)
(* the owner and removing the directory, and between stat and rm.          *)
(*                                                                         *)
(* All steps act on the PATH of the lock: a late rm removes the directory  *)
(* that is there at that moment, whoever made it.                          *)
(***************************************************************************)
CONSTANTS
  Procs,      \* callers; each makes any number of attempts, one at a time
  NoProc,     \* no directory, or no owner file in it
  Dead,       \* maker or owner that no longer runs (killed, or gave up)
  Crashable,  \* callers that may be killed at any step
  Slow        \* callers that may hold the lock longer than LOCK_STALE_MS

ASSUME ProcsAssumption ==
  /\ NoProc \notin Procs
  /\ Dead \notin Procs
  /\ Dead # NoProc
  /\ Crashable \subseteq Procs
  /\ Slow \subseteq Procs

VARIABLES
  pc,        \* where each caller is
  dir,       \* the caller whose mkdir made the directory now at the path
  owner,     \* whose token the file `owner` in it holds
  stale,     \* its mtime is more than LOCK_STALE_MS ago
  misremoved \* history: some rm took a directory from a caller still using it

vars == <<pc, dir, owner, stale, misremoved>>

(***************************************************************************)
(* A caller that ends leaves `fn` or throws; "idle" is any time outside    *)
(* the lock function.  "recovering" has seen a stale mtime and will rm;    *)
(* "aborting" failed to write the owner file and will rm; "releasing" has  *)
(* read its own token back and will rm.                                    *)
(***************************************************************************)
Holding == {"claiming", "critical", "releasing", "aborting"}
PcStates == {"idle", "trying", "recovering"} \cup Holding

Goto(p, from, to) == pc[p] = from /\ pc' = [pc EXCEPT ![p] = to]

(* Fault: the directory goes but its owner file is remembered.             *)
RemoveDirKeepsOwner(p) ==
  /\ dir' = NoProc
  /\ stale' = FALSE
  /\ misremoved' = (misremoved \/ dir \in Procs \ {p})
  /\ UNCHANGED owner

(* rm(lockDir, {recursive: true, force: true}) by p.                       *)
RemoveDir(p) ==
  /\ dir' = NoProc
  /\ owner' = NoProc
  /\ stale' = FALSE
  /\ misremoved' = (misremoved \/ dir \in Procs \ {p})

-----------------------------------------------------------------------------
Init ==
  /\ pc = [p \in Procs |-> "idle"]
  /\ dir = NoProc
  /\ owner = NoProc
  /\ stale = FALSE
  /\ misremoved = FALSE

Begin(p) ==
  /\ Goto(p, "idle", "trying")
  /\ UNCHANGED <<dir, owner, stale, misremoved>>

(* Fault: mkdir with recursive: true, which does not fail with EEXIST.     *)
MkdirRecursive(p) ==
  /\ Goto(p, "trying", "claiming")
  /\ dir' = p
  /\ owner' = NoProc
  /\ stale' = FALSE
  /\ UNCHANGED misremoved

(* mkdir(lockDir) succeeds only when nothing is at the path.               *)
Mkdir(p) ==
  /\ Goto(p, "trying", "claiming")
  /\ dir = NoProc
  /\ dir' = p
  /\ owner' = NoProc
  /\ stale' = FALSE
  /\ UNCHANGED misremoved

(* Fault: only a directory without an owner file counts as abandoned.      *)
StatStaleUnowned(p) ==
  /\ Goto(p, "trying", "recovering")
  /\ dir # NoProc
  /\ stale
  /\ owner = NoProc
  /\ UNCHANGED <<dir, owner, stale, misremoved>>

(* EEXIST: stat says the directory is old; the rm is a later step.         *)
StatStale(p) ==
  /\ Goto(p, "trying", "recovering")
  /\ dir # NoProc
  /\ stale
  /\ UNCHANGED <<dir, owner, stale, misremoved>>

(* Fault: after the rm the caller goes on as if its mkdir had succeeded.   *)
RecoverThenClaim(p) ==
  /\ Goto(p, "recovering", "claiming")
  /\ RemoveDir(p)

RecoverRemove(p) ==
  /\ Goto(p, "recovering", "trying")
  /\ RemoveDir(p)

(* Fault: a caller that times out cleans up a directory it never made.     *)
TimeoutRemoves(p) ==
  /\ Goto(p, "trying", "idle")
  /\ dir # NoProc
  /\ RemoveDir(p)

(* EEXIST, not stale, and the deadline has passed: throw, or { ok: false }. *)
Timeout(p) ==
  /\ Goto(p, "trying", "idle")
  /\ dir # NoProc
  /\ ~stale
  /\ UNCHANGED <<dir, owner, stale, misremoved>>

(* The first file written into a directory refreshes its mtime; writing    *)
(* over an owner file that is there does not.                              *)
WriteOwner(p) ==
  /\ Goto(p, "claiming", "critical")
  /\ dir # NoProc
  /\ owner' = p
  /\ stale' = (stale /\ owner # NoProc)
  /\ UNCHANGED <<dir, misremoved>>

(* ENOENT because the directory is gone, or any other write error.         *)
WriteOwnerFails(p) ==
  /\ Goto(p, "claiming", "aborting")
  /\ UNCHANGED <<dir, owner, stale, misremoved>>

AbortRemove(p) ==
  /\ Goto(p, "aborting", "idle")
  /\ RemoveDir(p)

(* finally: the owner file holds this caller's token ...                   *)
ReadOwnOwner(p) ==
  /\ Goto(p, "critical", "releasing")
  /\ owner = p
  /\ UNCHANGED <<dir, owner, stale, misremoved>>

(* ... or it does not (another token, or no file): leave the path alone.   *)
ReadOtherOwner(p) ==
  /\ Goto(p, "critical", "idle")
  /\ owner # p
  /\ dir' = IF dir = p THEN Dead ELSE dir
  /\ UNCHANGED <<owner, stale, misremoved>>

Release(p) ==
  /\ Goto(p, "releasing", "idle")
  /\ RemoveDir(p)

-----------------------------------------------------------------------------
(* The process is killed: what it made stays, with nobody to remove it.    *)
Crash(p) ==
  /\ p \in Crashable
  /\ pc[p] # "idle"
  /\ pc' = [pc EXCEPT ![p] = "idle"]
  /\ dir' = IF dir = p THEN Dead ELSE dir
  /\ owner' = IF owner = p THEN Dead ELSE owner
  /\ UNCHANGED <<stale, misremoved>>

(* Five minutes pass.  A live caller's directory gets that old only if the *)
(* caller is one that may be that slow (or is suspended that long).        *)
Age ==
  /\ dir \in Slow \cup {Dead}
  /\ ~stale
  /\ stale' = TRUE
  /\ UNCHANGED <<pc, dir, owner, misremoved>>

Step(p) ==
  \/ Begin(p) \/ Mkdir(p) \/ StatStale(p) \/ RecoverRemove(p) \/ Timeout(p)
  \/ WriteOwner(p) \/ WriteOwnerFails(p) \/ AbortRemove(p)
  \/ ReadOwnOwner(p) \/ ReadOtherOwner(p) \/ Release(p) \/ Crash(p)

Next == Age \/ \E p \in Procs : Step(p)

Spec == Init /\ [][Next]_vars

(***************************************************************************)
(* Time passes, callers that are not killed run on, and somebody keeps     *)
(* calling the operation the lock guards (the team's leader polls).        *)
(***************************************************************************)
Progress(p) ==
  \/ Begin(p) \/ Mkdir(p) \/ StatStale(p) \/ RecoverRemove(p)
  \/ WriteOwner(p) \/ AbortRemove(p) \/ ReadOwnOwner(p) \/ ReadOtherOwner(p)
  \/ Release(p)

Fairness ==
  /\ WF_vars(Age)
  /\ \A p \in Procs : WF_vars(Progress(p))

FairSpec == Spec /\ Fairness

-----------------------------------------------------------------------------
(* Where each caller is, who made the directory and whose token it holds;  *)
(* a removed directory leaves neither an owner file nor an age behind.     *)
TypeOK ==
  /\ pc \in [Procs -> PcStates]
  /\ dir \in Procs \cup {NoProc, Dead}
  /\ owner \in Procs \cup {NoProc, Dead}
  /\ stale \in BOOLEAN
  /\ misremoved \in BOOLEAN
  /\ dir = NoProc => owner = NoProc /\ ~stale

InCritical == {p \in Procs : pc[p] = "critical"}

(* Two bodies never run under one lock: "File-based scaling lock prevents  *)
(* concurrent scale operations" (scaling.ts), and every read-modify-write  *)
(* of a task, mailbox, dispatch or config file relies on it.               *)
MutualExclusion ==
  \A p, q \in Procs : pc[p] = "critical" /\ pc[q] = "critical" => p = q

(* Whatever crashes and however slow the holders are, two bodies overlap   *)
(* only after some rm took the directory from a caller that was using it.  *)
ExclusionUnlessMisremoved == ~misremoved => MutualExclusion

(* The first such rm is always the recovery of a stale directory: the rm   *)
(* of a release or of a failed owner write never starts the trouble.       *)
OnlyRecoveryMisremoves ==
  [][misremoved' # misremoved =>
       \E p \in Procs : pc[p] = "recovering" /\ pc'[p] = "trying"]_vars

(* A directory whose maker was killed never blocks the lock for good.      *)
OrphanRecovered == dir = Dead ~> dir # Dead

Abstract == INSTANCE Mutex WITH inside <- InCritical

(* With no stale directory the lock is the mutex its callers expect ...     *)
ImplementsMutex == Abstract!Spec

(* ... and whatever crashes and however slow the holders are, it is that   *)
(* mutex, step by step, until some rm takes a directory that is in use.    *)
MutexUntilMisremoved ==
  Abstract!Init /\ [][Abstract!Next \/ misremoved']_InCritical
=============================================================================
