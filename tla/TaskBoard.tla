----------------------------- MODULE TaskBoard -----------------------------
(***************************************************************************)
(* The task API of a team as the code runs it: any number of processes     *)
(* (worker CLI calls, the leader's monitor, the team runtime) call         *)
(* claimTask, transitionTaskStatus, releaseTaskClaim,                      *)
(* reclaimExpiredTaskClaim, updateTask and assignTask on shared files.     *)
(* Each call takes the task's claim lock, reads the task, decides, writes  *)
(* and unlocks, and every one of these is a step that others interleave    *)
(* with and that a crash can follow.                                       *)
(*                                                                         *)
(* The claim lock is DirLock with callers that do not outlive its stale    *)
(* bound; here it is the holder's name, and a killed holder leaves an      *)
(* orphan that is recovered later.  What tasks.ts does after unlocking     *)
(* (the monitor snapshot) is in module CompletionEvents.                   *)
(***************************************************************************)
EXTENDS TaskRecords, FiniteSets

CONSTANTS
  Procs,        \* calls that may be in flight at the same time
  Leader,       \* the one of them that polls (fairness only)
  NoProc,       \* the lock is free
  Orphan,       \* the lock was left by a killed caller
  Approved,     \* tasks with an approval record of status 'approved'
  DepChoices,   \* dependency lists createTask and updateTask are given
  CodeChoices,  \* values of requires_code_change they are given
  PromptBodies, \* no live body outlasts another caller's lock deadline
  MaxClaims, MaxEdits, MaxCrashes   \* bounds

ASSUME BoardAssumption ==
  /\ Leader \in Procs
  /\ NoProc \notin Procs /\ Orphan \notin Procs /\ NoProc # Orphan
  /\ Tasks \subseteq Nat
  /\ DepChoices \subseteq SUBSET Tasks
  /\ CodeChoices \subseteq BOOLEAN
  /\ PromptBodies \in BOOLEAN
  /\ MaxClaims \in Nat /\ MaxEdits \in Nat /\ MaxCrashes \in Nat

VARIABLES
  task, lease, claims, edits,   \* as in TaskLedger
  pc,       \* where each caller is
  call,     \* its arguments and results so far
  seen,     \* the record it read under the lock
  lock,     \* task id -> holder of claims/task-<id>.lock
  events,   \* task id -> task_completed and task_failed events appended
  crashes   \* callers killed so far

ledgerVars == <<task, lease, claims, edits>>
callVars == <<pc, call, seen>>
vars == <<task, lease, claims, edits, pc, call, seen, lock, events, crashes>>

Ledger == INSTANCE TaskLedger

(* With the lock: after mkdir, about to write what was decided, about to   *)
(* append the event, and done with the body.                               *)
InBody == {"locked", "writing", "event", "unlocking"}
PcStates == {"idle", "locking", "dispatching"} \cup InBody
Ops == {"none", "claim", "finish", "release", "reclaim", "edit"}

(* The arguments the interleaving depends on; `ver` is expected_version, a *)
(* set of at most one value.  What a call wants written (the new status,   *)
(* the edited fields) is chosen when it is written.                        *)
NoCall == [op |-> "none", task |-> 0, worker |-> NoWorker, token |-> NoClaim,
           ver |-> {}, assign |-> FALSE]

Expired(t, v) == v.claim \notin lease[t]

(* The call returns or throws.                                             *)
Return(p) ==
  /\ pc' = [pc EXCEPT ![p] = "idle"]
  /\ call' = [call EXCEPT ![p] = NoCall]
  /\ seen' = [seen EXCEPT ![p] = Absent]

Start(p, c) ==
  /\ pc[p] = "idle"
  /\ pc' = [pc EXCEPT ![p] = "locking"]
  /\ call' = [call EXCEPT ![p] = c]
  /\ UNCHANGED <<task, lease, claims, edits, seen, lock, events, crashes>>

-----------------------------------------------------------------------------
Init ==
  /\ Ledger!Init
  /\ pc = [p \in Procs |-> "idle"]
  /\ call = [p \in Procs |-> NoCall]
  /\ seen = [p \in Procs |-> Absent]
  /\ lock = [t \in Tasks |-> NoProc]
  /\ events = [t \in Tasks |-> 0]
  /\ crashes = 0

(* createTask: the next id, under the team lock.                           *)
CreateTask(t) ==
  /\ \A u \in Tasks : (u < t) <=> Exists(task[u])
  /\ \E o \in Workers \cup {NoWorker}, d \in DepChoices, c \in CodeChoices :
       task' = [task EXCEPT ![t] = Created(o, d, c)]
  /\ UNCHANGED <<lease, claims, edits, callVars, lock, events, crashes>>

(* claimTask up to the lock; expected_version is optional and is the       *)
(* version the caller read.                                                *)
StartClaim(p, t, w) ==
  /\ Exists(task[t])
  /\ Ready(task, task[t])
  /\ \E ver \in {{}, {task[t].version}} :
       Start(p, [NoCall EXCEPT !.op = "claim", !.task = t, !.worker = w,
                               !.ver = ver])

(* assignTask reads the task, passes the plan-approval gate on what it     *)
(* read, and claims for the worker at the version it read.                 *)
StartAssign(p, t, w) ==
  /\ Exists(task[t])
  /\ task[t].code => t \in Approved
  /\ Ready(task, task[t])
  /\ Start(p, [NoCall EXCEPT !.op = "claim", !.task = t, !.worker = w,
                             !.ver = {task[t].version}, !.assign = TRUE])

(* Tokens are on disk for anyone to read, so any issued one may be used.   *)
StartFinish(p, t, token) ==
  Start(p, [NoCall EXCEPT !.op = "finish", !.task = t, !.token = token])

StartRelease(p, t, token) ==
  Start(p, [NoCall EXCEPT !.op = "release", !.task = t, !.token = token])

(* Fault: the monitor looks for leases that still run.                     *)
StartReclaimLive(p, t) ==
  /\ task[t].status = "in_progress"
  /\ task[t].claim # NoClaim
  /\ ~Expired(t, task[t])
  /\ Start(p, [NoCall EXCEPT !.op = "reclaim", !.task = t])

(* monitorTeam calls reclaimExpiredTaskClaim for the expired claims it     *)
(* finds in its listing.                                                   *)
StartReclaim(p, t) ==
  /\ Reclaimable(task[t], Expired(t, task[t]))
  /\ Start(p, [NoCall EXCEPT !.op = "reclaim", !.task = t])

StartEdit(p, t) == Start(p, [NoCall EXCEPT !.op = "edit", !.task = t])

-----------------------------------------------------------------------------
(* Fault: mkdir does not fail when the lock directory exists.              *)
AcquireAnyway(p) ==
  /\ pc[p] = "locking"
  /\ lock' = [lock EXCEPT ![call[p].task] = p]
  /\ pc' = [pc EXCEPT ![p] = "locked"]
  /\ UNCHANGED <<task, lease, claims, edits, call, seen, events, crashes>>

Acquire(p) ==
  /\ pc[p] = "locking"
  /\ lock[call[p].task] = NoProc
  /\ lock' = [lock EXCEPT ![call[p].task] = p]
  /\ pc' = [pc EXCEPT ![p] = "locked"]
  /\ UNCHANGED <<task, lease, claims, edits, call, seen, events, crashes>>

(* The five seconds are over: claim_conflict, or updateTask throws, which  *)
(* inside assignTask leads to the rollback of its claim.                   *)
GiveUp(p) ==
  /\ pc[p] = "locking"
  /\ lock[call[p].task] # NoProc
  /\ PromptBodies => lock[call[p].task] = Orphan
  /\ IF call[p].assign /\ call[p].op = "edit"
       THEN /\ call' = [call EXCEPT ![p].op = "release"]
            /\ UNCHANGED <<pc, seen>>
       ELSE Return(p)
  /\ UNCHANGED <<task, lease, claims, edits, lock, events, crashes>>

(* Fault: the expected version is ignored.                                 *)
VersionUnchecked(c, v) == TRUE

VersionMatches(c, v) == c.ver \subseteq {v.version}

(* What the body tests after re-reading the task under the lock.           *)
Passes(p) ==
  LET c == call[p]
      v == task[c.task]
      expired == Expired(c.task, v)
  IN  \/ /\ c.op = "claim"
         /\ Exists(v) /\ VersionMatches(c, v) /\ Ready(task, v)
         /\ Claimable(v, c.worker, expired)
      \/ /\ c.op = "finish"
         /\ \E to \in Terminal : Finishable(v, to, c.token, expired)
      \/ c.op = "release" /\ Releasable(v, c.token, expired)
      \/ c.op = "reclaim" /\ Reclaimable(v, expired)
      \/ c.op = "edit" /\ Exists(v)

Accept(p) ==
  /\ pc[p] = "locked"
  /\ Passes(p)
  /\ seen' = [seen EXCEPT ![p] = task[call[p].task]]
  /\ pc' = [pc EXCEPT ![p] = "writing"]
  /\ UNCHANGED <<task, lease, claims, edits, call, lock, events, crashes>>

(* Fault: an error return that skips the release of the lock.              *)
RejectKeepsLock(p) ==
  /\ pc[p] = "locked"
  /\ ~Passes(p)
  /\ Return(p)
  /\ UNCHANGED <<task, lease, claims, edits, lock, events, crashes>>

(* Fault: the event is appended for a transition that was rejected.        *)
RejectEmits(p) ==
  /\ pc[p] = "locked"
  /\ ~Passes(p) \/ call[p].op = "finish"
  /\ pc' = [pc EXCEPT ![p] = IF call[p].op = "finish" THEN "event"
                                                      ELSE "unlocking"]
  /\ UNCHANGED <<task, lease, claims, edits, call, seen, lock, events, crashes>>

(* Error results, releases and reclaims with nothing to do, and a          *)
(* completion without the evidence its task asks for.                      *)
Reject(p) ==
  /\ pc[p] = "locked"
  /\ ~Passes(p) \/ call[p].op = "finish"
  /\ pc' = [pc EXCEPT ![p] = "unlocking"]
  /\ UNCHANGED <<task, lease, claims, edits, call, seen, lock, events, crashes>>

(* writeAtomic of the record that was read, changed as decided.            *)
WriteRecord(p, v) ==
  /\ pc[p] = "writing"
  /\ task' = [task EXCEPT ![call[p].task] = v]
  /\ seen' = [seen EXCEPT ![p] = Absent]
  /\ UNCHANGED <<lock, events, crashes>>

WriteClaim(p) ==
  /\ call[p].op = "claim"
  /\ claims < MaxClaims
  /\ WriteRecord(p, Claimed(seen[p], call[p].worker, claims + 1))
  /\ claims' = claims + 1
  /\ lease' = [lease EXCEPT ![call[p].task] = @ \cup {claims + 1}]
  /\ call' = [call EXCEPT ![p].token = claims + 1]
  /\ pc' = [pc EXCEPT ![p] = "unlocking"]
  /\ UNCHANGED edits

WriteFinish(p) ==
  /\ call[p].op = "finish"
  /\ \E to \in Terminal : WriteRecord(p, Finished(seen[p], to))
  /\ lease' = [lease EXCEPT ![call[p].task] = @ \ {call[p].token}]
  /\ pc' = [pc EXCEPT ![p] = "event"]
  /\ UNCHANGED <<claims, edits, call>>

WriteRelease(p) ==
  /\ call[p].op = "release"
  /\ WriteRecord(p, Freed(seen[p]))
  /\ lease' = [lease EXCEPT ![call[p].task] = @ \ {call[p].token}]
  /\ pc' = [pc EXCEPT ![p] = "unlocking"]
  /\ UNCHANGED <<claims, edits, call>>

WriteReclaim(p) ==
  /\ call[p].op = "reclaim"
  /\ WriteRecord(p, Freed(seen[p]))
  /\ pc' = [pc EXCEPT ![p] = "unlocking"]
  /\ UNCHANGED <<lease, claims, edits, call>>

(* updateTask keeps the fields it is not given; assignTask passes neither  *)
(* dependencies nor requires_code_change.                                  *)
WriteEdit(p) ==
  /\ call[p].op = "edit"
  /\ edits < MaxEdits
  /\ \E d \in {seen[p].deps} \cup DepChoices, c \in {seen[p].code} \cup CodeChoices :
       /\ call[p].assign => d = seen[p].deps /\ c = seen[p].code
       /\ WriteRecord(p, Edited(seen[p], d, c))
  /\ edits' = edits + 1
  /\ pc' = [pc EXCEPT ![p] = "unlocking"]
  /\ UNCHANGED <<lease, claims, call>>

(* Bounds: the tokens or edits are used up, and the call changes nothing.  *)
OutOfBounds(p) ==
  /\ pc[p] = "writing"
  /\ \/ call[p].op = "claim" /\ claims >= MaxClaims
     \/ call[p].op = "edit" /\ edits >= MaxEdits
  /\ pc' = [pc EXCEPT ![p] = "unlocking"]
  /\ seen' = [seen EXCEPT ![p] = Absent]
  /\ UNCHANGED <<task, lease, claims, edits, call, lock, events, crashes>>

AppendEvent(p) ==
  /\ pc[p] = "event"
  /\ events' = [events EXCEPT ![call[p].task] = @ + 1]
  /\ pc' = [pc EXCEPT ![p] = "unlocking"]
  /\ UNCHANGED <<task, lease, claims, edits, call, seen, lock, crashes>>

(* An assignment that has its claim goes on to dispatch; any other call    *)
(* returns.                                                                *)
Unlock(p) ==
  /\ pc[p] = "unlocking"
  /\ lock' = [lock EXCEPT ![call[p].task] = NoProc]
  /\ IF /\ call[p].assign /\ call[p].token # NoClaim
        /\ call[p].op \in {"claim", "edit"}
       THEN /\ pc' = [pc EXCEPT ![p] = "dispatching"]
            /\ UNCHANGED <<call, seen>>
       ELSE Return(p)
  /\ UNCHANGED <<task, lease, claims, edits, events, crashes>>

-----------------------------------------------------------------------------
(* assignTask records the delegation plan on the task it claimed ...       *)
AssignEdit(p) ==
  /\ pc[p] = "dispatching"
  /\ call[p].op = "claim"
  /\ call' = [call EXCEPT ![p].op = "edit"]
  /\ pc' = [pc EXCEPT ![p] = "locking"]
  /\ UNCHANGED <<task, lease, claims, edits, seen, lock, events, crashes>>

(* ... and the worker is told of it ...                                    *)
DispatchOk(p) ==
  /\ pc[p] = "dispatching"
  /\ Return(p)
  /\ UNCHANGED <<task, lease, claims, edits, lock, events, crashes>>

(* ... or both attempts fail and the claim is rolled back.                 *)
DispatchFails(p) ==
  /\ pc[p] = "dispatching"
  /\ call' = [call EXCEPT ![p].op = "release"]
  /\ pc' = [pc EXCEPT ![p] = "locking"]
  /\ UNCHANGED <<task, lease, claims, edits, seen, lock, events, crashes>>

-----------------------------------------------------------------------------
(* The process is killed between two steps.                                *)
Crash(p) ==
  /\ pc[p] # "idle"
  /\ crashes < MaxCrashes
  /\ crashes' = crashes + 1
  /\ lock' = [t \in Tasks |-> IF lock[t] = p THEN Orphan ELSE lock[t]]
  /\ Return(p)
  /\ UNCHANGED <<task, lease, claims, edits, events>>

(* A later caller removes the stale lock directory (DirLock).              *)
RecoverLock(t) ==
  /\ lock[t] = Orphan
  /\ lock' = [lock EXCEPT ![t] = NoProc]
  /\ UNCHANGED <<task, lease, claims, edits, callVars, events, crashes>>

(* Fifteen minutes pass without the claim being finished or released.      *)
Expire(t) ==
  /\ \E token \in lease[t] : lease' = [lease EXCEPT ![t] = @ \ {token}]
  /\ UNCHANGED <<task, claims, edits, callVars, lock, events, crashes>>

Begin(p) ==
  \E t \in Tasks :
    \/ \E w \in Workers : StartClaim(p, t, w) \/ StartAssign(p, t, w)
    \/ \E token \in 1..claims :
         StartFinish(p, t, token) \/ StartRelease(p, t, token)
    \/ StartReclaim(p, t)
    \/ StartEdit(p, t)

(* The steps of a body, from the read to the unlock, and of the dispatch   *)
(* that follows an assignment.                                             *)
Body(p) ==
  \/ Accept(p) \/ Reject(p)
  \/ WriteClaim(p) \/ WriteFinish(p) \/ WriteRelease(p) \/ WriteReclaim(p)
  \/ WriteEdit(p) \/ OutOfBounds(p)
  \/ AppendEvent(p) \/ Unlock(p)

Dispatch(p) == AssignEdit(p) \/ DispatchOk(p) \/ DispatchFails(p)

Step(p) ==
  \/ Begin(p) \/ Acquire(p) \/ GiveUp(p) \/ Body(p) \/ Dispatch(p) \/ Crash(p)

World(t) == CreateTask(t) \/ RecoverLock(t) \/ Expire(t)

Next == (\E p \in Procs : Step(p)) \/ (\E t \in Tasks : World(t))

Spec == Init /\ [][Next]_vars

(***************************************************************************)
(* A body runs to its end; time passes for leases and orphaned locks; the  *)
(* leader polls for ever, so a task it keeps finding expired is tried, and *)
(* a lock that keeps becoming free is obtained by its 25 ms retries.       *)
(***************************************************************************)
Fairness ==
  /\ \A p \in Procs : WF_vars(Body(p)) /\ WF_vars(Dispatch(p))
  /\ \A t \in Tasks : WF_vars(Expire(t)) /\ WF_vars(RecoverLock(t))
  /\ SF_vars(Acquire(Leader))
  /\ \A t \in Tasks : SF_vars(StartReclaim(Leader, t))

FairSpec == Spec /\ Fairness

-----------------------------------------------------------------------------
Call == [op: Ops, task: Tasks \cup {0}, worker: Workers \cup {NoWorker},
         token: Nat, ver: SUBSET Nat, assign: BOOLEAN]

(* Types, and the lock discipline: a caller inside a body is the one named *)
(* by the lock of the task it works on, and a lock names nobody else.      *)
TypeOK ==
  /\ pc \in [Procs -> PcStates]
  /\ call \in [Procs -> Call]
  /\ seen \in [Procs -> TaskRecord]
  /\ lock \in [Tasks -> Procs \cup {NoProc, Orphan}]
  /\ events \in [Tasks -> Nat]
  /\ crashes \in Nat
  /\ \A p \in Procs : pc[p] # "idle" => call[p].task \in Tasks
  /\ \A p \in Procs, t \in Tasks :
       (lock[t] = p) <=> (pc[p] \in InBody /\ call[p].task = t)

(* Every call takes effect at one instant, on the task as it then is: no   *)
(* write is based on a record that changed after it was read.              *)
ImplementsLedger == Ledger!Spec

(* A task has at most one terminal event, never before the task file says  *)
(* so, and lacks it only while the caller is about to append it or after a *)
(* caller was killed.                                                      *)
TerminalEventMatches ==
  \A t \in Tasks :
    /\ events[t] <= 1
    /\ events[t] = 1 => task[t].status \in Terminal
    /\ (task[t].status \in Terminal /\ events[t] = 0) =>
         (crashes > 0 \/ \E p \in Procs : (pc[p] = "event" /\ call[p].task = t))

(* The plan-approval gate of assignTask holds at the claim although it was *)
(* evaluated on a record read before the lock: code work is never assigned *)
(* without an approval, whatever updateTask did in between.                *)
AssignedWorkApproved ==
  [][\A p \in Procs :
       (/\ call[p].assign /\ pc[p] = "writing" /\ call[p].op = "claim"
        /\ call'[p].token # NoClaim
        /\ task[call[p].task].code)
       => call[p].task \in Approved]_vars

(* No claim lasts for ever: whoever crashed or forgot, it is finished,     *)
(* released, or taken back after its lease.                                *)
ClaimsEnd ==
  \A t \in Tasks, token \in 1..MaxClaims :
    task[t].claim = token ~> task[t].claim # token
=============================================================================
