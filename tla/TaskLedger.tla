----------------------------- MODULE TaskLedger ----------------------------
(***************************************************************************)
(* What the task API of a team promises: every operation takes effect at   *)
(* one instant, on the task as it is at that instant.  The files, locks    *)
(* and separate reads and writes behind it are in TaskBoard, which is      *)
(* shown to implement this specification.                                  *)
(***************************************************************************)
EXTENDS TaskRecords

CONSTANTS
  MaxClaims,  \* bound: tokens issued
  MaxEdits    \* bound: updateTask calls that write

ASSUME LedgerBounds == MaxClaims \in Nat /\ MaxEdits \in Nat

VARIABLES
  task,    \* task id -> record
  lease,   \* task id -> tokens issued for it whose leased_until lies ahead
           \* and whose holder has neither finished nor released
  claims,  \* tokens issued so far (randomUUID never repeats)
  edits    \* updateTask writes so far

ledgerVars == <<task, lease, claims, edits>>

(* leased_until of the claim on t lies in the past.                        *)
Expired(t, v) == v.claim \notin lease[t]

Init ==
  /\ task = [t \in Tasks |-> Absent]
  /\ lease = [t \in Tasks |-> {}]
  /\ claims = 0
  /\ edits = 0

Create(t, owner, deps, code) ==
  /\ ~Exists(task[t])
  /\ task' = [task EXCEPT ![t] = Created(owner, deps, code)]
  /\ UNCHANGED <<lease, claims, edits>>

(* Fault: the readiness check looks at the status only.                    *)
ClaimUnready(t, w) ==
  /\ Claimable(task[t], w, Expired(t, task[t]))
  /\ claims < MaxClaims
  /\ claims' = claims + 1
  /\ task' = [task EXCEPT ![t] = Claimed(task[t], w, claims + 1)]
  /\ lease' = [lease EXCEPT ![t] = @ \cup {claims + 1}]
  /\ UNCHANGED edits

Claim(t, w) ==
  /\ Claimable(task[t], w, Expired(t, task[t]))
  /\ Ready(task, task[t])
  /\ claims < MaxClaims
  /\ claims' = claims + 1
  /\ task' = [task EXCEPT ![t] = Claimed(task[t], w, claims + 1)]
  /\ lease' = [lease EXCEPT ![t] = @ \cup {claims + 1}]
  /\ UNCHANGED edits

(* Ended by the holder of the claim.  The lease was live when the holder   *)
(* asked; it may run out before the answer is on disk.                     *)
Finish(t, to) ==
  /\ CanTransition(task[t].status, to)
  /\ HoldsClaim(task[t], task[t].claim)
  /\ task' = [task EXCEPT ![t] = Finished(task[t], to)]
  /\ lease' = [lease EXCEPT ![t] = @ \ {task[t].claim}]
  /\ UNCHANGED <<claims, edits>>

Release(t) ==
  /\ task[t].status = "in_progress"
  /\ HoldsClaim(task[t], task[t].claim)
  /\ task' = [task EXCEPT ![t] = Freed(task[t])]
  /\ lease' = [lease EXCEPT ![t] = @ \ {task[t].claim}]
  /\ UNCHANGED <<claims, edits>>

(* Fault: the monitor frees whatever is in progress.                       *)
ReclaimAny(t) ==
  /\ task[t].status = "in_progress"
  /\ task' = [task EXCEPT ![t] = Freed(task[t])]
  /\ UNCHANGED <<lease, claims, edits>>

(* Taken back by the monitor from a holder whose lease ran out.            *)
Reclaim(t) ==
  /\ Reclaimable(task[t], Expired(t, task[t]))
  /\ task' = [task EXCEPT ![t] = Freed(task[t])]
  /\ UNCHANGED <<lease, claims, edits>>

(* Fault: updateTask writes the default status back over the stored one.   *)
EditResetsStatus(t, deps, code) ==
  /\ Exists(task[t])
  /\ edits < MaxEdits
  /\ edits' = edits + 1
  /\ task' = [task EXCEPT ![t] =
                [Edited(task[t], deps, code) EXCEPT !.status = "pending"]]
  /\ UNCHANGED <<lease, claims>>

Edit(t, deps, code) ==
  /\ Exists(task[t])
  /\ edits < MaxEdits
  /\ edits' = edits + 1
  /\ task' = [task EXCEPT ![t] = Edited(task[t], deps, code)]
  /\ UNCHANGED <<lease, claims>>

(* The fifteen minutes of a lease pass.                                    *)
Expire(t, token) ==
  /\ token \in lease[t]
  /\ lease' = [lease EXCEPT ![t] = @ \ {token}]
  /\ UNCHANGED <<task, claims, edits>>

Next ==
  \E t \in Tasks :
    \/ \E o \in Workers \cup {NoWorker}, d \in SUBSET Tasks, c \in BOOLEAN :
         Create(t, o, d, c)
    \/ \E w \in Workers : Claim(t, w)
    \/ \E to \in Terminal : Finish(t, to)
    \/ Release(t)
    \/ Reclaim(t)
    \/ \E d \in SUBSET Tasks, c \in BOOLEAN : Edit(t, d, c)
    \/ \E token \in lease[t] : Expire(t, token)

Spec == Init /\ [][Next]_ledgerVars

-----------------------------------------------------------------------------
(* Records are well formed: work in progress has an owner and a token that *)
(* was issued, and nothing else has a claim.                               *)
TypeOK ==
  /\ task \in [Tasks -> TaskRecord]
  /\ lease \in [Tasks -> SUBSET Nat]
  /\ claims \in Nat /\ edits \in Nat
  /\ \A t \in Tasks :
       /\ task[t].claim # NoClaim <=> task[t].status = "in_progress"
       /\ task[t].status = "in_progress" => task[t].owner \in Workers

(* A worker whose lease still runs has the task: nobody took it over,      *)
(* freed it or was handed a second live claim on it (tasks.ts: claim,      *)
(* release, reclaim and transition agree on who may touch a claim).        *)
LeaseHonoured ==
  \A t \in Tasks : lease[t] \subseteq {task[t].claim} \ {NoClaim}

(* A completed or failed task keeps its status and owner for good, and no  *)
(* later call gives it a claim.                                            *)
TerminalForever ==
  [][\A t \in Tasks : task[t].status \in Terminal =>
       /\ task'[t].status = task[t].status
       /\ task'[t].owner = task[t].owner
       /\ task'[t].claim = NoClaim]_ledgerVars

(* Work starts only on a task all of whose dependencies are completed.     *)
StartsReady ==
  [][\A t \in Tasks :
       task'[t].claim # task[t].claim /\ task'[t].claim # NoClaim =>
         \A d \in task[t].deps : task'[d].status = "completed"]_ledgerVars

(* Every change of a task file raises its version by one, so a caller that *)
(* compares versions notices every change.                                 *)
VersionCountsChanges ==
  [][\A t \in Tasks : task'[t] # task[t] =>
       task'[t].version = task[t].version + 1]_ledgerVars
=============================================================================
