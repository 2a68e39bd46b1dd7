-------------------------- MODULE TaskLedgerProofs --------------------------
(***************************************************************************)
(* The promises of the task API, for any number of tasks, workers, claims  *)
(* and edits.  The inductive invariant adds to the type invariant and to   *)
(* LeaseHonoured that a task that was never created has version 0, which   *)
(* the counting of versions rests on.                                      *)
(***************************************************************************)
EXTENDS TaskLedger, TLAPS

AbsentUntouched == \A t \in Tasks : ~Exists(task[t]) => task[t].version = 0

IInv == TypeOK /\ LeaseHonoured /\ AbsentUntouched

(* The initial, empty ledger satisfies the invariant.                      *)
LEMMA InitInv == Init => IInv
  BY NoWorkerAssumption DEF Init, IInv, TypeOK, LeaseHonoured, AbsentUntouched,
     Absent, Exists, TaskRecord, Statuses, NoClaim

(* Claiming keeps the invariant: whoever had the task has no live lease.   *)
LEMMA ClaimInv ==
  ASSUME IInv, NEW t \in Tasks, NEW w \in Workers, Claim(t, w)
  PROVE  IInv'
<1> USE DEF IInv
<1>1. claims + 1 \in Nat /\ claims + 1 # NoClaim
  BY DEF TypeOK, NoClaim
<1>2. task[t] \in TaskRecord /\ lease[t] \in SUBSET Nat
  BY DEF TypeOK
<1>v. task[t].version + 1 \in Nat
  BY <1>2 DEF TaskRecord
<1>3. Claimed(task[t], w, claims + 1) \in TaskRecord
  BY <1>1, <1>2, <1>v DEF Claimed, TaskRecord, Statuses
<1>4. TypeOK'
  BY <1>1, <1>2, <1>3 DEF TypeOK, Claim, Claimed, TaskRecord
<1>5. lease[t] = {}
  BY <1>2 DEF TypeOK, LeaseHonoured, Claim, Claimable, Expired
<1>6. LeaseHonoured'
  BY <1>1, <1>2, <1>5 DEF TypeOK, LeaseHonoured, Claim, Claimed, TaskRecord
<1>7. AbsentUntouched'
  BY <1>2 DEF AbsentUntouched, TypeOK, Claim, Claimed, Exists, TaskRecord
<1> QED BY <1>4, <1>6, <1>7

(* Finishing keeps the invariant.                                          *)
LEMMA FinishInv ==
  ASSUME IInv, NEW t \in Tasks, NEW to \in Terminal, Finish(t, to)
  PROVE  IInv'
<1> USE DEF IInv
<1>1. task[t] \in TaskRecord /\ lease[t] \in SUBSET Nat
  BY DEF TypeOK
<1>v. task[t].version + 1 \in Nat
  BY <1>1 DEF TaskRecord
<1>2. Finished(task[t], to) \in TaskRecord
  BY <1>1, <1>v DEF Finished, TaskRecord, Statuses, Terminal, NoClaim
<1>3. TypeOK'
  BY <1>1, <1>2 DEF TypeOK, Finish, Finished, TaskRecord, Terminal
<1>4. LeaseHonoured'
  BY <1>1 DEF TypeOK, LeaseHonoured, Finish, Finished, TaskRecord
<1>5. AbsentUntouched'
  BY <1>1 DEF AbsentUntouched, TypeOK, Finish, Finished, Exists, TaskRecord,
     Terminal
<1> QED BY <1>3, <1>4, <1>5

(* So do a release by the holder and a reclaim after the lease.            *)
LEMMA FreeInv ==
  ASSUME IInv, NEW t \in Tasks, Release(t) \/ Reclaim(t)
  PROVE  IInv'
<1> USE DEF IInv
<1>1. task[t] \in TaskRecord /\ lease[t] \in SUBSET Nat
  BY DEF TypeOK
<1>v. task[t].version + 1 \in Nat
  BY <1>1 DEF TaskRecord
<1>2. Freed(task[t]) \in TaskRecord
  BY <1>1, <1>v DEF Freed, TaskRecord, Statuses, NoClaim
<1>3. task' = [task EXCEPT ![t] = Freed(task[t])]
  BY DEF Release, Reclaim
<1>4. TypeOK'
  BY <1>1, <1>2, <1>3 DEF TypeOK, Release, Reclaim, Freed, TaskRecord
<1>5. LeaseHonoured'
  BY <1>1, <1>3 DEF TypeOK, LeaseHonoured, Release, Reclaim, Reclaimable,
     Expired, Freed, TaskRecord
<1>6. AbsentUntouched'
  BY <1>1, <1>3 DEF AbsentUntouched, TypeOK, Freed, Exists, TaskRecord
<1> QED BY <1>4, <1>5, <1>6

(* The remaining operations never touch a claim.                           *)
LEMMA OtherInv ==
  ASSUME IInv, NEW t \in Tasks,
         \/ \E o \in Workers \cup {NoWorker}, d \in SUBSET Tasks, c \in BOOLEAN :
              Create(t, o, d, c)
         \/ \E d \in SUBSET Tasks, c \in BOOLEAN : Edit(t, d, c)
         \/ \E token \in lease[t] : Expire(t, token)
  PROVE  IInv'
<1> USE DEF IInv
<1>1. task[t] \in TaskRecord /\ lease[t] \in SUBSET Nat
  BY DEF TypeOK
<1>2. ASSUME NEW o \in Workers \cup {NoWorker}, NEW d \in SUBSET Tasks,
             NEW c \in BOOLEAN, Create(t, o, d, c)
      PROVE  IInv'
  <2>1. Created(o, d, c) \in TaskRecord
    BY DEF Created, TaskRecord, Statuses, NoClaim
  <2>2. TypeOK'
    BY <1>1, <1>2, <2>1 DEF TypeOK, Create, Created, TaskRecord
  <2>3. task[t].claim = NoClaim
    BY <1>2 DEF TypeOK, Create, Exists
  <2>4. LeaseHonoured'
    BY <1>1, <1>2, <2>3 DEF TypeOK, LeaseHonoured, Create, Created, TaskRecord
  <2>5. AbsentUntouched'
    BY <1>1, <1>2 DEF AbsentUntouched, TypeOK, Create, Created, Exists,
       TaskRecord
  <2> QED BY <2>2, <2>4, <2>5
<1>3. ASSUME NEW d \in SUBSET Tasks, NEW c \in BOOLEAN, Edit(t, d, c)
      PROVE  IInv'
  <2> DEFINE e == Edited(task[t], d, c)
  <2>v. task[t].version + 1 \in Nat
    BY <1>1 DEF TaskRecord
  <2>1. e \in TaskRecord
    BY <1>1, <2>v DEF Edited, TaskRecord
  <2>a. /\ e.status = task[t].status
        /\ e.owner = task[t].owner
        /\ e.claim = task[t].claim
    BY <1>1 DEF Edited, TaskRecord
  <2>b. /\ task' = [task EXCEPT ![t] = e]
        /\ edits' = edits + 1
        /\ UNCHANGED <<lease, claims>>
    BY <1>3 DEF Edit
  <2> HIDE DEF e
  <2>2. TypeOK'
    BY <2>1, <2>a, <2>b DEF TypeOK
  <2> USE DEF e
  <2>3. LeaseHonoured'
    BY <1>1, <1>3 DEF TypeOK, LeaseHonoured, Edit, Edited, TaskRecord
  <2>4. AbsentUntouched'
    BY <1>1, <1>3 DEF AbsentUntouched, TypeOK, Edit, Edited, Exists, TaskRecord
  <2> QED BY <2>2, <2>3, <2>4
<1>4. ASSUME NEW token \in lease[t], Expire(t, token)
      PROVE  IInv'
  BY <1>1, <1>4 DEF TypeOK, LeaseHonoured, AbsentUntouched, Expire
<1> QED BY <1>2, <1>3, <1>4

(* Every step keeps the invariant.                                         *)
LEMMA StepInv == IInv /\ [Next]_ledgerVars => IInv'
<1> SUFFICES ASSUME IInv, [Next]_ledgerVars PROVE IInv'
  OBVIOUS
<1>1. CASE UNCHANGED ledgerVars
  BY <1>1 DEF IInv, TypeOK, LeaseHonoured, AbsentUntouched, ledgerVars
<1>2. CASE Next
  <2> PICK t \in Tasks :
        \/ \E o \in Workers \cup {NoWorker}, d \in SUBSET Tasks, c \in BOOLEAN :
             Create(t, o, d, c)
        \/ \E w \in Workers : Claim(t, w)
        \/ \E to \in Terminal : Finish(t, to)
        \/ Release(t)
        \/ Reclaim(t)
        \/ \E d \in SUBSET Tasks, c \in BOOLEAN : Edit(t, d, c)
        \/ \E token \in lease[t] : Expire(t, token)
    BY <1>2 DEF Next
  <2> QED BY ClaimInv, FinishInv, FreeInv, OtherInv
<1> QED BY <1>1, <1>2

(* The invariant holds of every behaviour.                                 *)
LEMMA Invariance == Spec => []IInv
  BY InitInv, StepInv, PTL DEF Spec

(* Task records stay well formed: a task is in progress exactly when it    *)
(* has a claim, and then has an owner (tasks.ts).                          *)
THEOREM LedgerTypes == Spec => []TypeOK
  BY Invariance, PTL DEF IInv

(* No operation takes a task away from a worker whose lease still runs, or *)
(* issues a second live claim on it.                                       *)
THEOREM LeasesHonoured == Spec => []LeaseHonoured
  BY Invariance, PTL DEF IInv

-----------------------------------------------------------------------------
(* What one step does to the record of a task u.                           *)
LEMMA StepOnTask ==
  ASSUME IInv, Next, NEW u \in Tasks, task'[u] # task[u]
  PROVE  \/ ~Exists(task[u]) /\ \E o \in Workers \cup {NoWorker},
              d \in SUBSET Tasks, c \in BOOLEAN : task'[u] = Created(o, d, c)
         \/ /\ Claimable(task[u], task'[u].owner, Expired(u, task[u]))
            /\ Ready(task, task[u])
            /\ task' = [task EXCEPT ![u] =
                          Claimed(task[u], task'[u].owner, claims + 1)]
         \/ /\ CanTransition(task[u].status, task'[u].status)
            /\ task'[u] = Finished(task[u], task'[u].status)
         \/ task[u].status = "in_progress" /\ task'[u] = Freed(task[u])
         \/ /\ Exists(task[u])
            /\ \E d \in SUBSET Tasks, c \in BOOLEAN :
                 task'[u] = Edited(task[u], d, c)
<1>1. task \in [Tasks -> TaskRecord]
  BY DEF IInv, TypeOK
<1>2. PICK t \in Tasks :
        \/ \E o \in Workers \cup {NoWorker}, d \in SUBSET Tasks, c \in BOOLEAN :
             Create(t, o, d, c)
        \/ \E w \in Workers : Claim(t, w)
        \/ \E to \in Terminal : Finish(t, to)
        \/ Release(t)
        \/ Reclaim(t)
        \/ \E d \in SUBSET Tasks, c \in BOOLEAN : Edit(t, d, c)
        \/ \E token \in lease[t] : Expire(t, token)
  BY DEF Next
<1>3. u = t
  BY <1>1, <1>2 DEF Create, Claim, Finish, Release, Reclaim, Edit, Expire
<1>4. CASE \E o \in Workers \cup {NoWorker}, d \in SUBSET Tasks, c \in BOOLEAN :
             Create(t, o, d, c)
  BY <1>1, <1>3, <1>4 DEF Create
<1>5. CASE \E w \in Workers : Claim(t, w)
  <2> PICK w \in Workers : Claim(t, w)
    BY <1>5
  <2>1. task'[t] = Claimed(task[t], w, claims + 1)
    BY <1>1 DEF Claim
  <2>2. task'[t].owner = w
    BY <1>1, <2>1 DEF Claimed, TaskRecord
  <2> QED BY <1>3, <2>2 DEF Claim
<1>6. CASE \E to \in Terminal : Finish(t, to)
  <2> PICK to \in Terminal : Finish(t, to)
    BY <1>6
  <2>1. task'[t] = Finished(task[t], to)
    BY <1>1 DEF Finish
  <2>2. task'[t].status = to
    BY <1>1, <2>1 DEF Finished, TaskRecord
  <2> QED BY <1>3, <2>1, <2>2 DEF Finish
<1>7. CASE Release(t) \/ Reclaim(t)
  BY <1>1, <1>3, <1>7 DEF Release, Reclaim, Reclaimable
<1>8. CASE \E d \in SUBSET Tasks, c \in BOOLEAN : Edit(t, d, c)
  BY <1>1, <1>3, <1>8 DEF Edit
<1>9. CASE \E token \in lease[t] : Expire(t, token)
  BY <1>3, <1>9 DEF Expire
<1> QED BY <1>2, <1>4, <1>5, <1>6, <1>7, <1>8, <1>9

(* A completed or failed task is never worked on again.                    *)
THEOREM TerminalKept == Spec => TerminalForever
<1>1. IInv /\ [Next]_ledgerVars =>
        [\A t \in Tasks : task[t].status \in Terminal =>
           /\ task'[t].status = task[t].status
           /\ task'[t].owner = task[t].owner
           /\ task'[t].claim = NoClaim]_ledgerVars
  <2> SUFFICES ASSUME IInv, Next, NEW t \in Tasks,
                      task[t].status \in Terminal
               PROVE  /\ task'[t].status = task[t].status
                      /\ task'[t].owner = task[t].owner
                      /\ task'[t].claim = NoClaim
    OBVIOUS
  <2>1. task[t] \in TaskRecord /\ task[t].claim = NoClaim
    BY DEF IInv, TypeOK, Terminal
  <2>2. CASE task'[t] = task[t]
    BY <2>1, <2>2
  <2>3. CASE task'[t] # task[t]
    BY <2>1, <2>3, StepOnTask DEF Claimable, Ready, CanTransition, Exists,
       Terminal, Edited, TaskRecord
  <2> QED BY <2>2, <2>3
<1> QED BY <1>1, Invariance, PTL DEF Spec, TerminalForever

(* Work starts only on tasks whose dependencies are all completed, and     *)
(* they still are when it has started.                                     *)
THEOREM OnlyReadyStarts == Spec => StartsReady
<1>1. IInv /\ [Next]_ledgerVars =>
        [\A t \in Tasks :
           task'[t].claim # task[t].claim /\ task'[t].claim # NoClaim =>
             \A d \in task[t].deps : task'[d].status = "completed"]_ledgerVars
  <2> SUFFICES ASSUME IInv, Next, NEW t \in Tasks,
                      task'[t].claim # task[t].claim,
                      task'[t].claim # NoClaim,
                      NEW d \in task[t].deps
               PROVE  task'[d].status = "completed"
    OBVIOUS
  <2>1. task \in [Tasks -> TaskRecord] /\ task[t] \in TaskRecord
    BY DEF IInv, TypeOK
  <2>2. /\ Claimable(task[t], task'[t].owner, Expired(t, task[t]))
        /\ Ready(task, task[t])
        /\ task' = [task EXCEPT ![t] =
                      Claimed(task[t], task'[t].owner, claims + 1)]
    <3>1. ASSUME NEW o, NEW dd, NEW c
          PROVE  Created(o, dd, c).claim = NoClaim
      BY DEF Created
    <3>2. ASSUME NEW to
          PROVE  Finished(task[t], to).claim = NoClaim
      BY <2>1 DEF Finished, TaskRecord
    <3>3. Freed(task[t]).claim = NoClaim
      BY <2>1 DEF Freed, TaskRecord
    <3>4. ASSUME NEW dd, NEW c
          PROVE  Edited(task[t], dd, c).claim = task[t].claim
      BY <2>1 DEF Edited, TaskRecord
    <3> QED BY <3>1, <3>2, <3>3, <3>4, StepOnTask
  <2>3. task[d].status = "completed"
    BY <2>2 DEF Ready
  <2>4. d # t
    BY <2>2, <2>3 DEF Claimable
  <2> QED BY <2>1, <2>2, <2>3, <2>4 DEF TaskRecord
<1> QED BY <1>1, Invariance, PTL DEF Spec, StartsReady

(* A caller that passes the version it read is told of every change since. *)
THEOREM VersionsCount == Spec => VersionCountsChanges
<1>1. IInv /\ [Next]_ledgerVars =>
        [\A t \in Tasks : task'[t] # task[t] =>
           task'[t].version = task[t].version + 1]_ledgerVars
  <2> SUFFICES ASSUME IInv, Next, NEW t \in Tasks, task'[t] # task[t]
               PROVE  task'[t].version = task[t].version + 1
    OBVIOUS
  <2>1. task \in [Tasks -> TaskRecord] /\ task[t] \in TaskRecord
    BY DEF IInv, TypeOK
  <2>2. ~Exists(task[t]) => task[t].version = 0
    BY DEF IInv, AbsentUntouched
  <2>3. ASSUME NEW w, task' = [task EXCEPT ![t] = Claimed(task[t], w, claims + 1)]
        PROVE  task'[t].version = task[t].version + 1
    BY <2>1, <2>3 DEF Claimed, TaskRecord
  <2>4. ASSUME NEW to, task'[t] = Finished(task[t], to)
        PROVE  task'[t].version = task[t].version + 1
    BY <2>1, <2>4 DEF Finished, TaskRecord
  <2>5. CASE task'[t] = Freed(task[t])
    BY <2>1, <2>5 DEF Freed, TaskRecord
  <2>6. ASSUME NEW d, NEW c, task'[t] = Edited(task[t], d, c)
        PROVE  task'[t].version = task[t].version + 1
    BY <2>1, <2>6 DEF Edited, TaskRecord
  <2>7. ASSUME NEW o, NEW d, NEW c, ~Exists(task[t]),
               task'[t] = Created(o, d, c)
        PROVE  task'[t].version = task[t].version + 1
    BY <2>2, <2>7 DEF Created
  <2> QED BY <2>3, <2>4, <2>5, <2>6, <2>7, StepOnTask
<1> QED BY <1>1, Invariance, PTL DEF Spec, VersionCountsChanges
=============================================================================
