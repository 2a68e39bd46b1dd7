-------------------------- MODULE TaskBoardProofs --------------------------
(***************************************************************************)
(* TaskBoard implements TaskLedger for any number of callers, tasks,       *)
(* workers, claims, edits and crashes: every call of the task API takes    *)
(* effect at the instant it writes the task file.                          *)
(*                                                                         *)
(* The invariant says, besides types and the lock discipline of TypeOK,    *)
(* what a caller about to write may rely on (WriterOK): the record it read *)
(* is still the one on disk, and what it tested before still holds.        *)
(***************************************************************************)
EXTENDS TaskBoard, TLAPS

(* Each record operation of tasks.ts turns a record into a record.         *)
LEMMA RecordsKept ==
  ASSUME NEW v \in TaskRecord
  PROVE  /\ \A w \in Workers, token \in Nat : Claimed(v, w, token) \in TaskRecord
         /\ \A to \in Terminal : Finished(v, to) \in TaskRecord
         /\ Freed(v) \in TaskRecord
         /\ \A d \in SUBSET Tasks, c \in BOOLEAN : Edited(v, d, c) \in TaskRecord
<1>1. v.version + 1 \in Nat
  BY DEF TaskRecord
<1>2. /\ "pending" \in Statuses /\ "in_progress" \in Statuses
      /\ Terminal \subseteq Statuses
      /\ NoClaim \in Nat
  BY DEF Statuses, Terminal, NoClaim
<1>3. ASSUME NEW w \in Workers, NEW token \in Nat
      PROVE  Claimed(v, w, token) \in TaskRecord
  BY <1>1, <1>2 DEF Claimed, TaskRecord
<1>4. ASSUME NEW to \in Terminal
      PROVE  Finished(v, to) \in TaskRecord
  BY <1>1, <1>2 DEF Finished, TaskRecord
<1>5. Freed(v) \in TaskRecord
  BY <1>1, <1>2 DEF Freed, TaskRecord
<1>6. ASSUME NEW d \in SUBSET Tasks, NEW c \in BOOLEAN
      PROVE  Edited(v, d, c) \in TaskRecord
  BY <1>1, <1>2 DEF Edited, TaskRecord
<1> QED BY <1>3, <1>4, <1>5, <1>6

(* Which fields each of them changes, and to what.                         *)
LEMMA RecordFields ==
  ASSUME NEW v \in TaskRecord
  PROVE  /\ \A w, token :
              /\ Claimed(v, w, token).status = "in_progress"
              /\ Claimed(v, w, token).owner = w
              /\ Claimed(v, w, token).claim = token
         /\ \A to :
              /\ Finished(v, to).status = to
              /\ Finished(v, to).owner = v.owner
              /\ Finished(v, to).claim = NoClaim
         /\ Freed(v).status = "pending"
         /\ Freed(v).claim = NoClaim
         /\ \A d, c :
              /\ Edited(v, d, c).status = v.status
              /\ Edited(v, d, c).owner = v.owner
              /\ Edited(v, d, c).claim = v.claim
<1>1. ASSUME NEW w, NEW token
      PROVE  /\ Claimed(v, w, token).status = "in_progress"
             /\ Claimed(v, w, token).owner = w
             /\ Claimed(v, w, token).claim = token
  BY DEF Claimed, TaskRecord
<1>2. ASSUME NEW to
      PROVE  /\ Finished(v, to).status = to
             /\ Finished(v, to).owner = v.owner
             /\ Finished(v, to).claim = NoClaim
  BY DEF Finished, TaskRecord
<1>3. Freed(v).status = "pending" /\ Freed(v).claim = NoClaim
  BY DEF Freed, TaskRecord
<1>4. ASSUME NEW d, NEW c
      PROVE  /\ Edited(v, d, c).status = v.status
             /\ Edited(v, d, c).owner = v.owner
             /\ Edited(v, d, c).claim = v.claim
  BY DEF Edited, TaskRecord
<1> QED BY <1>1, <1>2, <1>3, <1>4

RecordsOK ==
  /\ task \in [Tasks -> TaskRecord]
  /\ lease \in [Tasks -> SUBSET Nat]
  /\ claims \in Nat /\ edits \in Nat
  /\ \A t \in Tasks :
       /\ task[t].claim # NoClaim <=> task[t].status = "in_progress"
       /\ task[t].status = "in_progress" => task[t].owner \in Workers

(* Only names of the configuration are claimed for.                        *)
ClaimersOK == \A p \in Procs : call[p].op = "claim" => call[p].worker \in Workers

Tests(p) ==
  LET c == call[p]
      v == task[call[p].task]
      expired == Expired(call[p].task, task[call[p].task])
  IN  /\ c.op \in {"claim", "finish", "release", "reclaim", "edit"}
      /\ c.op = "claim" => Claimable(v, c.worker, expired) /\ Ready(task, v)
      /\ c.op \in {"finish", "release"} =>
           v.status = "in_progress" /\ HoldsClaim(v, c.token)
      /\ c.op = "reclaim" => Reclaimable(v, expired)
      /\ c.op = "edit" => Exists(v)

WriterOK(p) == seen[p] = task[call[p].task] /\ Tests(p)

WritersOK == \A p \in Procs : pc[p] = "writing" => WriterOK(p)

IInv == TypeOK /\ RecordsOK /\ ClaimersOK /\ WritersOK

-----------------------------------------------------------------------------
(* TaskLedger's operators on records are those of TaskBoard.               *)
LEMMA LedgerAgrees ==
  /\ \A v : Ledger!Exists(v) <=> Exists(v)
  /\ \A v, w, e : Ledger!Claimable(v, w, e) <=> Claimable(v, w, e)
  /\ \A all, v : Ledger!Ready(all, v) <=> Ready(all, v)
  /\ \A v, e : Ledger!Reclaimable(v, e) <=> Reclaimable(v, e)
  /\ \A v, k : Ledger!HoldsClaim(v, k) <=> HoldsClaim(v, k)
  /\ \A v, w, k : Ledger!Claimed(v, w, k) = Claimed(v, w, k)
  /\ \A v, to : Ledger!Finished(v, to) = Finished(v, to)
  /\ \A v : Ledger!Freed(v) = Freed(v)
  /\ \A v, d, c : Ledger!Edited(v, d, c) = Edited(v, d, c)
  /\ \A o, d, c : Ledger!Created(o, d, c) = Created(o, d, c)
  /\ \A t, v : Ledger!Expired(t, v) <=> Expired(t, v)
<1>1. /\ \A v : Ledger!Exists(v) <=> Exists(v)
      /\ \A v, w, e : Ledger!Claimable(v, w, e) <=> Claimable(v, w, e)
      /\ \A all, v : Ledger!Ready(all, v) <=> Ready(all, v)
      /\ \A v, e : Ledger!Reclaimable(v, e) <=> Reclaimable(v, e)
      /\ \A v, k : Ledger!HoldsClaim(v, k) <=> HoldsClaim(v, k)
      /\ \A t, v : Ledger!Expired(t, v) <=> Expired(t, v)
  BY DEF Ledger!Exists, Exists, Ledger!Claimable, Claimable, Ledger!Ready,
     Ready, Ledger!Reclaimable, Reclaimable, Ledger!HoldsClaim, HoldsClaim,
     Ledger!Expired, Expired, Ledger!NoClaim, NoClaim
<1>2. \A v, w, k : Ledger!Claimed(v, w, k) = Claimed(v, w, k)
  BY DEF Ledger!Claimed, Claimed
<1>3. \A v, to : Ledger!Finished(v, to) = Finished(v, to)
  BY DEF Ledger!Finished, Finished, Ledger!NoClaim, NoClaim
<1>4. \A v : Ledger!Freed(v) = Freed(v)
  BY DEF Ledger!Freed, Freed, Ledger!NoClaim, NoClaim
<1>5. \A v, d, c : Ledger!Edited(v, d, c) = Edited(v, d, c)
  BY DEF Ledger!Edited, Edited
<1>6. \A o, d, c : Ledger!Created(o, d, c) = Created(o, d, c)
  BY DEF Ledger!Created, Created, Ledger!NoClaim, NoClaim
<1> QED BY <1>1, <1>2, <1>3, <1>4, <1>5, <1>6

(* A caller about to write may still do so after a step that changes       *)
(* neither it nor its task, takes no completed task away, and only lets    *)
(* leases of its task run out.                                             *)
LEMMA WriterKept ==
  ASSUME NEW q \in Procs, WriterOK(q), RecordsOK, call[q].task \in Tasks,
         call'[q] = call[q], seen'[q] = seen[q],
         task'[call[q].task] = task[call[q].task],
         lease'[call[q].task] \subseteq lease[call[q].task],
         \A u \in Tasks :
           task[u].status = "completed" => task'[u].status = "completed"
  PROVE  WriterOK(q)'
<1> DEFINE v == task[call[q].task]
           e == Expired(call[q].task, v)
<1>1. v \in TaskRecord
  BY DEF RecordsOK
<1>2. Expired(call[q].task, v) => Expired(call[q].task, v)'
  BY DEF Expired
<1>3. Ready(task, v) => Ready(task, v)'
  BY <1>1 DEF Ready, TaskRecord
<1>4. ASSUME NEW w, Claimable(v, w, e)
      PROVE  Claimable(v, w, e)'
  BY <1>2, <1>4 DEF Claimable
<1>5. Reclaimable(v, e) => Reclaimable(v, e)'
  BY <1>2 DEF Reclaimable
<1> QED
  BY <1>3, <1>4, <1>5 DEF WriterOK, Tests, HoldsClaim, Exists

(* So may all writers but p, when p takes a step that keeps them.          *)
LEMMA OthersKept ==
  ASSUME IInv, NEW p \in Procs, pc'[p] # "writing",
         \A q \in Procs \ {p} :
           pc'[q] = pc[q] /\ call'[q] = call[q] /\ seen'[q] = seen[q],
         \A q \in Procs \ {p} : pc[q] = "writing" =>
           /\ task'[call[q].task] = task[call[q].task]
           /\ lease'[call[q].task] \subseteq lease[call[q].task],
         \A u \in Tasks :
           task[u].status = "completed" => task'[u].status = "completed"
  PROVE  WritersOK'
<1>1. SUFFICES ASSUME NEW q \in Procs, pc'[q] = "writing"
               PROVE  WriterOK(q)'
  BY DEF WritersOK
<1>2. q # p /\ pc[q] = "writing"
  BY <1>1
<1>3. WriterOK(q) /\ RecordsOK /\ call[q].task \in Tasks
  BY <1>2 DEF IInv, WritersOK, TypeOK
<1> QED BY <1>2, <1>3, WriterKept

(* A step of p that leaves the ledger alone keeps the rest of the          *)
(* invariant, if it keeps the types and p is not about to write after it.  *)
LEMMA QuietStep ==
  ASSUME IInv, NEW p \in Procs, UNCHANGED ledgerVars, TypeOK',
         pc'[p] # "writing",
         call'[p].op = "claim" => call'[p].worker \in Workers,
         \A q \in Procs \ {p} :
           pc'[q] = pc[q] /\ call'[q] = call[q] /\ seen'[q] = seen[q]
  PROVE  IInv'
<1>1. RecordsOK'
  BY DEF IInv, RecordsOK, ledgerVars
<1>2. ClaimersOK'
  BY DEF IInv, ClaimersOK
<1>3. WritersOK'
  BY OthersKept DEF ledgerVars
<1> QED BY <1>1, <1>2, <1>3 DEF IInv

-----------------------------------------------------------------------------
(* Beginning a call.                                                       *)
LEMMA StartInv ==
  ASSUME IInv, NEW p \in Procs, NEW c \in Call, Start(p, c),
         c.task \in Tasks, c.op = "claim" => c.worker \in Workers
  PROVE  IInv' /\ UNCHANGED ledgerVars
<1>1. TypeOK'
  BY DEF IInv, TypeOK, Start, PcStates, InBody
<1>2. UNCHANGED ledgerVars
  BY DEF Start, ledgerVars
<1>3. /\ pc'[p] # "writing"
      /\ call'[p] = c
      /\ \A q \in Procs \ {p} :
           pc'[q] = pc[q] /\ call'[q] = call[q] /\ seen'[q] = seen[q]
  BY DEF IInv, TypeOK, Start
<1> QED BY <1>1, <1>2, <1>3, QuietStep

(* The initial arguments of every operation are a call.                    *)
LEMMA BeginInv ==
  ASSUME IInv, NEW p \in Procs, Begin(p)
  PROVE  IInv' /\ UNCHANGED ledgerVars
<1> PICK t \in Tasks :
      \/ \E w \in Workers : StartClaim(p, t, w) \/ StartAssign(p, t, w)
      \/ \E token \in 1..claims :
           StartFinish(p, t, token) \/ StartRelease(p, t, token)
      \/ StartReclaim(p, t)
      \/ StartEdit(p, t)
  BY DEF Begin
<1>1. /\ NoCall \in [op: Ops, task: {0}, worker: Workers \cup {NoWorker},
                     token: Nat, ver: SUBSET Nat, assign: BOOLEAN]
      /\ task[t] \in TaskRecord /\ task[t].version \in Nat
      /\ claims \in Nat
  BY DEF IInv, RecordsOK, TaskRecord, NoCall, Ops, NoClaim
<1>3. CASE \E w \in Workers : StartClaim(p, t, w)
  <2> PICK w \in Workers : StartClaim(p, t, w)
    BY <1>3
  <2> PICK ver \in {{}, {task[t].version}} :
         Start(p, [NoCall EXCEPT !.op = "claim", !.task = t, !.worker = w,
                                 !.ver = ver])
    BY DEF StartClaim
  <2> DEFINE c == [NoCall EXCEPT !.op = "claim", !.task = t, !.worker = w,
                                 !.ver = ver]
  <2>1. c \in Call /\ c.task \in Tasks /\ c.worker \in Workers
    BY <1>1 DEF NoCall, Call, Ops, NoClaim
  <2> QED BY <2>1, StartInv
<1>4. CASE \E w \in Workers : StartAssign(p, t, w)
  <2> PICK w \in Workers : StartAssign(p, t, w)
    BY <1>4
  <2> DEFINE c == [NoCall EXCEPT !.op = "claim", !.task = t, !.worker = w,
                                 !.ver = {task[t].version}, !.assign = TRUE]
  <2>1. c \in Call /\ c.task \in Tasks /\ c.worker \in Workers
    BY <1>1 DEF NoCall, Call, Ops, NoClaim
  <2>2. Start(p, c)
    BY DEF StartAssign
  <2> QED BY <2>1, <2>2, StartInv
<1>5. CASE \E token \in 1..claims : StartFinish(p, t, token)
  <2> PICK token \in 1..claims : StartFinish(p, t, token)
    BY <1>5
  <2> DEFINE c == [NoCall EXCEPT !.op = "finish", !.task = t, !.token = token]
  <2>0. token \in Nat
    BY <1>1
  <2>1. c \in Call /\ c.task \in Tasks /\ c.op # "claim"
    BY <1>1, <2>0 DEF NoCall, Call, Ops, NoClaim
  <2>2. Start(p, c)
    BY DEF StartFinish
  <2> QED BY <2>1, <2>2, StartInv
<1>6. CASE \E token \in 1..claims : StartRelease(p, t, token)
  <2> PICK token \in 1..claims : StartRelease(p, t, token)
    BY <1>6
  <2> DEFINE c == [NoCall EXCEPT !.op = "release", !.task = t, !.token = token]
  <2>0. token \in Nat
    BY <1>1
  <2>1. c \in Call /\ c.task \in Tasks /\ c.op # "claim"
    BY <1>1, <2>0 DEF NoCall, Call, Ops, NoClaim
  <2>2. Start(p, c)
    BY DEF StartRelease
  <2> QED BY <2>1, <2>2, StartInv
<1>7. CASE StartReclaim(p, t)
  <2> DEFINE c == [NoCall EXCEPT !.op = "reclaim", !.task = t]
  <2>1. c \in Call /\ c.task \in Tasks /\ c.op # "claim"
    BY <1>1 DEF NoCall, Call, Ops, NoClaim
  <2> QED BY <1>7, <2>1, StartInv DEF StartReclaim
<1>8. CASE StartEdit(p, t)
  <2> DEFINE c == [NoCall EXCEPT !.op = "edit", !.task = t]
  <2>1. c \in Call /\ c.task \in Tasks /\ c.op # "claim"
    BY <1>1 DEF NoCall, Call, Ops, NoClaim
  <2> QED BY <1>8, <2>1, StartInv DEF StartEdit
<1> QED BY <1>3, <1>4, <1>5, <1>6, <1>7, <1>8

-----------------------------------------------------------------------------
(* Steps that only move a caller: the lock changes with where it is.       *)
LEMMA ReturnTypes ==
  ASSUME IInv, NEW p \in Procs, Return(p)
  PROVE  /\ pc' = [pc EXCEPT ![p] = "idle"]
         /\ call'[p].op # "claim"
         /\ pc'[p] = "idle"
         /\ pc' \in [Procs -> PcStates]
         /\ call' \in [Procs -> Call]
         /\ seen' \in [Procs -> TaskRecord]
         /\ \A q \in Procs \ {p} :
              pc'[q] = pc[q] /\ call'[q] = call[q] /\ seen'[q] = seen[q]
<1>1. NoCall \in Call /\ NoCall.op = "none"
  BY DEF NoCall, Call, Ops, NoClaim
<1>2. Absent \in TaskRecord
  BY DEF Absent, TaskRecord, Statuses, NoClaim
<1> QED BY <1>1, <1>2 DEF IInv, TypeOK, Return, PcStates

LEMMA LockSteps ==
  ASSUME IInv, NEW p \in Procs, Acquire(p) \/ Unlock(p)
  PROVE  IInv' /\ UNCHANGED ledgerVars
<1>1. call[p].task \in Tasks
  BY DEF IInv, TypeOK, Acquire, Unlock
<1>2. UNCHANGED ledgerVars
  BY DEF Acquire, Unlock, ledgerVars
<1>3. CASE Acquire(p)
  <2>1. TypeOK'
    BY <1>1, <1>3, BoardAssumption DEF IInv, TypeOK, Acquire, PcStates, InBody
  <2>2. /\ pc'[p] # "writing" /\ call'[p] = call[p]
        /\ \A q \in Procs \ {p} :
             pc'[q] = pc[q] /\ call'[q] = call[q] /\ seen'[q] = seen[q]
    BY <1>3 DEF IInv, TypeOK, Acquire
  <2> QED BY <1>2, <2>1, <2>2, QuietStep DEF IInv, ClaimersOK
<1>4. CASE Unlock(p)
  <2>1. CASE Return(p)
    <3>1. TypeOK'
      BY <1>1, <1>4, <2>1, ReturnTypes, BoardAssumption
      DEF IInv, TypeOK, Unlock, InBody
    <3> QED BY <1>2, <2>1, <3>1, ReturnTypes, QuietStep
  <2>2. CASE pc' = [pc EXCEPT ![p] = "dispatching"] /\ UNCHANGED <<call, seen>>
    <3>1. TypeOK'
      BY <1>1, <1>4, <2>2, BoardAssumption
      DEF IInv, TypeOK, Unlock, PcStates, InBody
    <3>2. /\ pc'[p] # "writing" /\ call'[p] = call[p]
          /\ \A q \in Procs \ {p} :
               pc'[q] = pc[q] /\ call'[q] = call[q] /\ seen'[q] = seen[q]
      BY <2>2 DEF IInv, TypeOK
    <3> QED BY <1>2, <3>1, <3>2, QuietStep DEF IInv, ClaimersOK
  <2> QED BY <1>4, <2>1, <2>2 DEF Unlock
<1> QED BY <1>3, <1>4

LEMMA RelabelTypes ==
  ASSUME IInv, NEW p \in Procs, NEW o \in {"edit", "release"},
         call' = [call EXCEPT ![p].op = o]
  PROVE  /\ call' \in [Procs -> Call]
         /\ call'[p].op = o
         /\ call'[p].task = call[p].task
         /\ \A q \in Procs \ {p} : call'[q] = call[q]
<1>1. call[p] \in Call /\ call \in [Procs -> Call]
  BY DEF IInv, TypeOK
<1>2. [call[p] EXCEPT !.op = o] \in Call
  BY <1>1 DEF Call, Ops
<1>3. call' = [call EXCEPT ![p] = [call[p] EXCEPT !.op = o]]
  OBVIOUS
<1>4. /\ [call[p] EXCEPT !.op = o].op = o
      /\ [call[p] EXCEPT !.op = o].task = call[p].task
  BY <1>1 DEF Call
<1> QED BY <1>1, <1>2, <1>3, <1>4

LEMMA OutsideSteps ==
  ASSUME IInv, NEW p \in Procs,
         GiveUp(p) \/ AssignEdit(p) \/ DispatchOk(p) \/ DispatchFails(p)
  PROVE  IInv' /\ UNCHANGED ledgerVars
<1>1. /\ UNCHANGED ledgerVars
      /\ UNCHANGED <<lock, events, crashes>>
      /\ pc[p] \in {"locking", "dispatching"}
  BY DEF GiveUp, AssignEdit, DispatchOk, DispatchFails, ledgerVars
<1>2. CASE Return(p)
  <2>1. TypeOK'
    BY <1>1, <1>2, ReturnTypes DEF IInv, TypeOK, InBody
  <2> QED BY <1>1, <1>2, <2>1, ReturnTypes, QuietStep
<1>3. ASSUME NEW o \in {"edit", "release"},
             call' = [call EXCEPT ![p].op = o],
             pc' = [pc EXCEPT ![p] = "locking"] \/ UNCHANGED pc,
             UNCHANGED seen
      PROVE  IInv'
  <2>1. pc'[p] \in {"locking", "dispatching"} /\ pc' \in [Procs -> PcStates]
    BY <1>1, <1>3 DEF IInv, TypeOK, PcStates
  <2>2. \A q \in Procs \ {p} :
          pc'[q] = pc[q] /\ call'[q] = call[q] /\ seen'[q] = seen[q]
    BY <1>3, RelabelTypes DEF IInv, TypeOK
  <2>3. /\ call' \in [Procs -> Call]
        /\ call'[p].op # "claim"
        /\ call'[p].task = call[p].task
    BY <1>3, RelabelTypes
  <2>4. TypeOK'
    BY <1>1, <1>3, <2>1, <2>2, <2>3 DEF IInv, TypeOK, InBody
  <2> QED BY <1>1, <2>1, <2>2, <2>3, <2>4, QuietStep
<1> QED BY <1>1, <1>2, <1>3 DEF GiveUp, AssignEdit, DispatchOk, DispatchFails

(* Steps inside a body that write nothing to the task file.                *)
LEMMA InsideSteps ==
  ASSUME IInv, NEW p \in Procs,
         Reject(p) \/ OutOfBounds(p) \/ AppendEvent(p)
  PROVE  IInv' /\ UNCHANGED ledgerVars
<1>1. /\ UNCHANGED ledgerVars
      /\ UNCHANGED <<call, lock, crashes>>
      /\ pc[p] \in InBody
      /\ pc' = [pc EXCEPT ![p] = "unlocking"]
      /\ seen' = [seen EXCEPT ![p] = Absent] \/ UNCHANGED seen
  BY DEF Reject, OutOfBounds, AppendEvent, ledgerVars, InBody
<1>2. events' \in [Tasks -> Nat]
  BY DEF IInv, TypeOK, Reject, OutOfBounds, AppendEvent
<1>3. Absent \in TaskRecord
  BY DEF Absent, TaskRecord, Statuses, NoClaim
<1>4. TypeOK'
  BY <1>1, <1>2, <1>3 DEF IInv, TypeOK, PcStates, InBody
<1>5. /\ pc'[p] # "writing" /\ call'[p] = call[p]
      /\ \A q \in Procs \ {p} :
           pc'[q] = pc[q] /\ call'[q] = call[q] /\ seen'[q] = seen[q]
  BY <1>1 DEF IInv, TypeOK
<1> QED BY <1>1, <1>4, <1>5, QuietStep DEF IInv, ClaimersOK

(* A call that passes its tests may write: it has just seen the record,    *)
(* and the tests are those that WriterOK remembers.                        *)
LEMMA AcceptInv ==
  ASSUME IInv, NEW p \in Procs, Accept(p)
  PROVE  IInv' /\ UNCHANGED ledgerVars
<1> DEFINE t == call[p].task
           v == task[call[p].task]
<1>1. t \in Tasks /\ v \in TaskRecord
  BY DEF IInv, TypeOK, RecordsOK, Accept
<1>2. UNCHANGED ledgerVars /\ UNCHANGED <<call, lock, events, crashes>>
  BY DEF Accept, ledgerVars
<1>3. TypeOK'
  BY <1>1, <1>2 DEF IInv, TypeOK, Accept, PcStates, InBody
<1>4. /\ RecordsOK'
      /\ ClaimersOK'
  BY <1>2 DEF IInv, RecordsOK, ClaimersOK, ledgerVars
<1>5. /\ seen'[p] = v
      /\ \A q \in Procs \ {p} :
           pc'[q] = pc[q] /\ call'[q] = call[q] /\ seen'[q] = seen[q]
  BY <1>2 DEF IInv, TypeOK, Accept
<1>6. Tests(p)
  <2>1. Passes(p)
    BY DEF Accept
  <2>2. ASSUME HoldsClaim(v, call[p].token)
        PROVE  v.status = "in_progress"
    BY <1>1, <2>2 DEF IInv, RecordsOK, HoldsClaim
  <2> QED
    BY <2>1, <2>2 DEF Passes, Tests, Finishable, CanTransition, Releasable
<1>7. WriterOK(p)'
  <2>1. Tests(p)'
    BY <1>2, <1>6 DEF Tests, ledgerVars, Expired
  <2> QED BY <1>2, <1>5, <2>1 DEF WriterOK, ledgerVars
<1>8. ASSUME NEW q \in Procs \ {p}, pc'[q] = "writing"
      PROVE  WriterOK(q)'
  <2>1. WriterOK(q) /\ RecordsOK /\ call[q].task \in Tasks
    BY <1>5, <1>8 DEF IInv, WritersOK, TypeOK
  <2> QED BY <1>2, <1>5, <2>1, WriterKept DEF ledgerVars
<1>9. WritersOK'
  BY <1>7, <1>8 DEF WritersOK
<1> QED BY <1>2, <1>3, <1>4, <1>9 DEF IInv

-----------------------------------------------------------------------------
(* A write of v by p, whose ledger effect keeps the records: nobody else   *)
(* is about to write the same task.                                        *)
LEMMA WriteInv ==
  ASSUME IInv, NEW p \in Procs, NEW v, WriteRecord(p, v),
         pc' = [pc EXCEPT ![p] = "unlocking"] \/ pc' = [pc EXCEPT ![p] = "event"],
         call'[p].task = call[p].task,
         call' \in [Procs -> Call],
         call'[p].op = "claim" => call'[p].worker \in Workers,
         \A q \in Procs \ {p} : call'[q] = call[q],
         \A u \in Tasks \ {call[p].task} : lease'[u] = lease[u],
         task[call[p].task].status # "completed" \/ v.status = "completed",
         RecordsOK'
  PROVE  IInv'
<1>1. /\ pc[p] = "writing" /\ call[p].task \in Tasks
      /\ lock[call[p].task] = p
  BY DEF IInv, TypeOK, WriteRecord, InBody
<1>2. /\ task' = [task EXCEPT ![call[p].task] = v]
      /\ seen' = [seen EXCEPT ![p] = Absent]
      /\ UNCHANGED <<lock, events, crashes>>
  BY DEF WriteRecord
<1>3. Absent \in TaskRecord
  BY DEF Absent, TaskRecord, Statuses, NoClaim
<1>4. /\ pc'[p] # "writing" /\ pc'[p] \in InBody
      /\ pc' \in [Procs -> PcStates]
      /\ \A q \in Procs \ {p} :
           pc'[q] = pc[q] /\ call'[q] = call[q] /\ seen'[q] = seen[q]
  BY <1>2 DEF IInv, TypeOK, PcStates, InBody
<1>5. TypeOK'
  BY <1>1, <1>2, <1>3, <1>4 DEF IInv, TypeOK, InBody
<1>6. \A q \in Procs \ {p} : pc[q] = "writing" =>
        call[q].task \in Tasks /\ call[q].task # call[p].task
  BY <1>1 DEF IInv, TypeOK, InBody
<1>7. WritersOK'
  <2>1. \A q \in Procs \ {p} : pc[q] = "writing" =>
          /\ task'[call[q].task] = task[call[q].task]
          /\ lease'[call[q].task] \subseteq lease[call[q].task]
    BY <1>2, <1>6 DEF IInv, RecordsOK
  <2>2. \A u \in Tasks :
          task[u].status = "completed" => task'[u].status = "completed"
    BY <1>1, <1>2 DEF IInv, RecordsOK
  <2> QED BY <1>4, <2>1, <2>2, OthersKept
<1>8. ClaimersOK'
  BY <1>4 DEF IInv, ClaimersOK
<1> QED BY <1>5, <1>7, <1>8 DEF IInv

(* What a caller about to write knows.                                     *)
LEMMA WriterKnows ==
  ASSUME IInv, NEW p \in Procs, pc[p] = "writing"
  PROVE  /\ call[p].task \in Tasks
         /\ call[p] \in Call
         /\ task[call[p].task] \in TaskRecord
         /\ seen[p] = task[call[p].task]
         /\ Tests(p)
  BY DEF IInv, TypeOK, RecordsOK, WritersOK, WriterOK

LEMMA ClaimStep ==
  ASSUME IInv, NEW p \in Procs, WriteClaim(p)
  PROVE  IInv' /\ Ledger!Next
<1> DEFINE t == call[p].task
           w == call[p].worker
           v == Claimed(task[t], w, claims + 1)
<1>1. /\ pc[p] = "writing" /\ call[p].op = "claim"
      /\ claims < MaxClaims
      /\ claims' = claims + 1 /\ edits' = edits
      /\ lease' = [lease EXCEPT ![t] = @ \cup {claims + 1}]
      /\ pc' = [pc EXCEPT ![p] = "unlocking"]
      /\ call' = [call EXCEPT ![p].token = claims + 1]
  BY DEF WriteClaim, WriteRecord
<1>2. /\ t \in Tasks /\ task[t] \in TaskRecord /\ call[p] \in Call
      /\ seen[p] = task[t]
      /\ Claimable(task[t], w, Expired(t, task[t])) /\ Ready(task, task[t])
      /\ w \in Workers
  BY <1>1, WriterKnows DEF Tests, IInv, ClaimersOK
<1>3. WriteRecord(p, v) /\ task' = [task EXCEPT ![t] = v]
  BY <1>2 DEF WriteClaim, WriteRecord
<1>4. claims + 1 \in Nat /\ claims + 1 # NoClaim
  BY DEF IInv, RecordsOK, NoClaim
<1>5. /\ v \in TaskRecord
      /\ v.status = "in_progress" /\ v.owner = w /\ v.claim = claims + 1
  BY <1>2, <1>4, RecordsKept, RecordFields
<1> HIDE DEF v
<1>6. RecordsOK'
  BY <1>1, <1>2, <1>3, <1>4, <1>5 DEF IInv, RecordsOK
<1>7. /\ call' \in [Procs -> Call]
      /\ call'[p].task = t /\ call'[p].worker = w
      /\ \A q \in Procs \ {p} : call'[q] = call[q]
  <2>1. [call[p] EXCEPT !.token = claims + 1] \in Call
    BY <1>2, <1>4 DEF Call
  <2>2. /\ [call[p] EXCEPT !.token = claims + 1].task = t
        /\ [call[p] EXCEPT !.token = claims + 1].worker = w
    BY <1>2 DEF Call
  <2>3. call' = [call EXCEPT ![p] = [call[p] EXCEPT !.token = claims + 1]]
    BY <1>1
  <2> QED BY <2>1, <2>2, <2>3 DEF IInv, TypeOK
<1>8. task[t].status # "completed"
  BY <1>2 DEF Claimable
<1>9. \A u \in Tasks \ {t} : lease'[u] = lease[u]
  BY <1>1 DEF IInv, RecordsOK
<1>10. IInv'
  BY <1>1, <1>2, <1>3, <1>6, <1>7, <1>8, <1>9, WriteInv
<1>11. Ledger!Claim(t, w)
  <2>1. /\ Ledger!Claimable(task[t], w, Ledger!Expired(t, task[t]))
        /\ Ledger!Ready(task, task[t])
    BY <1>2 DEF Claimable, Ready, Expired, Ledger!Claimable, Ledger!Ready,
       Ledger!Expired, NoClaim, Ledger!NoClaim
  <2>2. task' = [task EXCEPT ![t] = Ledger!Claimed(task[t], w, claims + 1)]
    BY <1>3, LedgerAgrees DEF v
  <2> QED BY <1>1, <2>1, <2>2 DEF Ledger!Claim
<1> QED BY <1>2, <1>10, <1>11 DEF Ledger!Next

LEMMA FinishStep ==
  ASSUME IInv, NEW p \in Procs, WriteFinish(p)
  PROVE  IInv' /\ Ledger!Next
<1> DEFINE t == call[p].task
<1> PICK to \in Terminal : WriteRecord(p, Finished(seen[p], to))
  BY DEF WriteFinish
<1> DEFINE v == Finished(task[t], to)
<1>1. /\ pc[p] = "writing" /\ call[p].op = "finish"
      /\ lease' = [lease EXCEPT ![t] = @ \ {call[p].token}]
      /\ pc' = [pc EXCEPT ![p] = "event"]
      /\ UNCHANGED <<claims, edits, call>>
  BY DEF WriteFinish, WriteRecord
<1>2. /\ t \in Tasks /\ task[t] \in TaskRecord
      /\ seen[p] = task[t]
      /\ task[t].status = "in_progress"
      /\ HoldsClaim(task[t], call[p].token)
  BY <1>1, WriterKnows DEF Tests
<1>3. WriteRecord(p, v) /\ task' = [task EXCEPT ![t] = v]
  BY <1>2 DEF WriteRecord
<1>4. /\ v \in TaskRecord
      /\ v.status = to /\ v.claim = NoClaim
  BY <1>2, RecordsKept, RecordFields
<1>0. to # "in_progress"
  BY DEF Terminal
<1>5. Ledger!Finish(t, to)
  <2>1. task[t].claim = call[p].token /\ HoldsClaim(task[t], task[t].claim)
    BY <1>2 DEF HoldsClaim
  <2>2. /\ Ledger!CanTransition(task[t].status, to)
        /\ Ledger!HoldsClaim(task[t], task[t].claim)
    BY <1>2, <2>1 DEF Ledger!CanTransition, Ledger!Terminal, Terminal,
       Ledger!HoldsClaim, HoldsClaim, Ledger!NoClaim, NoClaim
  <2>3. task' = [task EXCEPT ![t] = Ledger!Finished(task[t], to)]
    BY <1>3, LedgerAgrees
  <2> QED BY <1>1, <2>1, <2>2, <2>3 DEF Ledger!Finish
<1> HIDE DEF v
<1>6. RecordsOK' /\ \A u \in Tasks \ {t} : lease'[u] = lease[u]
  BY <1>0, <1>1, <1>2, <1>3, <1>4 DEF IInv, RecordsOK
<1>7. call' \in [Procs -> Call] /\ call'[p].op # "claim"
  BY <1>1 DEF IInv, TypeOK
<1>8. IInv'
  BY <1>1, <1>2, <1>3, <1>6, <1>7, WriteInv
<1>9. to \in Ledger!Terminal
  BY DEF Terminal, Ledger!Terminal
<1> QED BY <1>2, <1>5, <1>8, <1>9 DEF Ledger!Next

(* A task that is set free becomes pending without a claim, whoever frees  *)
(* it.                                                                     *)
LEMMA FreeInv ==
  ASSUME IInv, NEW p \in Procs, WriteRecord(p, Freed(seen[p])),
         pc' = [pc EXCEPT ![p] = "unlocking"],
         call' = call, claims' = claims, edits' = edits,
         call[p].op # "claim",
         task[call[p].task].status = "in_progress",
         \/ lease' = lease
         \/ lease' = [lease EXCEPT ![call[p].task] = @ \ {call[p].token}]
  PROVE  /\ IInv'
         /\ task' = [task EXCEPT ![call[p].task] =
                        Ledger!Freed(task[call[p].task])]
<1> DEFINE t == call[p].task
           v == Freed(task[t])
<1>1. /\ pc[p] = "writing" /\ t \in Tasks /\ task[t] \in TaskRecord
      /\ seen[p] = task[t]
  BY WriterKnows DEF WriteRecord
<1>2. WriteRecord(p, v) /\ task' = [task EXCEPT ![t] = v]
  BY <1>1 DEF WriteRecord
<1>3. v \in TaskRecord /\ v.status = "pending" /\ v.claim = NoClaim
  BY <1>1, RecordsKept, RecordFields
<1>4. v = Ledger!Freed(task[t])
  BY LedgerAgrees
<1> HIDE DEF v
<1>5. RecordsOK' /\ \A u \in Tasks \ {t} : lease'[u] = lease[u]
  BY <1>1, <1>2, <1>3 DEF IInv, RecordsOK
<1>6. call' \in [Procs -> Call]
  BY DEF IInv, TypeOK
<1>7. IInv'
  BY <1>2, <1>5, <1>6, WriteInv
<1> QED BY <1>2, <1>4, <1>7

LEMMA ReleaseStep ==
  ASSUME IInv, NEW p \in Procs, WriteRelease(p)
  PROVE  IInv' /\ Ledger!Next
<1> DEFINE t == call[p].task
<1>1. /\ pc[p] = "writing" /\ call[p].op = "release"
      /\ WriteRecord(p, Freed(seen[p]))
      /\ lease' = [lease EXCEPT ![t] = @ \ {call[p].token}]
      /\ pc' = [pc EXCEPT ![p] = "unlocking"]
      /\ call' = call /\ claims' = claims /\ edits' = edits
  BY DEF WriteRelease, WriteRecord
<1>2. /\ t \in Tasks
      /\ task[t].status = "in_progress"
      /\ HoldsClaim(task[t], call[p].token)
  BY <1>1, WriterKnows DEF Tests
<1>3. IInv' /\ task' = [task EXCEPT ![t] = Ledger!Freed(task[t])]
  BY <1>1, <1>2, FreeInv
<1>4. /\ task[t].claim = call[p].token
      /\ Ledger!HoldsClaim(task[t], task[t].claim)
  BY <1>2 DEF Ledger!HoldsClaim, HoldsClaim, Ledger!NoClaim, NoClaim
<1>5. Ledger!Release(t)
  BY <1>1, <1>2, <1>3, <1>4 DEF Ledger!Release
<1> QED BY <1>2, <1>3, <1>5 DEF Ledger!Next

LEMMA ReclaimStep ==
  ASSUME IInv, NEW p \in Procs, WriteReclaim(p)
  PROVE  IInv' /\ Ledger!Next
<1> DEFINE t == call[p].task
<1>1. /\ pc[p] = "writing" /\ call[p].op = "reclaim"
      /\ WriteRecord(p, Freed(seen[p]))
      /\ pc' = [pc EXCEPT ![p] = "unlocking"]
      /\ lease' = lease /\ call' = call /\ claims' = claims /\ edits' = edits
  BY DEF WriteReclaim, WriteRecord
<1>2. t \in Tasks /\ Reclaimable(task[t], Expired(t, task[t]))
  BY <1>1, WriterKnows DEF Tests
<1>3. task[t].status = "in_progress"
  BY <1>2 DEF Reclaimable
<1>4. IInv' /\ task' = [task EXCEPT ![t] = Ledger!Freed(task[t])]
  BY <1>1, <1>3, FreeInv
<1>5. Ledger!Reclaimable(task[t], Ledger!Expired(t, task[t]))
  BY <1>2 DEF Reclaimable, Expired, Ledger!Reclaimable, Ledger!Expired,
     NoClaim, Ledger!NoClaim
<1>6. Ledger!Reclaim(t)
  BY <1>1, <1>4, <1>5 DEF Ledger!Reclaim
<1> QED BY <1>2, <1>4, <1>6 DEF Ledger!Next

LEMMA EditStep ==
  ASSUME IInv, NEW p \in Procs, WriteEdit(p)
  PROVE  IInv' /\ Ledger!Next
<1> DEFINE t == call[p].task
<1> PICK d \in {seen[p].deps} \cup DepChoices,
         c \in {seen[p].code} \cup CodeChoices :
      WriteRecord(p, Edited(seen[p], d, c))
  BY DEF WriteEdit
<1> DEFINE v == Edited(task[t], d, c)
<1>1. /\ pc[p] = "writing" /\ call[p].op = "edit"
      /\ edits < MaxEdits /\ edits' = edits + 1
      /\ pc' = [pc EXCEPT ![p] = "unlocking"]
      /\ lease' = lease /\ call' = call /\ claims' = claims
  BY DEF WriteEdit, WriteRecord
<1>2. /\ t \in Tasks /\ task[t] \in TaskRecord
      /\ seen[p] = task[t]
      /\ Exists(task[t])
  BY <1>1, WriterKnows DEF Tests
<1>3. d \in SUBSET Tasks /\ c \in BOOLEAN
  BY <1>2, BoardAssumption DEF TaskRecord
<1>4. WriteRecord(p, v) /\ task' = [task EXCEPT ![t] = v]
  BY <1>2 DEF WriteRecord
<1>5. /\ v \in TaskRecord
      /\ v.status = task[t].status /\ v.owner = task[t].owner
      /\ v.claim = task[t].claim
  BY <1>2, <1>3, RecordsKept, RecordFields
<1>6. v = Ledger!Edited(task[t], d, c) /\ Ledger!Exists(task[t])
  BY <1>2, LedgerAgrees
<1> HIDE DEF v
<1>7. Ledger!Edit(t, d, c)
  BY <1>1, <1>4, <1>6 DEF Ledger!Edit
<1>8. RecordsOK'
  BY <1>1, <1>2, <1>4, <1>5 DEF IInv, RecordsOK
<1>9. call' \in [Procs -> Call] /\ call'[p].op # "claim"
  BY <1>1 DEF IInv, TypeOK
<1>10. IInv'
  BY <1>1, <1>4, <1>5, <1>8, <1>9, WriteInv
<1> QED BY <1>2, <1>3, <1>7, <1>10 DEF Ledger!Next

LEMMA CrashStep ==
  ASSUME IInv, NEW p \in Procs, Crash(p)
  PROVE  IInv' /\ UNCHANGED ledgerVars
<1>1. UNCHANGED ledgerVars /\ UNCHANGED events
  BY DEF Crash, ledgerVars
<1>2. Return(p)
  BY DEF Crash
<1>3. /\ crashes' \in Nat
      /\ lock' \in [Tasks -> Procs \cup {NoProc, Orphan}]
      /\ \A q \in Procs, t \in Tasks :
           (lock'[t] = q) <=> (lock[t] = q /\ q # p)
  BY BoardAssumption DEF IInv, TypeOK, Crash
<1>4. TypeOK'
  BY <1>1, <1>2, <1>3, ReturnTypes DEF IInv, TypeOK, InBody
<1> QED BY <1>1, <1>2, <1>4, ReturnTypes, QuietStep

(* A new task: nobody is about to write it, as writers found their task.   *)
LEMMA CreateStep ==
  ASSUME IInv, NEW t \in Tasks, CreateTask(t)
  PROVE  IInv' /\ Ledger!Next
<1> PICK o \in Workers \cup {NoWorker}, d \in DepChoices, c \in CodeChoices :
      task' = [task EXCEPT ![t] = Created(o, d, c)]
  BY DEF CreateTask
<1> DEFINE v == Created(o, d, c)
<1>1. /\ ~Exists(task[t])
      /\ UNCHANGED <<lease, claims, edits, pc, call, seen, lock, events, crashes>>
  BY BoardAssumption DEF CreateTask, callVars
<1>2. d \in SUBSET Tasks /\ c \in BOOLEAN
  BY BoardAssumption
<1>3. /\ v \in TaskRecord
      /\ v.status = "pending" /\ v.claim = NoClaim
  BY <1>2 DEF Created, TaskRecord, Statuses, NoClaim
<1>4. v = Ledger!Created(o, d, c) /\ ~Ledger!Exists(task[t])
  BY <1>1, LedgerAgrees
<1> HIDE DEF v
<1>5. Ledger!Create(t, o, d, c)
  BY <1>1, <1>4 DEF Ledger!Create, v
<1>6. task' = [task EXCEPT ![t] = v]
  BY DEF v
<1>7. TypeOK' /\ ClaimersOK'
  BY <1>1 DEF IInv, TypeOK, ClaimersOK
<1>8. RecordsOK'
  BY <1>1, <1>3, <1>6 DEF IInv, RecordsOK
<1>9. ASSUME NEW q \in Procs, pc'[q] = "writing"
      PROVE  WriterOK(q)'
  <2>1. /\ WriterOK(q) /\ RecordsOK /\ call[q].task \in Tasks
        /\ Exists(task[call[q].task])
    BY <1>1, <1>9 DEF IInv, WritersOK, TypeOK, WriterOK, Tests, Claimable,
       Reclaimable, Exists
  <2>2. call[q].task # t
    BY <1>1, <2>1
  <2>3. task'[call[q].task] = task[call[q].task]
    BY <1>6, <2>1, <2>2 DEF RecordsOK
  <2>4. \A u \in Tasks :
          task[u].status = "completed" => task'[u].status = "completed"
    BY <1>1, <1>6, <2>1 DEF RecordsOK, Exists
  <2> QED BY <1>1, <2>1, <2>3, <2>4, WriterKept
<1>10. IInv'
  BY <1>7, <1>8, <1>9 DEF IInv, WritersOK
<1> QED BY <1>2, <1>5, <1>10 DEF Ledger!Next

LEMMA RecoverStep ==
  ASSUME IInv, NEW t \in Tasks, RecoverLock(t)
  PROVE  IInv' /\ UNCHANGED ledgerVars
<1>1. /\ UNCHANGED <<task, lease, claims, edits, pc, call, seen, events, crashes>>
      /\ UNCHANGED ledgerVars
      /\ lock[t] = Orphan
      /\ lock' = [lock EXCEPT ![t] = NoProc]
  BY DEF RecoverLock, callVars, ledgerVars
<1>2. TypeOK'
  BY <1>1, BoardAssumption DEF IInv, TypeOK
<1>3. RecordsOK' /\ ClaimersOK'
  BY <1>1 DEF IInv, RecordsOK, ClaimersOK
<1>4. WritersOK'
  BY <1>1 DEF IInv, WritersOK, WriterOK, Tests, Expired
<1> QED BY <1>1, <1>2, <1>3, <1>4 DEF IInv

LEMMA ExpireStep ==
  ASSUME IInv, NEW t \in Tasks, Expire(t)
  PROVE  IInv' /\ Ledger!Next
<1> PICK token \in lease[t] : lease' = [lease EXCEPT ![t] = @ \ {token}]
  BY DEF Expire
<1>1. UNCHANGED <<task, claims, edits, pc, call, seen, lock, events, crashes>>
  BY DEF Expire, callVars
<1>2. Ledger!Expire(t, token)
  BY <1>1 DEF Ledger!Expire
<1>3. TypeOK' /\ ClaimersOK'
  BY <1>1 DEF IInv, TypeOK, ClaimersOK
<1>4. RecordsOK' /\ \A u \in Tasks : lease'[u] \subseteq lease[u]
  BY <1>1 DEF IInv, RecordsOK
<1>5. ASSUME NEW q \in Procs, pc'[q] = "writing"
      PROVE  WriterOK(q)'
  <2>1. WriterOK(q) /\ RecordsOK /\ call[q].task \in Tasks
    BY <1>1, <1>5 DEF IInv, WritersOK, TypeOK
  <2> QED BY <1>1, <1>4, <2>1, WriterKept
<1>6. IInv'
  BY <1>3, <1>4, <1>5 DEF IInv, WritersOK
<1> QED BY <1>2, <1>6 DEF Ledger!Next

-----------------------------------------------------------------------------
LEMMA InitInv == Init => IInv /\ Ledger!Init
<1> SUFFICES ASSUME Init PROVE IInv /\ Ledger!Init
  OBVIOUS
<1>1. Ledger!Init /\ Ledger!Absent = Absent
  BY DEF Init, Ledger!Absent, Absent, Ledger!NoClaim, NoClaim
<1>2. /\ task = [t \in Tasks |-> Absent]
      /\ lease = [t \in Tasks |-> {}]
      /\ claims = 0 /\ edits = 0
  BY <1>1 DEF Ledger!Init
<1>3. /\ Absent \in TaskRecord
      /\ Absent.status = "absent" /\ Absent.claim = NoClaim
  BY DEF Absent, TaskRecord, Statuses, NoClaim
<1>4. NoCall \in Call /\ NoCall.op = "none"
  BY DEF NoCall, Call, Ops, NoClaim
<1>5. RecordsOK
  BY <1>2, <1>3 DEF RecordsOK
<1>6. TypeOK
  BY <1>3, <1>4, BoardAssumption DEF Init, TypeOK, PcStates, InBody
<1>7. ClaimersOK /\ WritersOK
  BY <1>4 DEF Init, ClaimersOK, WritersOK
<1> QED BY <1>1, <1>5, <1>6, <1>7 DEF IInv

(* Every step keeps the invariant, and is a step of the ledger or leaves   *)
(* the ledger alone.                                                       *)
LEMMA StepInv == IInv /\ [Next]_vars => IInv' /\ [Ledger!Next]_ledgerVars
<1> SUFFICES ASSUME IInv, [Next]_vars
             PROVE  IInv' /\ [Ledger!Next]_ledgerVars
  OBVIOUS
<1>1. CASE UNCHANGED vars
  BY <1>1 DEF vars, ledgerVars, IInv, TypeOK, RecordsOK, ClaimersOK,
     WritersOK, WriterOK, Tests, Expired
<1>2. ASSUME NEW p \in Procs, Step(p)
      PROVE  IInv' /\ [Ledger!Next]_ledgerVars
  <2>1. CASE Begin(p)
    BY <2>1, BeginInv
  <2>2. CASE Acquire(p) \/ Unlock(p)
    BY <2>2, LockSteps
  <2>3. CASE GiveUp(p) \/ Dispatch(p)
    BY <2>3, OutsideSteps DEF Dispatch
  <2>4. CASE Accept(p)
    BY <2>4, AcceptInv
  <2>5. CASE Reject(p) \/ OutOfBounds(p) \/ AppendEvent(p)
    BY <2>5, InsideSteps
  <2>6. CASE WriteClaim(p)
    BY <2>6, ClaimStep
  <2>7. CASE WriteFinish(p)
    BY <2>7, FinishStep
  <2>8. CASE WriteRelease(p)
    BY <2>8, ReleaseStep
  <2>9. CASE WriteReclaim(p)
    BY <2>9, ReclaimStep
  <2>10. CASE WriteEdit(p)
    BY <2>10, EditStep
  <2>11. CASE Crash(p)
    BY <2>11, CrashStep
  <2> QED
    BY <1>2, <2>1, <2>2, <2>3, <2>4, <2>5, <2>6, <2>7, <2>8, <2>9, <2>10,
       <2>11 DEF Step, Body
<1>3. ASSUME NEW t \in Tasks, World(t)
      PROVE  IInv' /\ [Ledger!Next]_ledgerVars
  <2>1. CASE CreateTask(t)
    BY <2>1, CreateStep
  <2>2. CASE RecoverLock(t)
    BY <2>2, RecoverStep
  <2>3. CASE Expire(t)
    BY <2>3, ExpireStep
  <2> QED BY <1>3, <2>1, <2>2, <2>3 DEF World
<1> QED BY <1>1, <1>2, <1>3 DEF Next

(* Types and lock discipline: for any number of callers and however they   *)
(* are killed, a caller inside a body of tasks.ts is the one the lock of   *)
(* its task names.                                                         *)
THEOREM BoardTypes == Spec => []TypeOK
<1>1. IInv => TypeOK
  BY DEF IInv
<1> QED BY <1>1, InitInv, StepInv, PTL DEF Spec

(* The calls of tasks.ts, interleaved and killed anywhere, behave as the   *)
(* atomic operations of TaskLedger.                                        *)
THEOREM BoardImplements == Spec => ImplementsLedger
<1>1. IInv /\ [Next]_vars => [Ledger!Next]_(Ledger!ledgerVars)
  BY StepInv DEF ledgerVars, Ledger!ledgerVars
<1> QED BY <1>1, InitInv, StepInv, PTL DEF Spec, ImplementsLedger, Ledger!Spec

-----------------------------------------------------------------------------
(* The theorems about the ledger, for the ledger that the calls implement. *)
LedgerProofs == INSTANCE TaskLedgerProofs

(* What the task API promises holds of its calls as tasks.ts runs them,    *)
(* step by step: leases are honoured, finished tasks stay as they are,     *)
(* work starts when its dependencies are completed, and the version counts *)
(* every change of a task file.                                            *)
THEOREM CallsKeepPromises ==
  Spec => /\ []Ledger!LeaseHonoured
          /\ Ledger!TerminalForever /\ Ledger!StartsReady /\ Ledger!VersionCountsChanges
<1> USE DEF Ledger!Expired, LedgerProofs!Expired, Ledger!ledgerVars, LedgerProofs!ledgerVars,
      Ledger!Terminal, LedgerProofs!Terminal, Ledger!NoClaim, LedgerProofs!NoClaim
<1>1. Ledger!Init => LedgerProofs!Init
  BY DEF Ledger!Init, LedgerProofs!Init, Ledger!Absent, LedgerProofs!Absent
<1>2. [Ledger!Next]_(Ledger!ledgerVars) => [LedgerProofs!Next]_(LedgerProofs!ledgerVars)
  BY DEF Ledger!Next, LedgerProofs!Next, Ledger!Create, LedgerProofs!Create,
         Ledger!Claim, LedgerProofs!Claim, Ledger!Finish, LedgerProofs!Finish,
         Ledger!Release, LedgerProofs!Release, Ledger!Reclaim, LedgerProofs!Reclaim,
         Ledger!Edit, LedgerProofs!Edit, Ledger!Expire, LedgerProofs!Expire,
         Ledger!Exists, LedgerProofs!Exists, Ledger!Created, LedgerProofs!Created,
         Ledger!Claimable, LedgerProofs!Claimable, Ledger!Ready, LedgerProofs!Ready,
         Ledger!Claimed, LedgerProofs!Claimed,
         Ledger!CanTransition, LedgerProofs!CanTransition,
         Ledger!HoldsClaim, LedgerProofs!HoldsClaim, Ledger!Finished, LedgerProofs!Finished,
         Ledger!Freed, LedgerProofs!Freed, Ledger!Reclaimable, LedgerProofs!Reclaimable,
         Ledger!Edited, LedgerProofs!Edited
<1>3. Ledger!Spec => LedgerProofs!Spec
  BY <1>1, <1>2, PTL DEF Ledger!Spec, LedgerProofs!Spec
<1>4. LedgerProofs!Spec => []LedgerProofs!LeaseHonoured
  BY LedgerProofs!LeasesHonoured, BoardAssumption, NoWorkerAssumption
<1>5. LedgerProofs!Spec => LedgerProofs!TerminalForever
  BY LedgerProofs!TerminalKept, BoardAssumption, NoWorkerAssumption
<1>6. LedgerProofs!Spec => LedgerProofs!StartsReady
  BY LedgerProofs!OnlyReadyStarts, BoardAssumption, NoWorkerAssumption
<1>7. LedgerProofs!Spec => LedgerProofs!VersionCountsChanges
  BY LedgerProofs!VersionsCount, BoardAssumption, NoWorkerAssumption
<1>8. LedgerProofs!LeaseHonoured => Ledger!LeaseHonoured
  BY DEF Ledger!LeaseHonoured, LedgerProofs!LeaseHonoured
<1>9. LedgerProofs!TerminalForever => Ledger!TerminalForever
  BY PTL DEF Ledger!TerminalForever, LedgerProofs!TerminalForever
<1>10. LedgerProofs!StartsReady => Ledger!StartsReady
  BY PTL DEF Ledger!StartsReady, LedgerProofs!StartsReady
<1>11. LedgerProofs!VersionCountsChanges => Ledger!VersionCountsChanges
  BY PTL DEF Ledger!VersionCountsChanges, LedgerProofs!VersionCountsChanges
<1> QED BY <1>3, <1>4, <1>5, <1>6, <1>7, <1>8, <1>9, <1>10, <1>11, BoardImplements, PTL DEF ImplementsLedger

-----------------------------------------------------------------------------
(* Which task a step changes, whom it moves, and where to.                 *)
Mover(p) ==
  \/ Begin(p) \/ Acquire(p) \/ GiveUp(p) \/ Dispatch(p)
  \/ Accept(p) \/ Reject(p) \/ OutOfBounds(p) \/ Unlock(p)

OthersStay(p) ==
  \A q \in Procs \ {p} : pc'[q] = pc[q] /\ call'[q] = call[q]

(* A caller that begins one of the operations starts to wait for the lock. *)
LEMMA BeginStarts ==
  ASSUME NEW p \in Procs, Begin(p)
  PROVE  \E c : Start(p, c)
BY DEF Begin, StartClaim, StartAssign, StartFinish, StartRelease, StartReclaim,
   StartEdit

LEMMA MoverEffect ==
  ASSUME IInv, NEW p \in Procs, Mover(p)
  PROVE  /\ UNCHANGED <<task, events, crashes>>
         /\ pc[p] # "event" /\ pc'[p] # "event"
         /\ OthersStay(p)
<1> USE DEF IInv, TypeOK, OthersStay
<1>1. CASE Begin(p)
  BY <1>1, BeginStarts DEF Start
<1>2. CASE Acquire(p) \/ Accept(p) \/ Reject(p) \/ OutOfBounds(p)
  BY <1>2 DEF Acquire, Accept, Reject, OutOfBounds
<1>3. CASE GiveUp(p)
  BY <1>3 DEF GiveUp, Return
<1>4. CASE Dispatch(p)
  BY <1>4 DEF Dispatch, AssignEdit, DispatchOk, DispatchFails, Return
<1>5. CASE Unlock(p)
  BY <1>5 DEF Unlock, Return
<1> QED BY <1>1, <1>2, <1>3, <1>4, <1>5 DEF Mover

Writer(p) ==
  WriteClaim(p) \/ WriteFinish(p) \/ WriteRelease(p) \/ WriteReclaim(p) \/ WriteEdit(p)

(* A write raises the version of one task, and only a finish of work in    *)
(* progress makes a task terminal.                                         *)
LEMMA WriterEffect ==
  ASSUME IInv, NEW p \in Procs, Writer(p)
  PROVE  /\ pc[p] = "writing" /\ call[p].task \in Tasks
         /\ task[call[p].task] \in TaskRecord
         /\ Exists(task[call[p].task]) /\ Exists(task'[call[p].task])
         /\ task'[call[p].task].version = task[call[p].task].version + 1
         /\ \A u \in Tasks \ {call[p].task} : task'[u] = task[u]
         /\ UNCHANGED <<lock, events, crashes>>
         /\ OthersStay(p)
         /\ call'[p].task = call[p].task
         /\ \/ /\ WriteFinish(p)
               /\ pc'[p] = "event"
               /\ task[call[p].task].status \notin Terminal
               /\ task'[call[p].task].status \in Terminal
            \/ /\ pc'[p] = "unlocking"
               /\ task'[call[p].task].status \in Terminal
                    <=> task[call[p].task].status \in Terminal
<1> DEFINE t == call[p].task
<1>1. pc[p] = "writing"
  BY DEF Writer, WriteClaim, WriteFinish, WriteRelease, WriteReclaim, WriteEdit,
     WriteRecord
<1>2. /\ t \in Tasks /\ task[t] \in TaskRecord /\ seen[p] = task[t]
      /\ Tests(p) /\ call[p] \in Call
  BY <1>1, WriterKnows
<1>3. ASSUME NEW v, WriteRecord(p, v)
      PROVE  /\ task'[t] = v /\ UNCHANGED <<lock, events, crashes>>
             /\ \A u \in Tasks \ {t} : task'[u] = task[u]
  BY <1>2, <1>3 DEF WriteRecord, IInv, RecordsOK
<1>4. /\ "in_progress" \notin Terminal /\ "pending" \notin Terminal
      /\ "absent" \notin Terminal
  BY DEF Terminal
<1>5. CASE WriteClaim(p)
  <2> DEFINE v == Claimed(task[t], call[p].worker, claims + 1)
  <2>1. WriteRecord(p, v)
    BY <1>2, <1>5 DEF WriteClaim
  <2>2. /\ v.status = "in_progress" /\ v.version = task[t].version + 1
        /\ task[t].status \in {"in_progress", "pending"}
    BY <1>2, <1>5 DEF WriteClaim, Claimed, TaskRecord, Tests, Claimable
  <2>3. /\ pc'[p] = "unlocking" /\ call'[p].task = t
        /\ \A q \in Procs \ {p} : pc'[q] = pc[q] /\ call'[q] = call[q]
    <3>1. [call[p] EXCEPT !.token = claims + 1].task = t
      BY <1>2 DEF Call
    <3>2. call' = [call EXCEPT ![p] = [call[p] EXCEPT !.token = claims + 1]]
      BY <1>5 DEF WriteClaim
    <3> QED BY <1>5, <3>1, <3>2 DEF WriteClaim, IInv, TypeOK
  <2> HIDE DEF v
  <2> QED BY <1>1, <1>2, <1>3, <1>4, <2>1, <2>2, <2>3 DEF Exists, OthersStay
<1>6. CASE WriteFinish(p)
  <2>1. PICK to \in Terminal : WriteRecord(p, Finished(task[t], to))
    BY <1>2, <1>6 DEF WriteFinish
  <2> DEFINE v == Finished(task[t], to)
  <2>2. /\ v.status = to /\ v.version = task[t].version + 1
        /\ task[t].status = "in_progress"
    BY <1>2, <1>6 DEF WriteFinish, Finished, TaskRecord, Tests
  <2>3. /\ pc'[p] = "event" /\ call' = call
        /\ \A q \in Procs \ {p} : pc'[q] = pc[q]
    BY <1>6 DEF WriteFinish, IInv, TypeOK
  <2>4. WriteRecord(p, v)
    BY <2>1
  <2> HIDE DEF v
  <2> QED
    BY <1>1, <1>2, <1>3, <1>4, <1>6, <2>2, <2>3, <2>4 DEF Exists, OthersStay
<1>7. CASE WriteRelease(p) \/ WriteReclaim(p)
  <2> DEFINE v == Freed(task[t])
  <2>1. WriteRecord(p, v)
    BY <1>2, <1>7 DEF WriteRelease, WriteReclaim
  <2>2. /\ v.status = "pending" /\ v.version = task[t].version + 1
        /\ task[t].status = "in_progress"
    BY <1>2, <1>7 DEF WriteRelease, WriteReclaim, Freed, TaskRecord, Tests,
       Reclaimable
  <2>3. /\ pc'[p] = "unlocking" /\ call' = call
        /\ \A q \in Procs \ {p} : pc'[q] = pc[q]
    BY <1>7 DEF WriteRelease, WriteReclaim, IInv, TypeOK
  <2> HIDE DEF v
  <2> QED BY <1>1, <1>2, <1>3, <1>4, <2>1, <2>2, <2>3 DEF Exists, OthersStay
<1>8. CASE WriteEdit(p)
  <2>1. PICK d \in {seen[p].deps} \cup DepChoices,
             c \in {seen[p].code} \cup CodeChoices :
          WriteRecord(p, Edited(task[t], d, c))
    BY <1>2, <1>8 DEF WriteEdit
  <2> DEFINE v == Edited(task[t], d, c)
  <2>2. /\ v.status = task[t].status /\ v.version = task[t].version + 1
        /\ Exists(task[t])
    BY <1>2, <1>8 DEF WriteEdit, Edited, TaskRecord, Tests
  <2>3. /\ pc'[p] = "unlocking" /\ call' = call
        /\ \A q \in Procs \ {p} : pc'[q] = pc[q]
    BY <1>8 DEF WriteEdit, IInv, TypeOK
  <2>4. WriteRecord(p, v)
    BY <2>1
  <2> HIDE DEF v
  <2> QED BY <1>1, <1>2, <1>3, <2>2, <2>3, <2>4 DEF Exists, OthersStay
<1> QED BY <1>5, <1>6, <1>7, <1>8 DEF Writer

(* The steps of the world around the callers.                              *)
LEMMA WorldEffect ==
  ASSUME IInv, NEW u \in Tasks, World(u)
  PROVE  /\ UNCHANGED <<pc, call, events, crashes>>
         /\ \/ UNCHANGED task
            \/ /\ ~Exists(task[u])
               /\ task'[u].status = "pending"
               /\ \A t \in Tasks \ {u} : task'[t] = task[t]
<1>1. CASE CreateTask(u)
  <2>1. PICK o \in Workers \cup {NoWorker}, d \in DepChoices, c \in CodeChoices :
          task' = [task EXCEPT ![u] = Created(o, d, c)]
    BY <1>1 DEF CreateTask
  <2>2. task'[u].status = "pending" /\ \A t \in Tasks \ {u} : task'[t] = task[t]
    BY <2>1 DEF Created, IInv, RecordsOK
  <2> QED BY <1>1, <2>2, BoardAssumption DEF CreateTask, callVars
<1>2. CASE RecoverLock(u) \/ Expire(u)
  BY <1>2 DEF RecoverLock, Expire, callVars
<1> QED BY <1>1, <1>2 DEF World

LEMMA StepKinds ==
  ASSUME Next
  PROVE  \/ \E p \in Procs : Mover(p) \/ Writer(p) \/ AppendEvent(p) \/ Crash(p)
         \/ \E u \in Tasks : World(u)
BY DEF Next, Step, Body, Mover, Writer

-----------------------------------------------------------------------------
(* A task with a caller about to append its event has none yet.            *)
Ending(p, t) == pc[p] = "event" /\ call[p].task = t

EventsOK(t) ==
  /\ events[t] \in {0, 1}
  /\ events[t] = 1 => task[t].status \in Terminal
  /\ \A p \in Procs : Ending(p, t) => events[t] = 0 /\ task[t].status \in Terminal
  /\ (task[t].status \in Terminal /\ events[t] = 0) =>
       (crashes > 0 \/ \E p \in Procs : Ending(p, t))

EventsInv == \A t \in Tasks : EventsOK(t)

LEMMA EventsInit == Init => EventsInv
<1> SUFFICES ASSUME Init, NEW t \in Tasks PROVE EventsOK(t)
  BY DEF EventsInv
<1>1. task[t] = Absent /\ Ledger!Absent = Absent
  BY DEF Init, Ledger!Init, Ledger!Absent, Absent, Ledger!NoClaim, NoClaim
<1>2. task[t].status \notin Terminal
  BY <1>1 DEF Absent, Terminal
<1> QED BY <1>2 DEF Init, EventsOK, Ending

LEMMA EventsStep == IInv /\ EventsInv /\ [Next]_vars => EventsInv'
<1> SUFFICES ASSUME IInv, EventsInv, [Next]_vars, NEW t \in Tasks
             PROVE  EventsOK(t)'
  BY DEF EventsInv
<1>0. EventsOK(t) /\ crashes \in Nat /\ events \in [Tasks -> Nat]
  BY DEF EventsInv, IInv, TypeOK
<1>1. CASE UNCHANGED vars
  BY <1>0, <1>1 DEF vars, EventsOK, Ending
<1>2. ASSUME NEW p \in Procs, Mover(p) PROVE EventsOK(t)'
  BY <1>0, <1>2, MoverEffect DEF EventsOK, Ending, OthersStay
<1>3. ASSUME NEW p \in Procs, Writer(p) PROVE EventsOK(t)'
  <2>1. CASE call[p].task = t
    <3>1. \A q \in Procs \ {p} : ~Ending(q, t) /\ ~Ending(q, t)'
      BY <1>3, <2>1, WriterEffect
      DEF IInv, TypeOK, Ending, InBody, OthersStay
    <3>2. ~Ending(p, t)
      BY <1>3, WriterEffect DEF Ending
    <3> QED BY <1>0, <1>3, <2>1, <3>1, <3>2, WriterEffect DEF EventsOK, Ending
  <2>2. CASE call[p].task # t
    BY <1>0, <1>3, <2>2, WriterEffect DEF EventsOK, Ending, OthersStay
  <2> QED BY <2>1, <2>2
<1>4. ASSUME NEW p \in Procs, AppendEvent(p) PROVE EventsOK(t)'
  <2>1. /\ pc[p] = "event" /\ pc' = [pc EXCEPT ![p] = "unlocking"]
        /\ events' = [events EXCEPT ![call[p].task] = @ + 1]
        /\ UNCHANGED <<task, call, crashes>>
        /\ pc \in [Procs -> PcStates]
    BY <1>4 DEF AppendEvent, IInv, TypeOK
  <2>2. CASE call[p].task = t
    <3>1. \A q \in Procs \ {p} : ~Ending(q, t)
      BY <2>1, <2>2 DEF IInv, TypeOK, Ending, InBody
    <3>2. events[t] = 0 /\ task[t].status \in Terminal /\ events'[t] = 1
      BY <1>0, <2>1, <2>2 DEF EventsOK, Ending
    <3> QED BY <2>1, <3>1, <3>2 DEF EventsOK, Ending
  <2>3. CASE call[p].task # t
    BY <1>0, <2>1, <2>3 DEF EventsOK, Ending
  <2> QED BY <2>2, <2>3
<1>5. ASSUME NEW p \in Procs, Crash(p) PROVE EventsOK(t)'
  <2>1. /\ crashes' = crashes + 1
        /\ pc' = [pc EXCEPT ![p] = "idle"]
        /\ call' = [call EXCEPT ![p] = NoCall]
        /\ UNCHANGED <<task, events>>
        /\ pc \in [Procs -> PcStates] /\ call \in [Procs -> Call]
    BY <1>5 DEF Crash, Return, IInv, TypeOK
  <2> QED BY <1>0, <2>1 DEF EventsOK, Ending
<1>6. ASSUME NEW u \in Tasks, World(u) PROVE EventsOK(t)'
  <2>1. "pending" \notin Terminal /\ "absent" \notin Terminal
    BY DEF Terminal
  <2> QED BY <1>0, <1>6, <2>1, WorldEffect DEF EventsOK, Ending, Exists
<1> QED BY <1>1, <1>2, <1>3, <1>4, <1>5, <1>6, StepKinds

(* A task never has two terminal events or one too early, and lacks its    *)
(* own only until its caller goes on, or for good if a caller was killed.  *)
THEOREM BoardEvents == Spec => []TerminalEventMatches
<1>1. IInv /\ EventsInv => TerminalEventMatches
  <2> SUFFICES ASSUME EventsInv
               PROVE  TerminalEventMatches
    OBVIOUS
  <2>1. ASSUME NEW t \in Tasks
        PROVE  events[t] <= 1
    <3>1. events[t] = 0 \/ events[t] = 1
      BY DEF EventsInv, EventsOK
    <3> QED BY <3>1
  <2> QED BY <2>1 DEF EventsInv, EventsOK, TerminalEventMatches, Ending
<1>2. Init => IInv /\ EventsInv
  BY InitInv, EventsInit
<1>3. (IInv /\ EventsInv) /\ [Next]_vars => (IInv /\ EventsInv)'
  BY StepInv, EventsStep
<1> QED BY <1>1, <1>2, <1>3, PTL DEF Spec

-----------------------------------------------------------------------------
(* An assignment waiting for the lock passed the gate on the version it    *)
(* expects; one about to write passed it on the record it will change.     *)
GateOK(p) ==
  LET t == call[p].task
  IN  call[p].assign /\ call[p].op = "claim" =>
        /\ pc[p] \in {"locking", "locked"} =>
             /\ Exists(task[t])
             /\ \E n \in call[p].ver :
                  /\ n <= task[t].version
                  /\ n = task[t].version /\ task[t].code => t \in Approved
        /\ pc[p] = "writing" => (task[t].code => t \in Approved)

GateInv == \A p \in Procs : GateOK(p)

LEMMA GateInit == Init => GateInv
BY DEF Init, GateInv, GateOK, NoCall

(* The gate passed by a caller stays passed when its task is not changed,  *)
(* or is changed before it holds the lock, which raises the version.       *)
LEMMA GateKept ==
  ASSUME IInv, NEW q \in Procs, GateOK(q), call[q].task \in Tasks \/ pc[q] = "idle",
         pc'[q] = pc[q], call'[q] = call[q],
         \/ task'[call[q].task] = task[call[q].task]
         \/ /\ pc[q] # "writing"
            /\ Exists(task[call[q].task]) => Exists(task'[call[q].task])
            /\ Exists(task[call[q].task]) =>
                 task'[call[q].task].version = task[call[q].task].version + 1
  PROVE  GateOK(q)'
<1> DEFINE t == call[q].task
<1>1. CASE pc[q] = "idle"
  BY <1>1 DEF GateOK
<1>2. CASE t \in Tasks
  <2>1. task[t].version \in Nat /\ call[q].ver \in SUBSET Nat
    BY <1>2 DEF IInv, RecordsOK, TypeOK, TaskRecord, Call
  <2>2. CASE task'[t] = task[t]
    BY <2>2 DEF GateOK
  <2>3. CASE /\ pc[q] # "writing"
             /\ Exists(task[t]) => Exists(task'[t])
             /\ Exists(task[t]) => task'[t].version = task[t].version + 1
    BY <2>1, <2>3 DEF GateOK
  <2> QED BY <2>2, <2>3
<1> QED BY <1>1, <1>2

(* The caller that moves: it begins, gets on with its call, or leaves it.  *)
LEMMA GateMover ==
  ASSUME IInv, NEW p \in Procs, GateOK(p), Mover(p)
  PROVE  GateOK(p)'
<1>0. /\ pc \in [Procs -> PcStates] /\ call \in [Procs -> Call]
      /\ UNCHANGED task
  BY MoverEffect DEF IInv, TypeOK
<1>1. CASE Begin(p)
  <2>1. CASE \E t \in Tasks, w \in Workers : StartAssign(p, t, w)
    <3> PICK t \in Tasks, w \in Workers : StartAssign(p, t, w)
      BY <2>1
    <3> DEFINE c == [NoCall EXCEPT !.op = "claim", !.task = t, !.worker = w,
                                   !.ver = {task[t].version}, !.assign = TRUE]
    <3>1. /\ Exists(task[t])
          /\ task[t].code => t \in Approved
          /\ pc'[p] = "locking" /\ call'[p] = c
      BY <1>0 DEF StartAssign, Start
    <3>2. c.task = t /\ c.ver = {task[t].version}
      BY DEF NoCall
    <3>3. task[t].version \in Nat
      BY DEF IInv, RecordsOK, TaskRecord
    <3> HIDE DEF c
    <3>4. /\ call'[p].task = t /\ pc'[p] = "locking"
          /\ task' = task
          /\ task[t].version \in call'[p].ver
          /\ task[t].version <= task[t].version
      BY <1>0, <3>1, <3>2, <3>3
    <3>5. /\ Exists(task'[t])
          /\ \E n \in call'[p].ver :
               /\ n <= task'[t].version
               /\ n = task'[t].version /\ task'[t].code => t \in Approved
      BY <3>1, <3>4
    <3> QED BY <3>4, <3>5 DEF GateOK
  <2>2. ASSUME NEW c, Start(p, c), ~c.assign
        PROVE  GateOK(p)'
    BY <1>0, <2>2 DEF Start, GateOK
  <2>3. ASSUME NEW t \in Tasks, NEW w \in Workers, StartClaim(p, t, w)
        PROVE  GateOK(p)'
    <3> PICK ver \in {{}, {task[t].version}} :
           Start(p, [NoCall EXCEPT !.op = "claim", !.task = t, !.worker = w,
                                   !.ver = ver])
      BY <2>3 DEF StartClaim
    <3>1. ~[NoCall EXCEPT !.op = "claim", !.task = t, !.worker = w,
                          !.ver = ver].assign
      BY DEF NoCall
    <3> QED BY <2>2, <3>1
  <2>4. ASSUME NEW t \in Tasks, NEW token \in 1..claims,
               StartFinish(p, t, token) \/ StartRelease(p, t, token)
        PROVE  GateOK(p)'
    <3>1. ~[NoCall EXCEPT !.op = "finish", !.task = t, !.token = token].assign
      BY DEF NoCall
    <3>2. ~[NoCall EXCEPT !.op = "release", !.task = t, !.token = token].assign
      BY DEF NoCall
    <3> QED BY <2>2, <2>4, <3>1, <3>2 DEF StartFinish, StartRelease
  <2>5. ASSUME NEW t \in Tasks, StartReclaim(p, t) \/ StartEdit(p, t)
        PROVE  GateOK(p)'
    <3>1. ~[NoCall EXCEPT !.op = "reclaim", !.task = t].assign
      BY DEF NoCall
    <3>2. ~[NoCall EXCEPT !.op = "edit", !.task = t].assign
      BY DEF NoCall
    <3> QED BY <2>2, <2>5, <3>1, <3>2 DEF StartReclaim, StartEdit
  <2> QED BY <1>1, <2>1, <2>3, <2>4, <2>5 DEF Begin
<1>2. CASE Acquire(p)
  BY <1>0, <1>2 DEF Acquire, GateOK
<1>3. CASE Accept(p)
  <2>1. /\ pc[p] = "locked" /\ pc'[p] = "writing" /\ call' = call
        /\ Passes(p)
    BY <1>0, <1>3 DEF Accept
  <2>2. call[p].op = "claim" => call[p].ver \subseteq {task[call[p].task].version}
    BY <2>1 DEF Passes, VersionMatches
  <2> QED BY <1>0, <2>1, <2>2 DEF GateOK
<1>4. CASE Reject(p) \/ OutOfBounds(p)
  BY <1>0, <1>4 DEF Reject, OutOfBounds, GateOK
<1>5. CASE GiveUp(p) \/ Dispatch(p) \/ Unlock(p)
  <2>1. \/ pc'[p] \in {"idle", "dispatching"}
        \/ \E o \in {"edit", "release"} : call' = [call EXCEPT ![p].op = o]
    BY <1>0, <1>5 DEF GiveUp, Dispatch, AssignEdit, DispatchOk, DispatchFails,
       Unlock, Return
  <2>2. pc'[p] \in {"idle", "dispatching"} \/ call'[p].op # "claim"
    BY <2>1, RelabelTypes
  <2> QED BY <2>2 DEF GateOK
<1> QED BY <1>1, <1>2, <1>3, <1>4, <1>5 DEF Mover

LEMMA GateStep == IInv /\ GateInv /\ [Next]_vars => GateInv'
<1> SUFFICES ASSUME IInv, GateInv, [Next]_vars, NEW q \in Procs
             PROVE  GateOK(q)'
  BY DEF GateInv
<1>0. GateOK(q) /\ (call[q].task \in Tasks \/ pc[q] = "idle")
  BY DEF GateInv, IInv, TypeOK
<1>1. CASE UNCHANGED vars
  BY <1>0, <1>1 DEF vars, GateOK
<1>2. ASSUME NEW p \in Procs, Mover(p) PROVE GateOK(q)'
  <2>1. CASE p = q
    BY <1>0, <1>2, <2>1, GateMover
  <2>2. CASE p # q
    BY <1>0, <1>2, <2>2, MoverEffect, GateKept DEF OthersStay
  <2> QED BY <2>1, <2>2
<1>3. ASSUME NEW p \in Procs, Writer(p) PROVE GateOK(q)'
  <2>1. CASE p = q
    BY <1>3, <2>1, WriterEffect DEF GateOK
  <2>2. CASE p # q
    <3>1. pc'[q] = pc[q] /\ call'[q] = call[q]
      BY <1>3, <2>2, WriterEffect DEF OthersStay
    <3>2. CASE call[q].task # call[p].task /\ call[q].task \in Tasks
      BY <1>0, <1>3, <3>1, <3>2, WriterEffect, GateKept
    <3>3. CASE call[q].task = call[p].task
      <4>1. pc[q] # "writing"
        BY <1>3, <2>2, <3>3, WriterEffect DEF IInv, TypeOK, InBody
      <4> QED BY <1>0, <1>3, <3>1, <3>3, <4>1, WriterEffect, GateKept
    <3>4. CASE pc[q] = "idle"
      BY <3>1, <3>4 DEF GateOK
    <3> QED BY <1>0, <3>2, <3>3, <3>4
  <2> QED BY <2>1, <2>2
<1>4. ASSUME NEW p \in Procs, AppendEvent(p) PROVE GateOK(q)'
  BY <1>0, <1>4 DEF AppendEvent, GateOK, IInv, TypeOK
<1>5. ASSUME NEW p \in Procs, Crash(p) PROVE GateOK(q)'
  BY <1>0, <1>5 DEF Crash, Return, GateOK, IInv, TypeOK
<1>6. ASSUME NEW u \in Tasks, World(u) PROVE GateOK(q)'
  <2>1. pc'[q] = pc[q] /\ call'[q] = call[q]
    BY <1>6, WorldEffect
  <2>2. CASE pc[q] = "writing"
    <3>1. Exists(task[call[q].task]) \/ call[q].op # "claim"
      BY <2>2, WriterKnows DEF Tests, Claimable, Exists
    <3>2. CASE task'[call[q].task] = task[call[q].task]
      BY <1>0, <2>1, <3>2, GateKept
    <3>3. CASE ~Exists(task[call[q].task])
      BY <2>1, <3>1, <3>3 DEF GateOK
    <3> QED BY <1>0, <1>6, <2>2, <3>2, <3>3, WorldEffect
  <2>3. CASE pc[q] # "writing" /\ call[q].task \in Tasks
    BY <1>0, <1>6, <2>1, <2>3, WorldEffect, GateKept
  <2>4. CASE pc[q] = "idle"
    BY <2>1, <2>4 DEF GateOK
  <2> QED BY <1>0, <2>2, <2>3, <2>4
<1> QED BY <1>1, <1>2, <1>3, <1>4, <1>5, <1>6, StepKinds

(* Code work is never assigned without an approval, although the gate is   *)
(* evaluated on a record read before the lock is held.                     *)
THEOREM BoardGate == Spec => AssignedWorkApproved
<1> DEFINE Approves ==
      \A p \in Procs :
        (/\ call[p].assign /\ pc[p] = "writing" /\ call[p].op = "claim"
         /\ call'[p].token # NoClaim
         /\ task[call[p].task].code)
        => call[p].task \in Approved
<1>1. GateInv => Approves
  BY DEF GateInv, GateOK
<1>2. Init => IInv /\ GateInv
  BY InitInv, GateInit
<1>3. (IInv /\ GateInv) /\ [Next]_vars => (IInv /\ GateInv)'
  BY StepInv, GateStep
<1> QED BY <1>1, <1>2, <1>3, PTL DEF Spec, AssignedWorkApproved
=============================================================================
