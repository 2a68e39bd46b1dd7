----------------------- MODULE CompletionEventsProofs -----------------------
(***************************************************************************)
(* For any number of tasks, calls and polls, however they overlap or are   *)
(* killed: types, and that nothing is announced that is not completed;     *)
(* and for calls and polls that do not overlap, that every completion is   *)
(* announced exactly once.                                                 *)
(***************************************************************************)
EXTENDS CompletionEvents, TLAPS

LEMMA NoSnapshotTyped ==
  NoSnapshot \in Snapshot /\ NoView \in [Tasks -> Statuses \cup {"unknown"}]
BY DEF NoSnapshot, NoView, Snapshot, Statuses

LEMMA TypeInit == Init => TypeOK
<1> SUFFICES ASSUME Init PROVE TypeOK
  OBVIOUS
<1>1. /\ status \in [Tasks -> Statuses] /\ events \in [Tasks -> Nat]
      /\ calls \in Nat /\ crashes \in Nat /\ raced \in BOOLEAN
  BY DEF Init, Statuses
<1>2. /\ snap \in Snapshot /\ held \in [Procs -> Snapshot]
      /\ view \in [Monitors -> [Tasks -> Statuses \cup {"unknown"}]]
      /\ todo \in [Monitors -> SUBSET Tasks]
  BY NoSnapshotTyped DEF Init
<1>3. \A c \in Callers : pc[c] = "idle" /\ on[c] = NoTask
  BY DEF Init, Procs
<1> QED BY <1>1, <1>2, <1>3 DEF Init, TypeOK

(* A caller's step, and that of a poll, move that process alone.           *)
LEMMA TypeCall ==
  ASSUME TypeOK, NEW c \in Callers, CallStep(c)
  PROVE  TypeOK'
<1> USE EventsAssumption DEF TypeOK, Procs, Goto, NoteOverlap
<1>1. ASSUME NEW t \in Tasks, Complete(c, t)
      PROVE  TypeOK'
  BY <1>1 DEF Complete, BeginCall, Statuses
<1>2. ASSUME NEW t \in Tasks, Rejected(c, t)
      PROVE  TypeOK'
  BY <1>2 DEF Rejected, BeginCall
<1>3. CASE Announce(c)
  BY <1>3 DEF Announce
<1>4. CASE ReadSnapshot(c)
  BY <1>4 DEF ReadSnapshot
<1>5. CASE Mark(c)
  <2>1. on[c] \in Tasks /\ held[c] \in Snapshot
    BY <1>5 DEF Mark
  <2>2. [held[c] EXCEPT !.marked = @ \cup {on[c]}] \in Snapshot
    BY <2>1 DEF Snapshot
  <2> QED BY <1>5, <2>2, NoSnapshotTyped DEF Mark, CallReturns
<1> QED BY <1>1, <1>2, <1>3, <1>4, <1>5 DEF CallStep

LEMMA TypePoll ==
  ASSUME TypeOK, NEW m \in Monitors, PollStep(m)
  PROVE  TypeOK'
<1> USE EventsAssumption DEF TypeOK, Procs, Goto, NoteOverlap
<1>1. CASE Poll(m)
  BY <1>1 DEF Poll
<1>2. CASE List(m)
  <2>1. Due(held[m], status) \in SUBSET Tasks
    BY DEF Due
  <2> QED BY <1>2, <2>1 DEF List, Statuses
<1>3. ASSUME NEW t \in Tasks, Emit(m, t)
      PROVE  TypeOK'
  BY <1>3 DEF Emit
<1>4. CASE Save(m)
  <2>1. [known |-> view[m], marked |-> held[m].marked] \in Snapshot
    BY DEF Snapshot
  <2> QED BY <1>4, <2>1, NoSnapshotTyped DEF Save, PollReturns
<1> QED BY <1>1, <1>2, <1>3, <1>4 DEF PollStep

LEMMA TypeCrash ==
  ASSUME TypeOK, NEW p \in Procs, Crash(p)
  PROVE  TypeOK'
<1>1. /\ pc' = [pc EXCEPT ![p] = "idle"]
      /\ held' = [held EXCEPT ![p] = NoSnapshot]
      /\ crashes' = crashes + 1 /\ raced' = TRUE
      /\ UNCHANGED <<status, events, snap, calls>>
  BY DEF Crash, Goto
<1>2. /\ on' \in [Callers -> Tasks \cup {NoTask}]
      /\ view' \in [Monitors -> [Tasks -> Statuses \cup {"unknown"}]]
      /\ todo' \in [Monitors -> SUBSET Tasks]
  BY NoSnapshotTyped DEF Crash, TypeOK
<1>3. /\ \A c \in Callers : (pc'[c] # "idle") <=> (on'[c] # NoTask)
      /\ \A m \in Monitors : todo'[m] # {} => pc'[m] = "emitting"
  BY <1>1, EventsAssumption DEF Crash, TypeOK, Procs
<1> QED BY <1>1, <1>2, <1>3, NoSnapshotTyped DEF TypeOK

LEMMA TypeStep == TypeOK /\ [Next]_vars => TypeOK'
<1> SUFFICES ASSUME TypeOK, [Next]_vars PROVE TypeOK'
  OBVIOUS
<1>1. CASE UNCHANGED vars
  BY <1>1 DEF vars, TypeOK
<1> QED BY <1>1, TypeCall, TypePoll, TypeCrash DEF Next

(* A call has a task while it runs, and no poll ends with an event left.   *)
THEOREM EventsTypes == Spec => []TypeOK
BY TypeInit, TypeStep, PTL DEF Spec

-----------------------------------------------------------------------------
(* Completed is for good, and who is about to announce has it on disk.     *)
Founded ==
  /\ TypeOK
  /\ AnnouncedIsCompleted
  /\ \A c \in Callers : pc[c] = "announcing" => status[on[c]] = "completed"

LEMMA FoundedInit == Init => Founded
BY TypeInit, EventsAssumption DEF Init, Founded, AnnouncedIsCompleted, Procs

LEMMA FoundedStep == Founded /\ [Next]_vars => Founded'
<1> SUFFICES ASSUME Founded, [Next]_vars PROVE Founded'
  OBVIOUS
<1>0. TypeOK /\ TypeOK'
  BY TypeStep DEF Founded
<1> USE EventsAssumption DEF Founded, AnnouncedIsCompleted
<1>1. CASE UNCHANGED vars
  BY <1>0, <1>1 DEF vars
<1>2. ASSUME NEW c \in Callers, NEW t \in Tasks, Complete(c, t)
      PROVE  Founded'
  BY <1>0, <1>2 DEF Complete, BeginCall, Goto, TypeOK, Procs
<1>3. ASSUME NEW c \in Callers, NEW t \in Tasks, Rejected(c, t)
      PROVE  Founded'
  BY <1>0, <1>3 DEF Rejected, BeginCall, Goto, TypeOK, Procs
<1>4. ASSUME NEW c \in Callers, Announce(c)
      PROVE  Founded'
  BY <1>0, <1>4 DEF Announce, Goto, TypeOK, Procs
<1>5. ASSUME NEW c \in Callers, ReadSnapshot(c) \/ Mark(c)
      PROVE  Founded'
  BY <1>0, <1>5 DEF ReadSnapshot, Mark, CallReturns, Goto, TypeOK, Procs
<1>6. ASSUME NEW m \in Monitors, Poll(m) \/ Save(m)
      PROVE  Founded'
  BY <1>0, <1>6 DEF Poll, Save, PollReturns, Goto, TypeOK, Procs
<1>7. ASSUME NEW m \in Monitors, List(m)
      PROVE  Founded'
  <2>1. \A t \in Due(held[m], status) : status[t] = "completed"
    BY DEF Due
  <2> QED BY <1>0, <1>7, <2>1 DEF List, Goto, TypeOK, Procs
<1>8. ASSUME NEW m \in Monitors, NEW t \in Tasks, Emit(m, t)
      PROVE  Founded'
  <2>1. status[t] = "completed"
    BY <1>8 DEF Emit
  <2> QED BY <1>0, <1>8, <2>1 DEF Emit, TypeOK, Procs
<1>9. ASSUME NEW p \in Procs, Crash(p)
      PROVE  Founded'
  <2>1. /\ UNCHANGED <<status, events>>
        /\ \A c \in Callers : pc'[c] = "announcing" =>
             pc[c] = "announcing" /\ on'[c] = on[c]
        /\ \A m \in Monitors : todo'[m] \subseteq todo[m]
    BY <1>0, <1>9 DEF Crash, Goto, TypeOK, Procs
  <2> QED BY <1>0, <2>1
<1> QED
  BY <1>1, <1>2, <1>3, <1>4, <1>5, <1>6, <1>7, <1>8, <1>9
  DEF Next, CallStep, PollStep

(* From however old a snapshot, and wherever it is killed: neither side    *)
(* announces a task that is not completed on disk.                         *)
THEOREM AnnouncementsFounded == Spec => []AnnouncedIsCompleted
<1>1. Founded => AnnouncedIsCompleted
  BY DEF Founded
<1> QED BY <1>1, FoundedInit, FoundedStep, PTL DEF Spec

-----------------------------------------------------------------------------
(* One at a time: every completion is announced by its call and marked     *)
(* before the next begins, so a poll never finds one to announce.          *)
InCall(c, t) == pc[c] # "idle" /\ on[c] = t

Serial ==
  /\ \A p, q \in Procs : pc[p] # "idle" /\ pc[q] # "idle" => p = q
  /\ \A m \in Monitors : todo[m] = {}
  /\ \A p \in Procs : pc[p] \in {"marking", "polling", "emitting"} =>
       held[p].marked = snap.marked
  /\ \A c \in Callers : pc[c] \in {"idle", "announcing", "unlocked", "marking"}
  /\ \A m \in Monitors : pc[m] \in {"idle", "polling", "emitting"}
  /\ \A t \in Tasks :
       /\ status[t] = "completed" =>
            t \in snap.marked \/ \E c \in Callers : InCall(c, t)
       /\ events[t] = IF /\ status[t] = "completed"
                         /\ \A c \in Callers : pc[c] = "announcing" => on[c] # t
                      THEN 1 ELSE 0

SerialInv == Founded /\ (~raced => Serial)

LEMMA SerialInit == Init => SerialInv
<1> SUFFICES ASSUME Init PROVE Serial
  BY FoundedInit DEF SerialInv
<1>1. \A p \in Procs : pc[p] = "idle"
  BY DEF Init
<1> QED BY <1>1 DEF Init, Serial, Procs

LEMMA SerialCall ==
  ASSUME Founded, Serial, NEW c \in Callers, CallStep(c), ~raced'
  PROVE  Serial'
<1>0. TypeOK
  BY DEF Founded
<1> USE EventsAssumption, <1>0 DEF TypeOK, Procs, Goto, InCall
<1>1. ASSUME NEW t \in Tasks, Complete(c, t) \/ Rejected(c, t)
      PROVE  Serial'
  <2>1. /\ \A p \in Procs : pc[p] = "idle"
        /\ on' = [on EXCEPT ![c] = t]
        /\ UNCHANGED <<events, snap, held, todo>>
    BY <1>1 DEF Complete, Rejected, BeginCall, NoteOverlap
  <2>2. \A p \in Procs \ {c} : pc'[p] = "idle"
    BY <1>1, <2>1 DEF Complete, Rejected
  <2>3. CASE Complete(c, t)
    <3>1. /\ pc'[c] = "announcing" /\ on'[c] = t
          /\ status[t] = "unfinished" /\ status'[t] = "completed"
          /\ \A u \in Tasks \ {t} : status'[u] = status[u]
          /\ \A u \in Tasks : status[u] = "completed" => u \in snap.marked
      BY <2>1, <2>3 DEF Complete, Serial, Statuses
    <3>2. \A u \in Tasks : events[u] = IF status[u] = "completed" THEN 1 ELSE 0
      BY <2>1 DEF Serial
    <3>3. ASSUME NEW u \in Tasks
          PROVE  events'[u] = IF /\ status'[u] = "completed"
                                 /\ \A d \in Callers : pc'[d] = "announcing" => on'[d] # u
                              THEN 1 ELSE 0
      BY <2>1, <2>2, <3>1, <3>2
    <3> QED BY <2>1, <2>2, <3>1, <3>3 DEF Serial
  <2>4. CASE Rejected(c, t)
    BY <2>1, <2>2, <2>4 DEF Rejected, Serial
  <2> QED BY <1>1, <2>3, <2>4
<1>2. CASE Announce(c)
  <2>1. /\ pc[c] = "announcing" /\ pc' = [pc EXCEPT ![c] = "unlocked"]
        /\ on[c] \in Tasks /\ status[on[c]] = "completed"
        /\ events' = [events EXCEPT ![on[c]] = @ + 1]
        /\ UNCHANGED <<status, snap, on, held, todo>>
    BY <1>2 DEF Announce, Founded
  <2>2. events[on[c]] = 0 /\ \A p \in Procs \ {c} : pc[p] = "idle"
    BY <2>1 DEF Serial
  <2> QED BY <2>1, <2>2 DEF Serial
<1>3. CASE ReadSnapshot(c)
  BY <1>3 DEF ReadSnapshot, Serial
<1>4. CASE Mark(c)
  <2>1. /\ pc[c] = "marking" /\ pc' = [pc EXCEPT ![c] = "idle"]
        /\ \A p \in Procs \ {c} : pc[p] = "idle"
        /\ held[c] \in Snapshot /\ held[c].marked = snap.marked
        /\ UNCHANGED <<status, events, todo>>
    BY <1>4 DEF Mark, CallReturns, Serial
  <2>2. snap'.marked = snap.marked \cup {on[c]}
    BY <1>4, <2>1 DEF Mark, Snapshot
  <2>3. \A p \in Procs : pc'[p] = "idle"
    BY <2>1
  <2> QED BY <2>1, <2>2, <2>3 DEF Serial
<1> QED BY <1>1, <1>2, <1>3, <1>4 DEF CallStep

LEMMA SerialPoll ==
  ASSUME Founded, Serial, NEW m \in Monitors, PollStep(m), ~raced'
  PROVE  Serial'
<1>0. TypeOK
  BY DEF Founded
<1> USE EventsAssumption, <1>0 DEF TypeOK, Procs, Goto, InCall
<1>1. CASE Poll(m)
  <2>1. \A p \in Procs : pc[p] = "idle"
    BY <1>1 DEF Poll, NoteOverlap
  <2> QED BY <1>1, <2>1 DEF Poll, Serial
<1>2. CASE List(m)
  <2>1. /\ pc[m] = "polling" /\ pc' = [pc EXCEPT ![m] = "emitting"]
        /\ todo' = [todo EXCEPT ![m] = Due(held[m], status)]
        /\ UNCHANGED <<status, events, snap, on, held>>
    BY <1>2 DEF List
  <2>2. \A p \in Procs \ {m} : pc[p] = "idle"
    BY <2>1 DEF Serial
  <2>3. \A t \in Tasks : status[t] = "completed" => t \in held[m].marked
    BY <2>1, <2>2 DEF Serial
  <2>4. Due(held[m], status) = {}
    BY <2>3 DEF Due
  <2> QED BY <2>1, <2>2, <2>4 DEF Serial
<1>3. ASSUME NEW t \in Tasks, Emit(m, t)
      PROVE  FALSE
  BY <1>3 DEF Emit, Serial
<1>4. CASE Save(m)
  <2>1. /\ pc[m] = "emitting" /\ pc' = [pc EXCEPT ![m] = "idle"]
        /\ snap' = [known |-> view[m], marked |-> held[m].marked]
        /\ UNCHANGED <<status, events, on, todo>>
    BY <1>4 DEF Save, PollReturns
  <2>2. /\ snap'.marked = snap.marked
        /\ \A p \in Procs \ {m} : pc[p] = "idle"
    BY <2>1 DEF Serial
  <2>3. \A p \in Procs : pc'[p] = "idle"
    BY <2>1, <2>2
  <2> QED BY <2>1, <2>2, <2>3 DEF Serial
<1> QED BY <1>1, <1>2, <1>3, <1>4 DEF PollStep

LEMMA SerialStep == SerialInv /\ [Next]_vars => SerialInv'
<1> SUFFICES ASSUME SerialInv, [Next]_vars, ~raced'
             PROVE  Serial'
  BY FoundedStep DEF SerialInv
<1>1. CASE UNCHANGED vars
  BY <1>1 DEF vars, SerialInv, Serial, InCall
<1>2. ASSUME NEW c \in Callers, CallStep(c)
      PROVE  Serial'
  <2>1. ~raced
    BY <1>2 DEF CallStep, Complete, Rejected, BeginCall, NoteOverlap, Announce,
       ReadSnapshot, Mark, SerialInv, Founded, TypeOK
  <2> QED BY <1>2, <2>1, SerialCall DEF SerialInv
<1>3. ASSUME NEW m \in Monitors, PollStep(m)
      PROVE  Serial'
  <2>1. ~raced
    BY <1>3 DEF PollStep, Poll, NoteOverlap, List, Emit, Save, SerialInv,
       Founded, TypeOK
  <2> QED BY <1>3, <2>1, SerialPoll DEF SerialInv
<1> QED BY <1>1, <1>2, <1>3 DEF Next, Crash

(* Calls and polls that never overlap, in whatever order they come,        *)
(* announce every completion exactly once.                                 *)
THEOREM OnceIfSerial == Spec => []OnceUnlessRaced
<1>1. SerialInv => OnceUnlessRaced
  BY DEF SerialInv, Serial, OnceUnlessRaced, Procs
<1> QED BY <1>1, SerialInit, SerialStep, PTL DEF Spec
=============================================================================
