-------------------------- MODULE CompletionEvents --------------------------
(***************************************************************************)
(* Who announces that a task was completed.  transitionTaskStatus appends  *)
(* a task_completed event under the task's claim lock, and afterwards,     *)
(* without any lock, marks the task in monitor-snapshot.json.  monitorTeam *)
(* compares the tasks with the snapshot of the previous poll and announces *)
(* the completions it finds unmarked, so that a completion whose caller    *)
(* was killed is not lost.  Both sides read the whole snapshot, work, and  *)
(* write the whole snapshot back.                                          *)
(*                                                                         *)
(* Claims and leases are in TaskBoard: here any call on an unfinished task *)
(* may complete it, and any call may be rejected.  Both sides tell apart   *)
(* completed tasks from all others only, so pending, in progress and       *)
(* failed are one status, "unfinished".                                    *)
(***************************************************************************)
EXTENDS Naturals

CONSTANTS
  Tasks,
  Callers,   \* transitionTaskStatus calls with to = 'completed'
  Monitors,  \* monitorTeam polls that may overlap (CLI commands, leader)
  NoTask,
  MaxCalls, MaxCrashes   \* bounds

ASSUME EventsAssumption ==
  /\ Callers \cap Monitors = {}
  /\ NoTask \notin Tasks
  /\ MaxCalls \in Nat /\ MaxCrashes \in Nat

VARIABLES
  status,   \* task id -> status in the task file
  events,   \* task id -> task_completed events in events.ndjson
  snap,     \* monitor-snapshot.json
  pc,       \* where each call or poll is
  on,       \* caller -> task id of the call
  held,     \* the snapshot each of them read
  view,     \* monitor -> the statuses it listed
  todo,     \* monitor -> tasks it still has to announce
  calls, crashes,
  raced     \* history: two of them have overlapped, or one was killed

vars == <<status, events, snap, pc, on, held, view, todo, calls, crashes, raced>>

Procs == Callers \cup Monitors
Statuses == {"unfinished", "completed"}

(* taskStatusById and completedEventTaskIds.  A missing file reads like a  *)
(* snapshot that knows no task.                                            *)
Snapshot == [known : [Tasks -> Statuses \cup {"unknown"}], marked : SUBSET Tasks]
NoSnapshot == [known |-> [t \in Tasks |-> "unknown"], marked |-> {}]
NoView == [t \in Tasks |-> "unknown"]

Init ==
  /\ status = [t \in Tasks |-> "unfinished"]
  /\ events = [t \in Tasks |-> 0]
  /\ snap = NoSnapshot
  /\ pc = [p \in Procs |-> "idle"]
  /\ on = [c \in Callers |-> NoTask]
  /\ held = [p \in Procs |-> NoSnapshot]
  /\ view = [m \in Monitors |-> NoView]
  /\ todo = [m \in Monitors |-> {}]
  /\ calls = 0 /\ crashes = 0
  /\ raced = FALSE

(* The claim lock of t is held by a call that wrote and has not unlocked.  *)
Locked(t) == \E c \in Callers : pc[c] = "announcing" /\ on[c] = t

Goto(p, place) == pc' = [pc EXCEPT ![p] = place]
NoteOverlap(p) == raced' = (raced \/ \E q \in Procs \ {p} : pc[q] # "idle")

-----------------------------------------------------------------------------
(* A call gets the claim lock.                                             *)
BeginCall(c, t) ==
  /\ pc[c] = "idle"
  /\ calls < MaxCalls
  /\ ~Locked(t)
  /\ calls' = calls + 1
  /\ on' = [on EXCEPT ![c] = t]
  /\ NoteOverlap(c)
  /\ UNCHANGED <<events, snap, held, view, todo, crashes>>

(* Re-read, checks passed, task file written.                              *)
Complete(c, t) ==
  /\ BeginCall(c, t)
  /\ status[t] = "unfinished"
  /\ status' = [status EXCEPT ![t] = "completed"]
  /\ Goto(c, "announcing")

(* Fault: the event is appended on the error paths too.                    *)
RejectedAnnounces(c, t) ==
  /\ BeginCall(c, t)
  /\ Goto(c, "announcing")
  /\ UNCHANGED status

(* An error result inside the lock: already_terminal, claim_conflict,      *)
(* lease_expired, invalid_transition or missing evidence.  The call goes   *)
(* on to mark the task all the same.                                       *)
Rejected(c, t) ==
  /\ BeginCall(c, t)
  /\ Goto(c, "unlocked")
  /\ UNCHANGED status

(* appendTeamEvent, and the lock is released.                              *)
Announce(c) ==
  /\ pc[c] = "announcing"
  /\ events' = [events EXCEPT ![on[c]] = @ + 1]
  /\ Goto(c, "unlocked")
  /\ UNCHANGED <<status, snap, on, held, view, todo, calls, crashes, raced>>

ReadSnapshot(c) ==
  /\ pc[c] = "unlocked"
  /\ held' = [held EXCEPT ![c] = snap]
  /\ Goto(c, "marking")
  /\ UNCHANGED <<status, events, snap, on, view, todo, calls, crashes, raced>>

CallReturns(c) ==
  /\ Goto(c, "idle")
  /\ held' = [held EXCEPT ![c] = NoSnapshot]
  /\ on' = [on EXCEPT ![c] = NoTask]

(* Fault: the call returns without marking the task.                       *)
MarkNothing(c) ==
  /\ pc[c] = "marking"
  /\ CallReturns(c)
  /\ UNCHANGED <<status, events, snap, view, todo, calls, crashes, raced>>

Mark(c) ==
  /\ pc[c] = "marking"
  /\ snap' = [held[c] EXCEPT !.marked = @ \cup {on[c]}]
  /\ CallReturns(c)
  /\ UNCHANGED <<status, events, view, todo, calls, crashes, raced>>

-----------------------------------------------------------------------------
(* monitorTeam reads the previous snapshot first ...                       *)
Poll(m) ==
  /\ pc[m] = "idle"
  /\ held' = [held EXCEPT ![m] = snap]
  /\ Goto(m, "polling")
  /\ NoteOverlap(m)
  /\ UNCHANGED <<status, events, snap, on, view, todo, calls, crashes>>

(* emitMonitorDerivedEvents: known before, not as completed, completed now *)
(* and not marked by the previous snapshot.                                *)
Due(previous, now) ==
  {t \in Tasks : /\ previous.known[t] = "unfinished"
                 /\ now[t] = "completed"
                 /\ t \notin previous.marked}

(* ... then lists the tasks, last after its own assignments ...            *)
List(m) ==
  /\ pc[m] = "polling"
  /\ view' = [view EXCEPT ![m] = status]
  /\ todo' = [todo EXCEPT ![m] = Due(held[m], status)]
  /\ Goto(m, "emitting")
  /\ UNCHANGED <<status, events, snap, on, held, calls, crashes, raced>>

(* ... appends the missing events one after the other ...                  *)
Emit(m, t) ==
  /\ pc[m] = "emitting"
  /\ t \in todo[m]
  /\ events' = [events EXCEPT ![t] = @ + 1]
  /\ todo' = [todo EXCEPT ![m] = @ \ {t}]
  /\ UNCHANGED <<status, snap, pc, on, held, view, calls, crashes, raced>>

PollReturns(m) ==
  /\ Goto(m, "idle")
  /\ held' = [held EXCEPT ![m] = NoSnapshot]
  /\ view' = [view EXCEPT ![m] = NoView]

(* Fault: the snapshot is written without waiting for the events.          *)
SaveEarly(m) ==
  /\ pc[m] = "emitting"
  /\ snap' = [known |-> view[m], marked |-> held[m].marked]
  /\ PollReturns(m)
  /\ UNCHANGED <<status, events, on, todo, calls, crashes, raced>>

(* ... and at the end writes what it saw, with the marks it read at the    *)
(* beginning.                                                              *)
Save(m) ==
  /\ pc[m] = "emitting"
  /\ todo[m] = {}
  /\ snap' = [known |-> view[m], marked |-> held[m].marked]
  /\ PollReturns(m)
  /\ UNCHANGED <<status, events, on, todo, calls, crashes, raced>>

(* A process is killed between two steps.                                  *)
Crash(p) ==
  /\ pc[p] # "idle"
  /\ crashes < MaxCrashes
  /\ crashes' = crashes + 1
  /\ raced' = TRUE
  /\ Goto(p, "idle")
  /\ held' = [held EXCEPT ![p] = NoSnapshot]
  /\ on' = [c \in Callers |-> IF c = p THEN NoTask ELSE on[c]]
  /\ view' = [m \in Monitors |-> IF m = p THEN NoView ELSE view[m]]
  /\ todo' = [m \in Monitors |-> IF m = p THEN {} ELSE todo[m]]
  /\ UNCHANGED <<status, events, snap, calls>>

CallStep(c) ==
  \/ \E t \in Tasks : Complete(c, t) \/ Rejected(c, t)
  \/ Announce(c) \/ ReadSnapshot(c) \/ Mark(c)

PollStep(m) ==
  Poll(m) \/ List(m) \/ (\E t \in Tasks : Emit(m, t)) \/ Save(m)

Next ==
  \/ \E c \in Callers : CallStep(c)
  \/ \E m \in Monitors : PollStep(m)
  \/ \E p \in Procs : Crash(p)

Spec == Init /\ [][Next]_vars

(* Polls are repeated and run to their end, and so do calls once begun.    *)
FairSpec ==
  /\ Spec
  /\ \A m \in Monitors : WF_vars(PollStep(m))
  /\ \A c \in Callers : WF_vars(Announce(c) \/ ReadSnapshot(c) \/ Mark(c))

-----------------------------------------------------------------------------
(* Types; a call has a task while it runs, and a poll leaves no event      *)
(* unwritten when it ends.                                                 *)
TypeOK ==
  /\ status \in [Tasks -> Statuses]
  /\ events \in [Tasks -> Nat]
  /\ snap \in Snapshot
  /\ pc \in [Procs -> {"idle", "announcing", "unlocked", "marking",
                       "polling", "emitting"}]
  /\ on \in [Callers -> Tasks \cup {NoTask}]
  /\ held \in [Procs -> Snapshot]
  /\ view \in [Monitors -> [Tasks -> Statuses \cup {"unknown"}]]
  /\ todo \in [Monitors -> SUBSET Tasks]
  /\ calls \in Nat /\ crashes \in Nat /\ raced \in BOOLEAN
  /\ \A c \in Callers : (pc[c] # "idle") <=> (on[c] # NoTask)
  /\ \A m \in Monitors : todo[m] # {} => pc[m] = "emitting"

(* Nothing is announced that is not on disk as completed, by whichever     *)
(* side and from however old a snapshot.                                   *)
AnnouncedIsCompleted ==
  \A t \in Tasks :
    (events[t] > 0 \/ \E m \in Monitors : t \in todo[m]) =>
      status[t] = "completed"

(* Calls and polls that never overlap announce every completion exactly    *)
(* once: what the issue #161 test of runtime.test.ts shows for one order   *)
(* of calls holds for every such order.                                    *)
OnceUnlessRaced ==
  (~raced /\ \A p \in Procs : pc[p] = "idle") =>
    \A t \in Tasks : events[t] = IF status[t] = "completed" THEN 1 ELSE 0

(* A completion whose caller was killed before the event is announced by   *)
(* the monitor, if the snapshot on disk and those in flight knew the task  *)
(* unfinished, unless some later call marks it.                            *)
KnewUnfinished(s, t) ==
  s.known[t] = "unfinished" /\ t \notin s.marked

Lost(t) ==
  /\ status[t] = "completed" /\ events[t] = 0 /\ ~Locked(t)
  /\ KnewUnfinished(snap, t)
  /\ \A p \in Procs : pc[p] \in {"marking", "polling", "emitting"} =>
       KnewUnfinished(held[p], t)

LostEventRecovered ==
  \A t \in Tasks : Lost(t) ~> (events[t] > 0 \/ t \in snap.marked)

(* The comment on completedEventTaskIds in state.ts: marked are the tasks  *)
(* for which a task_completed event has already been emitted.              *)
MarkerMeansEmitted == \A t \in snap.marked : events[t] > 0
=============================================================================
