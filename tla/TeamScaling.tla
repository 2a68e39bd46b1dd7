---------------------------- MODULE TeamScaling ----------------------------
(***************************************************************************)
(* The team's configuration: scaleUp and scaleDown (scaling.ts), which add *)
(* and remove workers under the scaling lock, and createTask (state.ts),   *)
(* which numbers tasks under the team lock.  All of them read the whole    *)
(* configuration, and later write the whole configuration.                 *)
(*                                                                         *)
(* manifest.v2.json is what is read, and what every write brings up to     *)
(* date; it and config.json are one here.  Each lock has one holder        *)
(* (Mutex), until it is five minutes old: then it is taken for abandoned,  *)
(* whether its holder was killed or not.  Some file operations under the   *)
(* team lock do not last that long, a scaleUp of several workers may.      *)
(***************************************************************************)
EXTENDS Naturals, FiniteSets

CONSTANTS
  Scalers,       \* callers of scaleUp and scaleDown
  Creators,      \* callers of createTask outside scaleUp
  NoProc,        \* nobody
  InitialCount,  \* workers the team was started with
  MaxWorkers,    \* max_workers
  MaxCount,      \* bound: workers one scaleUp asks for
  MaxIndex,      \* bound: worker indices
  MaxPanes,      \* bound: panes ever made
  MaxTask,       \* bound: task ids
  MaxFaults      \* bound: killed scalers, and locks that a scaler outlasted

Procs == Scalers \cup Creators

ASSUME ScalingAssumption ==
  /\ Scalers \cap Creators = {}
  /\ NoProc \notin Procs
  /\ InitialCount \in Nat \ {0} /\ MaxWorkers \in Nat /\ InitialCount <= MaxWorkers
  /\ MaxCount \in Nat /\ MaxIndex \in Nat /\ InitialCount <= MaxIndex /\ MaxPanes \in Nat
  /\ MaxTask \in Nat /\ MaxFaults \in Nat

VARIABLES
  config,    \* workers (index and pane), next_worker_index, next_task_id
  tasks,     \* tasks[id]: who made the file task-<id>.json, or nobody
  panes,     \* live worker panes
  lastPane,  \* tmux numbers panes, and never twice
  scaling,   \* the scaling lock
  team,      \* the team lock
  pc,
  copy,      \* copy[s]: the configuration a scaler works on
  draft,     \* draft[p]: the configuration createTask has read, and the id
  want,      \* want[s]: workers and tasks a scaleUp still has to add
  mine,      \* mine[s]: workers added, or workers to remove
  fresh,     \* fresh[s]: the worker whose pane is not in the configuration yet
  made,      \* made[s]: ids of the tasks a scaleUp created
  faults,
  astray     \* history: a write undid another one, a pane was lost track of,
             \* or a scaler was killed or lost the lock

vars == <<config, tasks, panes, lastPane, scaling, team, pc, copy, draft, want,
          mine, fresh, made, faults, astray>>
scaler == <<copy, want, mine, fresh, made>>

Workers == [index : 1..MaxIndex, pane : Nat]
NoCopy == [workers |-> {}, nextIndex |-> 0, nextTask |-> 0]
NoDraft == [cfg |-> NoCopy, id |-> 0]

Goto(p, from, to) == pc[p] = from /\ pc' = [pc EXCEPT ![p] = to]

(* A write of cfg by someone who read basis.                               *)
Undoes(basis) ==
  <<config.workers, config.nextIndex>> # <<basis.workers, basis.nextIndex>>
Write(cfg, basis) ==
  /\ config' = cfg
  /\ astray' = (astray \/ Undoes(basis))

(* A scaler that is done, or dead, works on nothing.                       *)
Forget(s) ==
  /\ copy' = [copy EXCEPT ![s] = NoCopy]
  /\ want' = [want EXCEPT ![s] = [workers |-> 0, tasks |-> 0]]
  /\ mine' = [mine EXCEPT ![s] = {}]
  /\ fresh' = [fresh EXCEPT ![s] = {}]
  /\ made' = [made EXCEPT ![s] = {}]

(* The directory of the lock is removed only when it has the own token.    *)
Release(s) == Forget(s) /\ scaling' = IF scaling = s THEN NoProc ELSE scaling

-----------------------------------------------------------------------------
Init ==
  /\ config = [workers |-> {[index |-> i, pane |-> i] : i \in 1..InitialCount},
               nextIndex |-> InitialCount + 1, nextTask |-> 1]
  /\ tasks = [id \in 1..MaxTask |-> NoProc]
  /\ panes = config.workers
  /\ lastPane = InitialCount
  /\ scaling = NoProc
  /\ team = NoProc
  /\ pc = [p \in Procs |-> "idle"]
  /\ copy = [s \in Scalers |-> NoCopy]
  /\ draft = [p \in Procs |-> NoDraft]
  /\ want = [s \in Scalers |-> [workers |-> 0, tasks |-> 0]]
  /\ mine = [s \in Scalers |-> {}]
  /\ fresh = [s \in Scalers |-> {}]
  /\ made = [s \in Scalers |-> {}]
  /\ faults = 0
  /\ astray = FALSE

-----------------------------------------------------------------------------
(* createTask, by itself or inside scaleUp.                                *)

Filed == {id \in 1..MaxTask : tasks[id] # NoProc}

(* Fault: the counter alone names the task.                                *)
IsNextIdByCount(id) == id = config.nextTask

(* The counter, or what the directory calls for when that is higher.       *)
IsNextId(id) ==
  /\ id >= config.nextTask /\ \A other \in Filed : id > other
  /\ id = config.nextTask \/ \E other \in Filed : id = other + 1

Wants(p) == IF p \in Scalers THEN pc[p] = "growing" /\ want[p].tasks > 0
                             ELSE pc[p] = "idle"

ReadForTask(p) ==
  /\ Wants(p)
  /\ team = NoProc
  /\ team' = p
  /\ \E id \in 1..MaxTask :
       /\ IsNextId(id)
       /\ draft' = [draft EXCEPT ![p] = [cfg |-> config, id |-> id]]
  /\ pc' = [pc EXCEPT ![p] = "filing"]
  /\ UNCHANGED <<config, tasks, panes, lastPane, scaling, scaler, faults, astray>>

WriteTask(p) ==
  /\ Goto(p, "filing", "numbering")
  /\ tasks' = [tasks EXCEPT ![draft[p].id] = p]
  /\ UNCHANGED <<config, panes, lastPane, scaling, team, draft, scaler, faults, astray>>

WriteNextTask(p) ==
  /\ Goto(p, "numbering", IF p \in Scalers THEN "growing" ELSE "idle")
  /\ Write([draft[p].cfg EXCEPT !.nextTask = draft[p].id + 1], draft[p].cfg)
  /\ team' = NoProc
  /\ draft' = [draft EXCEPT ![p] = NoDraft]
  /\ IF p \in Scalers
     THEN /\ want' = [want EXCEPT ![p].tasks = @ - 1]
          /\ made' = [made EXCEPT ![p] = @ \cup {draft[p].id}]
     ELSE UNCHANGED <<want, made>>
  /\ UNCHANGED <<tasks, panes, lastPane, scaling, copy, mine, fresh, faults>>

CreateTask(p) == ReadForTask(p) \/ WriteTask(p) \/ WriteNextTask(p)

-----------------------------------------------------------------------------
(* Fault: the scaling lock is not taken.                                   *)
StartUpAnyway(s) ==
  /\ Goto(s, "idle", "growing")
  /\ copy' = [copy EXCEPT ![s] = config]
  /\ want' = [want EXCEPT ![s] = [workers |-> 1, tasks |-> 0]]
  /\ config.nextIndex <= MaxIndex /\ Cardinality(config.workers) < MaxWorkers
  /\ UNCHANGED <<config, tasks, panes, lastPane, scaling, team, draft, mine, fresh, made, faults, astray>>

(* scaleUp: first the tasks, then one worker at a time.                    *)
StartUp(s) ==
  /\ Goto(s, "idle", "growing")
  /\ scaling = NoProc
  /\ scaling' = s
  /\ copy' = [copy EXCEPT ![s] = config]
  /\ \E workers \in 1..MaxCount, new \in 0..1 :
       /\ Cardinality(config.workers) + workers <= MaxWorkers
       /\ config.nextIndex + workers - 1 <= MaxIndex
       /\ want' = [want EXCEPT ![s] = [workers |-> workers, tasks |-> new]]
  /\ UNCHANGED <<config, tasks, panes, lastPane, team, draft, mine, fresh, made, faults, astray>>

Split(s) ==
  /\ Goto(s, "growing", "dispatching")
  /\ want[s].tasks = 0
  /\ lastPane < MaxPanes
  /\ lastPane' = lastPane + 1
  /\ fresh' = [fresh EXCEPT ![s] = {[index |-> copy[s].nextIndex, pane |-> lastPane + 1]}]
  /\ panes' = panes \cup fresh'[s]
  /\ UNCHANGED <<config, tasks, scaling, team, copy, draft, want, mine, made, faults, astray>>

(* The pane is there, but tmux's answer does not name it.                  *)
SplitUncaptured(s) ==
  /\ Goto(s, "growing", "undoing")
  /\ want[s].tasks = 0
  /\ lastPane < MaxPanes
  /\ lastPane' = lastPane + 1
  /\ panes' = panes \cup {[index |-> copy[s].nextIndex, pane |-> lastPane + 1]}
  /\ astray' = TRUE
  /\ UNCHANGED <<config, tasks, scaling, team, draft, scaler, faults>>

(* tmux refuses the pane, or the worker's inbox cannot be dispatched.      *)
GrowFails(s) ==
  /\ \/ Goto(s, "growing", "undoing") /\ want[s].tasks = 0
     \/ Goto(s, "dispatching", "undoing")
  /\ UNCHANGED <<config, tasks, panes, lastPane, scaling, team, draft, scaler, faults, astray>>

(* Fault: next_worker_index is not written with the worker.                *)
AddedSameIndex(cfg, new) == [cfg EXCEPT !.workers = @ \cup new]

Added(cfg, new) ==
  [cfg EXCEPT !.workers = @ \cup new, !.nextIndex = @ + 1]

AddWorker(s) ==
  /\ Goto(s, "dispatching", IF want[s].workers = 1 THEN "idle" ELSE "growing")
  /\ Write(Added(copy[s], fresh[s]), copy[s])
  /\ IF want[s].workers = 1
     THEN Release(s)
     ELSE /\ copy' = [copy EXCEPT ![s] = config']
          /\ mine' = [mine EXCEPT ![s] = @ \cup fresh[s]]
          /\ fresh' = [fresh EXCEPT ![s] = {}]
          /\ want' = [want EXCEPT ![s].workers = @ - 1]
          /\ UNCHANGED <<made, scaling>>
  /\ UNCHANGED <<tasks, panes, lastPane, team, draft, faults>>

(* Something throws: the team lock's or the dispatch lock's deadline, or a *)
(* file that cannot be written.  scaleUp undoes nothing then.              *)
Throws(s) ==
  /\ \/ Goto(s, "growing", "idle") /\ want[s].tasks > 0
     \/ Goto(s, "dispatching", "idle")
  /\ astray' = (astray \/ fresh[s] # {})
  /\ Release(s)
  /\ UNCHANGED <<config, tasks, panes, lastPane, team, draft, faults>>

(* Fault: the pane that is not in the configuration yet is forgotten.      *)
UndoPanesAdded(s) ==
  /\ Goto(s, "undoing", "deleting")
  /\ panes' = panes \ mine[s]
  /\ UNCHANGED <<config, tasks, lastPane, scaling, team, draft, scaler, faults, astray>>

(* rollbackScaleUp: panes, then task files, then the configuration.        *)
UndoPanes(s) ==
  /\ Goto(s, "undoing", "deleting")
  /\ panes' = panes \ (mine[s] \cup fresh[s])
  /\ UNCHANGED <<config, tasks, lastPane, scaling, team, draft, scaler, faults, astray>>

DeleteTasks(s) ==
  /\ Goto(s, "deleting", "restoring")
  /\ tasks' = [id \in 1..MaxTask |-> IF id \in made[s] THEN NoProc ELSE tasks[id]]
  /\ UNCHANGED <<config, panes, lastPane, scaling, team, draft, scaler, faults, astray>>

(* Every added worker moved next_worker_index by one.                      *)
RestoreConfig(s) ==
  /\ Goto(s, "restoring", "idle")
  /\ Write([copy[s] EXCEPT !.workers = @ \ mine[s],
                           !.nextIndex = @ - Cardinality(mine[s])], copy[s])
  /\ Release(s)
  /\ UNCHANGED <<tasks, panes, lastPane, team, draft, faults>>

ScaleUp(s) ==
  \/ StartUp(s) \/ Split(s) \/ SplitUncaptured(s) \/ GrowFails(s) \/ AddWorker(s)
  \/ Throws(s) \/ UndoPanes(s) \/ DeleteTasks(s) \/ RestoreConfig(s)

-----------------------------------------------------------------------------
(* Fault: the guard counts the workers, not those that stay.               *)
KeepsOneCounted(removed) == Cardinality(config.workers) >= 1 /\ removed # {}

KeepsOne(removed) ==
  removed # {} /\ Cardinality(config.workers) - Cardinality(removed) >= 1

(* scaleDown: workers by name, or idle ones, or any by force.              *)
StartDown(s) ==
  /\ Goto(s, "idle", "draining")
  /\ scaling = NoProc
  /\ scaling' = s
  /\ copy' = [copy EXCEPT ![s] = config]
  /\ \E removed \in SUBSET config.workers :
       /\ KeepsOne(removed)
       /\ mine' = [mine EXCEPT ![s] = removed]
  /\ UNCHANGED <<config, tasks, panes, lastPane, team, draft, want, fresh, made, faults, astray>>

(* The wait ends with the status it wrote itself, by force or in time.     *)
Teardown(s) ==
  /\ Goto(s, "draining", "removing")
  /\ panes' = panes \ mine[s]
  /\ UNCHANGED <<config, tasks, lastPane, scaling, team, draft, scaler, faults, astray>>

RemoveWorkers(s) ==
  /\ Goto(s, "removing", "idle")
  /\ Write([copy[s] EXCEPT !.workers = @ \ mine[s]], copy[s])
  /\ Release(s)
  /\ UNCHANGED <<tasks, panes, lastPane, team, draft, faults>>

(* The worktrees cannot be removed: the configuration keeps the workers.   *)
RemovalFails(s) ==
  /\ Goto(s, "removing", "idle")
  /\ Release(s)
  /\ UNCHANGED <<config, tasks, panes, lastPane, team, draft, faults, astray>>

ScaleDown(s) == StartDown(s) \/ Teardown(s) \/ RemoveWorkers(s) \/ RemovalFails(s)

-----------------------------------------------------------------------------
(* (A pane whose worker ends by itself needs no action: nothing above      *)
(* reads panes, and what is said of them below says less of fewer.)        *)
Crash(s) ==
  /\ pc[s] \notin {"idle", "dead"}
  /\ faults < MaxFaults
  /\ faults' = faults + 1
  /\ pc' = [pc EXCEPT ![s] = "dead"]
  /\ draft' = [draft EXCEPT ![s] = NoDraft]
  /\ Forget(s)
  /\ astray' = TRUE
  /\ UNCHANGED <<config, tasks, panes, lastPane, scaling, team>>

(* The scaling lock goes by the age of its directory alone, and a scaleUp  *)
(* waits for every worker in turn: a live holder can lose it.              *)
OutlastLock ==
  /\ scaling # NoProc /\ pc[scaling] # "dead"
  /\ faults < MaxFaults
  /\ faults' = faults + 1
  /\ scaling' = NoProc
  /\ astray' = TRUE
  /\ UNCHANGED <<config, tasks, panes, lastPane, team, pc, draft, scaler>>

RecoverLocks ==
  /\ \E s \in Scalers : pc[s] = "dead" /\ s \in {scaling, team}
  /\ scaling' = IF scaling # NoProc /\ pc[scaling] = "dead" THEN NoProc ELSE scaling
  /\ team' = IF team # NoProc /\ pc[team] = "dead" THEN NoProc ELSE team
  /\ UNCHANGED <<config, tasks, panes, lastPane, pc, draft, scaler, faults, astray>>

Finished == (\A p \in Procs : pc[p] \in {"idle", "dead"}) /\ UNCHANGED vars

Next ==
  \/ \E p \in Procs : CreateTask(p)
  \/ \E s \in Scalers : ScaleUp(s) \/ ScaleDown(s) \/ Crash(s)
  \/ OutlastLock
  \/ RecoverLocks
  \/ Finished

Spec == Init /\ [][Next]_vars

-----------------------------------------------------------------------------
Growing == {"growing", "dispatching", "undoing", "deleting", "restoring"}
Filing == {"filing", "numbering"}
Points == {"idle", "dead", "draining", "removing"} \cup Growing \cup Filing
Cfgs == [workers : SUBSET Workers, nextIndex : 0..(MaxIndex + 1), nextTask : 0..(MaxTask + 1)]

(* Types, and who holds which lock where; a scaler that outlasted its lock *)
(* goes on without it.                                                     *)
TypeOK ==
  /\ config \in Cfgs
  /\ tasks \in [1..MaxTask -> Procs \cup {NoProc}]
  /\ panes \subseteq Workers
  /\ lastPane \in Nat
  /\ scaling \in Scalers \cup {NoProc} /\ team \in Procs \cup {NoProc}
  /\ pc \in [Procs -> Points]
  /\ copy \in [Scalers -> Cfgs]
  /\ draft \in [Procs -> [cfg : Cfgs, id : 0..MaxTask]]
  /\ want \in [Scalers -> [workers : 0..MaxCount, tasks : 0..1]]
  /\ mine \in [Scalers -> SUBSET Workers]
  /\ fresh \in [Scalers -> SUBSET Workers]
  /\ made \in [Scalers -> SUBSET (1..MaxTask)]
  /\ faults \in 0..MaxFaults /\ astray \in BOOLEAN
  /\ \A p \in Procs : pc[p] \in Filing => team = p
  /\ ~astray => \A s \in Scalers : pc[s] # "idle" => scaling = s

(* "Monotonic worker index counter (next_worker_index in config) ensures   *)
(* unique names" (scaling.ts): no two live panes run under one name.       *)
NamesUnique == \A v, w \in panes : v.index = w.index => v = w

(* That holds as long as no write undid another one, no scaler was killed  *)
(* or outlasted its lock, and none lost track of a pane it had made: by    *)
(* throwing before it wrote it down, or because tmux did not name it.      *)
NamesUniqueUnlessAstray == ~astray => NamesUnique

(* Then also every live pane is one the configuration knows, so that it is *)
(* monitored and shut down, or one that a scaleUp is about to write down.  *)
PanesListed ==
  ~astray => panes \subseteq config.workers \cup UNION {fresh[s] : s \in Scalers}

(* Whatever is undone, killed or stolen: the configuration always has a worker and *)
(* never more than max_workers.                                            *)
TeamSize ==
  /\ config.workers # {}
  /\ Cardinality(config.workers) <= MaxWorkers

(* A task file is never replaced by another task, although scaleUp writes  *)
(* back an old next_task_id; and it is deleted only by the rollback of the *)
(* scaleUp that made it.                                                   *)
TasksKept ==
  [][\A id \in Filed :
       \/ tasks'[id] = tasks[id]
       \/ (tasks'[id] = NoProc /\ pc[tasks[id]] = "deleting")]_tasks
=============================================================================
