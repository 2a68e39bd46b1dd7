------------------------- MODULE TeamScalingProofs -------------------------
(***************************************************************************)
(* For any scalers, creators and bounds, and whatever writes undo each     *)
(* other: the types of TeamScaling, the size of the team, and that no task *)
(* file is replaced.                                                       *)
(***************************************************************************)
EXTENDS TeamScaling, FiniteSetTheorems, TLAPS

(* A configuration that may be written as it is: it has a worker, not too  *)
(* many, and none in a pane that tmux has still to make.                   *)
Sized(cfg) ==
  /\ IsFiniteSet(cfg.workers) /\ cfg.workers # {}
  /\ Cardinality(cfg.workers) <= MaxWorkers
  /\ cfg.nextIndex >= 1
  /\ \A w \in cfg.workers : w.pane <= lastPane

Building == {"growing", "dispatching"} \cup Filing

(* A scaleUp can always take back what it added, and keep a worker.        *)
GrowOK(s) ==
  pc[s] \in Growing \cup Filing =>
    /\ Sized(copy[s])
    /\ IsFiniteSet(mine[s]) /\ Cardinality(mine[s]) < copy[s].nextIndex
    /\ ~(copy[s].workers \subseteq mine[s])

(* What it still has to add fits.                                          *)
RoomOK(s) ==
  /\ pc[s] \in Building =>
       /\ want[s].workers >= 1
       /\ Cardinality(copy[s].workers) + want[s].workers <= MaxWorkers
       /\ copy[s].nextIndex + want[s].workers <= MaxIndex + 1
  /\ pc[s] \in Filing => want[s].tasks = 1

(* The pane it has made is a new one.                                      *)
FreshOK(s) ==
  pc[s] = "dispatching" =>
    \E w \in fresh[s] : fresh[s] = {w} /\ w \notin copy[s].workers /\ w.pane <= lastPane

DownOK(s) ==
  pc[s] \in {"draining", "removing"} =>
    Sized(copy[s]) /\ ~(copy[s].workers \subseteq mine[s])

(* The id createTask has taken is free until it makes the file.            *)
DraftOK(p) ==
  pc[p] \in Filing =>
    /\ Sized(draft[p].cfg)
    /\ draft[p].id \in 1..MaxTask
    /\ tasks[draft[p].id] = (IF pc[p] = "filing" THEN NoProc ELSE p)

(* Until it deletes them, the tasks a scaleUp made are there.              *)
MadeOK(s) ==
  pc[s] \in Building \cup {"undoing", "deleting"} => \A id \in made[s] : tasks[id] = s

IdleOK(s) == pc[s] = "idle" => mine[s] = {} /\ made[s] = {}

Typed ==
  /\ config \in Cfgs
  /\ tasks \in [1..MaxTask -> Procs \cup {NoProc}]
  /\ panes \subseteq Workers
  /\ lastPane \in Nat
  /\ scaling \in Scalers \cup {NoProc} /\ team \in Procs \cup {NoProc}
  /\ pc \in [Procs -> Points]
  /\ copy \in [Scalers -> Cfgs]
  /\ draft \in [Procs -> [cfg : Cfgs, id : 0..MaxTask]]
  /\ want \in [Scalers -> [workers : 0..MaxCount, tasks : 0..1]]
  /\ mine \in [Scalers -> SUBSET Workers]
  /\ fresh \in [Scalers -> SUBSET Workers]
  /\ made \in [Scalers -> SUBSET (1..MaxTask)]
  /\ faults \in 0..MaxFaults /\ astray \in BOOLEAN

ScalerOK(s) ==
  GrowOK(s) /\ RoomOK(s) /\ FreshOK(s) /\ DownOK(s) /\ MadeOK(s) /\ IdleOK(s)

ProcOK(p) == (pc[p] \in Filing => team = p) /\ DraftOK(p)

(* None of it needs the scaling lock: every scaler has its own copy.       *)
ScalingInv ==
  /\ Typed /\ Sized(config)
  /\ \A p \in Procs : ProcOK(p)
  /\ \A s \in Scalers : ScalerOK(s)

-----------------------------------------------------------------------------
(* A step of p leaves what is of the others as it is.                      *)
OnlyMoves(p) ==
  /\ \A q \in Procs \ {p} : pc'[q] = pc[q] /\ draft'[q] = draft[q] /\ (team = q => team' = q)
  /\ \A s \in Scalers \ {p} :
       /\ copy'[s] = copy[s] /\ want'[s] = want[s] /\ mine'[s] = mine[s]
       /\ fresh'[s] = fresh[s] /\ made'[s] = made[s]

TasksOfOthers(p) ==
  /\ \A q \in Procs \ {p}, id \in 1..MaxTask : tasks[id] = q => tasks'[id] = q
  /\ \A q \in Procs \ {p} : pc[q] = "filing" => tasks'[draft[q].id] = tasks[draft[q].id]

LEMMA OthersKept ==
  ASSUME ScalingInv, NEW p \in Procs, OnlyMoves(p), TasksOfOthers(p), Typed',
         lastPane <= lastPane', Sized(config)', ProcOK(p)', p \in Scalers => ScalerOK(p)'
  PROVE  ScalingInv'
<1>1. ASSUME NEW q \in Procs \ {p} PROVE ProcOK(q)'
  <2>1. pc'[q] = pc[q] /\ draft'[q] = draft[q] /\ ProcOK(q) /\ Typed
    BY DEF OnlyMoves, ScalingInv
  <2>2. CASE pc[q] \in Filing
    <3>1. team' = q
      BY <2>1, <2>2 DEF OnlyMoves, ProcOK
    <3>2. Sized(draft[q].cfg) /\ draft[q].cfg \in Cfgs /\ draft[q].id \in 1..MaxTask
      BY <2>1, <2>2 DEF ProcOK, DraftOK, Typed
    <3>3. Sized(draft[q].cfg)'
      <4> DEFINE cfg == draft[q].cfg
      <4>1. cfg \in Cfgs /\ Sized(cfg) /\ cfg' = cfg
        BY <2>1, <3>2
      <4>2. /\ \A w \in cfg.workers : w.pane \in Nat /\ w.pane <= lastPane
            /\ lastPane \in Nat /\ lastPane' \in Nat
        BY <4>1, <2>1 DEF Cfgs, Workers, Sized, Typed
      <4>3. \A w \in cfg.workers : w.pane <= lastPane'
        BY <4>2
      <4> QED BY <4>1, <4>3 DEF Sized
    <3>4. tasks'[draft[q].id] = tasks[draft[q].id]
      BY <2>1, <2>2, <3>2 DEF ProcOK, DraftOK, TasksOfOthers, Filing
    <3> QED BY <2>1, <2>2, <3>1, <3>2, <3>3, <3>4 DEF ProcOK, DraftOK
  <2>3. CASE pc[q] \notin Filing
    BY <2>1, <2>3 DEF ProcOK, DraftOK
  <2> QED BY <2>2, <2>3
<1>2. ASSUME NEW s \in Scalers \ {p} PROVE ScalerOK(s)'
  <2>1. /\ copy'[s] = copy[s] /\ want'[s] = want[s] /\ mine'[s] = mine[s]
        /\ fresh'[s] = fresh[s] /\ made'[s] = made[s]
        /\ pc'[s] = pc[s] /\ ScalerOK(s) /\ Typed
    BY DEF OnlyMoves, Procs, ScalingInv
  <2>2. Sized(copy[s]) => Sized(copy[s])'
    <3> SUFFICES ASSUME Sized(copy[s]) PROVE Sized(copy[s])'
      OBVIOUS
    <3>1. /\ \A w \in copy[s].workers : w.pane \in Nat /\ w.pane <= lastPane
          /\ lastPane \in Nat /\ lastPane' \in Nat
      BY <2>1 DEF Cfgs, Workers, Sized, Typed
    <3>2. \A w \in copy[s].workers : w.pane <= lastPane'
      BY <3>1
    <3> QED BY <2>1, <3>2 DEF Sized
  <2>3. GrowOK(s)' /\ RoomOK(s)' /\ DownOK(s)'
    BY <2>1, <2>2 DEF ScalerOK, GrowOK, RoomOK, DownOK
  <2>4. FreshOK(s)'
    <3>1. /\ \A w \in fresh[s] : w.pane \in Nat
          /\ lastPane \in Nat /\ lastPane' \in Nat
      BY <2>1 DEF Workers, Typed
    <3> QED BY <2>1, <3>1 DEF ScalerOK, FreshOK
  <2>6. IdleOK(s)'
    BY <2>1 DEF ScalerOK, IdleOK
  <2>5. MadeOK(s)'
    <3>1. made[s] \subseteq 1..MaxTask
      BY <2>1 DEF Typed
    <3>2. \A id \in 1..MaxTask : tasks[id] = s => tasks'[id] = s
      BY DEF TasksOfOthers, Procs
    <3> QED BY <2>1, <3>1, <3>2 DEF ScalerOK, MadeOK
  <2> QED BY <2>1, <2>3, <2>4, <2>5, <2>6 DEF ScalerOK
<1>3. \A q \in Procs : ProcOK(q)'
  BY <1>1
<1>4. \A s \in Scalers : ScalerOK(s)'
  BY <1>2
<1> QED BY <1>3, <1>4 DEF ScalingInv

-----------------------------------------------------------------------------
LEMMA ConstantFacts ==
  /\ Scalers \subseteq Procs /\ Creators \subseteq Procs
  /\ NoProc \notin Procs /\ Scalers \cap Creators = {}
  /\ InitialCount \in Nat \ {0} /\ MaxWorkers \in Nat /\ InitialCount <= MaxWorkers
  /\ MaxCount \in Nat /\ MaxIndex \in Nat /\ InitialCount <= MaxIndex
  /\ MaxTask \in Nat /\ MaxFaults \in Nat
BY ScalingAssumption DEF Procs

LEMMA NoCopyTyped == NoCopy \in Cfgs /\ NoDraft \in [cfg : Cfgs, id : 0..MaxTask]
BY ConstantFacts DEF NoCopy, NoDraft, Cfgs

(* The team as it is started.                                              *)
LEMMA InitSized == Init => config \in Cfgs /\ Sized(config)
<1> SUFFICES ASSUME Init PROVE config \in Cfgs /\ Sized(config)
  OBVIOUS
<1> DEFINE S == {[index |-> i, pane |-> i] : i \in 1..InitialCount}
           f == [i \in 1..InitialCount |-> [index |-> i, pane |-> i]]
<1>1. config = [workers |-> S, nextIndex |-> InitialCount + 1, nextTask |-> 1]
      /\ lastPane = InitialCount
  BY DEF Init
<1>2. f \in Surjection(1..InitialCount, S)
  BY DEF Surjection
<1>3. ExistsSurjection(1..InitialCount, S)
  BY <1>2 DEF ExistsSurjection
<1>4. IsFiniteSet(S) /\ Cardinality(S) <= InitialCount
  BY <1>3, ConstantFacts, FS_NatSurjection, FS_SurjCardinalityBound
<1>5. Cardinality(S) \in Nat
  BY <1>4, FS_CardinalityType
<1>6. [index |-> 1, pane |-> 1] \in S
  BY ConstantFacts
<1>7. S \subseteq Workers
  BY ConstantFacts DEF Workers
<1>8. config \in Cfgs
  BY <1>1, <1>7, ConstantFacts DEF Cfgs
<1>9. \A w \in S : w.pane <= InitialCount
  BY ConstantFacts
<1> HIDE DEF S
<1>10. Cardinality(S) <= MaxWorkers
  BY <1>4, <1>5, ConstantFacts
<1> QED BY <1>1, <1>4, <1>6, <1>8, <1>9, <1>10, ConstantFacts DEF Sized

LEMMA ScalingInit == Init => ScalingInv
<1> SUFFICES ASSUME Init PROVE ScalingInv
  OBVIOUS
<1>1. config \in Cfgs /\ Sized(config)
  BY InitSized
<1>2. panes \subseteq Workers
  BY <1>1 DEF Init, Cfgs
<1>3. Typed
  <2>1. /\ pc \in [Procs -> Points]
        /\ draft \in [Procs -> [cfg : Cfgs, id : 0..MaxTask]]
        /\ copy \in [Scalers -> Cfgs]
    BY NoCopyTyped DEF Init, Points
  <2>2. /\ tasks \in [1..MaxTask -> Procs \cup {NoProc}]
        /\ want \in [Scalers -> [workers : 0..MaxCount, tasks : 0..1]]
        /\ lastPane \in Nat /\ faults \in 0..MaxFaults
    BY ConstantFacts DEF Init
  <2>3. /\ mine \in [Scalers -> SUBSET Workers]
        /\ fresh \in [Scalers -> SUBSET Workers]
        /\ made \in [Scalers -> SUBSET (1..MaxTask)]
    BY DEF Init
  <2> QED BY <1>1, <1>2, <2>1, <2>2, <2>3 DEF Init, Typed
<1>4. \A p \in Procs : pc[p] = "idle"
  BY DEF Init
<1>5. \A p \in Procs : ProcOK(p)
  BY <1>4 DEF ProcOK, DraftOK, Filing
<1>6. \A s \in Scalers : ScalerOK(s)
  <2>1. \A s \in Scalers : pc[s] = "idle" /\ mine[s] = {} /\ made[s] = {}
    BY <1>4, ConstantFacts DEF Init
  <2> QED BY <2>1
       DEF ScalerOK, GrowOK, RoomOK, FreshOK, DownOK, MadeOK, IdleOK, Filing, Growing, Building
<1> QED BY <1>1, <1>3, <1>5, <1>6 DEF ScalingInv

-----------------------------------------------------------------------------
(* createTask.                                                             *)
LEMMA ReadForTaskKeeps ==
  ASSUME ScalingInv, NEW p \in Procs, ReadForTask(p)
  PROVE  ScalingInv'
<1>1. /\ Typed /\ Sized(config) /\ ProcOK(p) /\ (p \in Scalers => ScalerOK(p))
  BY ConstantFacts DEF ScalingInv
<1> USE <1>1
<1>2. PICK id \in 1..MaxTask :
        IsNextId(id) /\ draft' = [draft EXCEPT ![p] = [cfg |-> config, id |-> id]]
  BY DEF ReadForTask
<1>3. tasks[id] = NoProc
  <2> SUFFICES ASSUME id \in Filed PROVE FALSE
    BY DEF Filed
  <2> QED BY <1>2 DEF IsNextId
<1>4. pc' = [pc EXCEPT ![p] = "filing"] /\ team' = p /\ team = NoProc
      /\ UNCHANGED <<config, tasks, panes, lastPane, scaling, scaler, faults, astray>>
  BY DEF ReadForTask
<1>5. Typed'
  BY <1>2, <1>4, ConstantFacts DEF Typed, Points, Filing, scaler
<1>6. OnlyMoves(p) /\ TasksOfOthers(p) /\ lastPane <= lastPane' /\ Sized(config)'
  BY <1>2, <1>4, ConstantFacts DEF Typed, OnlyMoves, TasksOfOthers, scaler, Sized
<1>7. pc'[p] = "filing" /\ draft'[p] = [cfg |-> config, id |-> id]
  BY <1>2, <1>4 DEF Typed
<1>8. ProcOK(p)'
  BY <1>3, <1>4, <1>6, <1>7 DEF ProcOK, DraftOK, Filing, Sized
<1>9. ASSUME p \in Scalers PROVE ScalerOK(p)'
  <2>1. pc[p] = "growing" /\ want[p].tasks > 0 /\ want[p].tasks \in 0..1
    BY <1>9 DEF ReadForTask, Wants, Typed
  <2> QED BY <1>4, <1>7, <1>9, <2>1
       DEF ScalerOK, GrowOK, RoomOK, FreshOK, DownOK, MadeOK, IdleOK, Filing, Growing, Building,
           Sized, scaler
<1> QED BY <1>5, <1>6, <1>8, <1>9, OthersKept

LEMMA WriteTaskKeeps ==
  ASSUME ScalingInv, NEW p \in Procs, WriteTask(p)
  PROVE  ScalingInv'
<1>1. /\ Typed /\ Sized(config) /\ ProcOK(p) /\ (p \in Scalers => ScalerOK(p))
      /\ \A q \in Procs : ProcOK(q)
      /\ \A s \in Scalers : ScalerOK(s)
  BY DEF ScalingInv
<1>2. /\ pc[p] = "filing" /\ pc' = [pc EXCEPT ![p] = "numbering"]
      /\ tasks' = [tasks EXCEPT ![draft[p].id] = p]
      /\ UNCHANGED <<config, panes, lastPane, scaling, team, draft, scaler, faults, astray>>
  BY DEF WriteTask, Goto
<1>3. /\ draft[p].id \in 1..MaxTask /\ tasks[draft[p].id] = NoProc /\ team = p
      /\ Sized(draft[p].cfg)
  BY <1>1, <1>2 DEF ProcOK, DraftOK, Filing
<1>4. Typed'
  BY <1>1, <1>2, <1>3 DEF Typed, Points, Filing, scaler
<1>5. TasksOfOthers(p)
  <2>1. \A q \in Procs \ {p} : pc[q] # "filing"
    BY <1>1, <1>3 DEF ProcOK, Filing
  <2>2. NoProc \notin Procs
    BY ConstantFacts
  <2> QED BY <1>1, <1>2, <1>3, <2>1, <2>2 DEF TasksOfOthers, Typed
<1>6. OnlyMoves(p) /\ lastPane <= lastPane' /\ Sized(config)'
  BY <1>1, <1>2 DEF Typed, OnlyMoves, scaler, Sized
<1>7. pc'[p] = "numbering" /\ tasks'[draft[p].id] = p
  BY <1>1, <1>2, <1>3 DEF Typed
<1>8. ProcOK(p)'
  BY <1>2, <1>3, <1>7 DEF ProcOK, DraftOK, Filing, Sized
<1>9. ASSUME p \in Scalers PROVE ScalerOK(p)'
  <2>1. \A id \in made[p] : tasks'[id] = p
    BY <1>1, <1>2, <1>3, <1>9 DEF ScalerOK, MadeOK, Building, Filing, Typed
  <2> QED BY <1>1, <1>2, <1>7, <1>9, <2>1
       DEF ScalerOK, GrowOK, RoomOK, FreshOK, DownOK, MadeOK, IdleOK, Filing, Growing, Building,
           Sized, scaler
<1> QED BY <1>4, <1>5, <1>6, <1>8, <1>9, OthersKept

LEMMA WriteNextTaskKeeps ==
  ASSUME ScalingInv, NEW p \in Procs, WriteNextTask(p)
  PROVE  ScalingInv'
<1>1. /\ Typed /\ Sized(config) /\ ProcOK(p) /\ (p \in Scalers => ScalerOK(p))
  BY DEF ScalingInv
<1>2. /\ pc[p] = "numbering"
      /\ pc' = [pc EXCEPT ![p] = IF p \in Scalers THEN "growing" ELSE "idle"]
      /\ config' = [draft[p].cfg EXCEPT !.nextTask = draft[p].id + 1]
      /\ astray' = (astray \/ Undoes(draft[p].cfg))
      /\ team' = NoProc /\ draft' = [draft EXCEPT ![p] = NoDraft]
      /\ UNCHANGED <<tasks, panes, lastPane, scaling, copy, mine, fresh, faults>>
  BY DEF WriteNextTask, Goto, Write
<1>3. /\ draft[p].id \in 1..MaxTask /\ tasks[draft[p].id] = p /\ team = p
      /\ Sized(draft[p].cfg) /\ draft[p].cfg \in Cfgs
  BY <1>1, <1>2 DEF ProcOK, DraftOK, Filing, Typed
<1>4. /\ config' \in Cfgs /\ config'.workers = draft[p].cfg.workers
      /\ config'.nextIndex = draft[p].cfg.nextIndex
  BY <1>2, <1>3, ConstantFacts DEF Cfgs
<1>5. Sized(config)'
  BY <1>2, <1>3, <1>4 DEF Sized
<1>6. /\ astray' \in BOOLEAN /\ pc' \in [Procs -> Points]
      /\ draft' \in [Procs -> [cfg : Cfgs, id : 0..MaxTask]]
  <2>1. astray' \in BOOLEAN
    BY <1>2
  <2> QED BY <1>1, <1>2, <2>1, NoCopyTyped DEF Typed, Points, Growing
<1>7. CASE p \in Scalers
  <2>1. /\ want' = [want EXCEPT ![p].tasks = @ - 1]
        /\ made' = [made EXCEPT ![p] = @ \cup {draft[p].id}]
    BY <1>7 DEF WriteNextTask
  <2>2. want[p].tasks = 1 /\ want[p] \in [workers : 0..MaxCount, tasks : 0..1]
    BY <1>1, <1>2, <1>7 DEF ScalerOK, RoomOK, Filing, Typed
  <2>3. /\ want' \in [Scalers -> [workers : 0..MaxCount, tasks : 0..1]]
        /\ want'[p].workers = want[p].workers
    <3> DEFINE w == [want[p] EXCEPT !.tasks = @ - 1]
    <3>1. want' = [want EXCEPT ![p] = w]
      BY <2>1
    <3>2. w = [workers |-> want[p].workers, tasks |-> 0]
      BY <2>2
    <3>3. w \in [workers : 0..MaxCount, tasks : 0..1] /\ w.workers = want[p].workers
      BY <2>2, <3>2
    <3> HIDE DEF w
    <3> QED BY <1>1, <1>7, <3>1, <3>3 DEF Typed
  <2>4. /\ made' \in [Scalers -> SUBSET (1..MaxTask)]
        /\ made'[p] = made[p] \cup {draft[p].id}
    BY <1>1, <1>3, <1>7, <2>1 DEF Typed
  <2>5. Typed'
    BY <1>1, <1>2, <1>4, <1>6, <2>3, <2>4 DEF Typed
  <2>6. OnlyMoves(p) /\ TasksOfOthers(p) /\ lastPane <= lastPane'
    BY <1>1, <1>2, <1>3, <2>1 DEF Typed, OnlyMoves, TasksOfOthers
  <2>7. pc'[p] = "growing"
    BY <1>1, <1>2, <1>7 DEF Typed
  <2>8. ProcOK(p)'
    BY <2>7 DEF ProcOK, DraftOK, Filing
  <2>9. ScalerOK(p)'
    BY <1>1, <1>2, <1>3, <1>7, <2>3, <2>4, <2>7
       DEF ScalerOK, GrowOK, RoomOK, FreshOK, DownOK, MadeOK, IdleOK, Filing, Growing, Building, Sized
  <2> QED BY <1>5, <2>5, <2>6, <2>8, <2>9, OthersKept
<1>8. CASE p \notin Scalers
  <2>1. UNCHANGED <<want, made>>
    BY <1>8 DEF WriteNextTask
  <2>2. Typed'
    BY <1>1, <1>2, <1>4, <1>6, <2>1 DEF Typed
  <2>3. OnlyMoves(p) /\ TasksOfOthers(p) /\ lastPane <= lastPane'
    BY <1>1, <1>2, <1>3, <2>1 DEF Typed, OnlyMoves, TasksOfOthers
  <2>4. pc'[p] = "idle"
    BY <1>1, <1>2, <1>8 DEF Typed
  <2>5. ProcOK(p)'
    BY <2>4 DEF ProcOK, DraftOK, Filing
  <2> QED BY <1>5, <1>8, <2>2, <2>3, <2>5, OthersKept
<1> QED BY <1>7, <1>8

-----------------------------------------------------------------------------
(* A scaler that is done, or killed, leaves the others as they are.        *)
LEMMA EndKeeps ==
  ASSUME ScalingInv, NEW s \in Scalers, pc[s] \notin {"idle", "dead"},
         NEW l \in {"idle", "dead"}, pc' = [pc EXCEPT ![s] = l], Forget(s),
         scaling' \in Scalers \cup {NoProc}, UNCHANGED <<tasks, lastPane, team>>,
         draft' = draft \/ draft' = [draft EXCEPT ![s] = NoDraft],
         panes' \subseteq Workers, faults' \in 0..MaxFaults, astray' \in BOOLEAN,
         config' \in Cfgs, Sized(config)'
  PROVE  ScalingInv'
<1>1. /\ Typed /\ ScalerOK(s) /\ s \in Procs
      /\ 0 \in 0..MaxCount
      /\ [workers |-> 0, tasks |-> 0] \in [workers : 0..MaxCount, tasks : 0..1]
  BY ConstantFacts DEF ScalingInv
<1>2. /\ copy' \in [Scalers -> Cfgs] /\ pc' \in [Procs -> Points]
      /\ draft' \in [Procs -> [cfg : Cfgs, id : 0..MaxTask]]
  <2>1. copy' \in [Scalers -> Cfgs]
    BY <1>1, NoCopyTyped DEF Typed, Forget
  <2>2. pc' \in [Procs -> Points]
    BY <1>1 DEF Typed, Points
  <2>3. draft' \in [Procs -> [cfg : Cfgs, id : 0..MaxTask]]
    BY <1>1, NoCopyTyped DEF Typed
  <2> QED BY <2>1, <2>2, <2>3
<1>3. /\ want' \in [Scalers -> [workers : 0..MaxCount, tasks : 0..1]]
      /\ mine' \in [Scalers -> SUBSET Workers] /\ fresh' \in [Scalers -> SUBSET Workers]
      /\ made' \in [Scalers -> SUBSET (1..MaxTask)]
  BY <1>1 DEF Typed, Forget
<1>4. Typed'
  BY <1>1, <1>2, <1>3 DEF Typed
<1>5. OnlyMoves(s) /\ TasksOfOthers(s) /\ lastPane <= lastPane'
  BY <1>1 DEF Typed, OnlyMoves, TasksOfOthers, Forget
<1>6. pc'[s] \in {"idle", "dead"} /\ mine'[s] = {} /\ made'[s] = {}
  BY <1>1 DEF Typed, Forget
<1>7. ProcOK(s)' /\ ScalerOK(s)'
  BY <1>6 DEF ProcOK, DraftOK, ScalerOK, GrowOK, RoomOK, FreshOK, DownOK, MadeOK, IdleOK,
              Filing, Growing, Building
<1> QED BY <1>1, <1>4, <1>5, <1>7, OthersKept

(* scaleUp.                                                                *)
LEMMA StartUpKeeps ==
  ASSUME ScalingInv, NEW s \in Scalers, StartUp(s)
  PROVE  ScalingInv'
<1>1. /\ Typed /\ Sized(config) /\ ScalerOK(s) /\ s \in Procs
  BY ConstantFacts DEF ScalingInv
<1>2. PICK n \in 1..MaxCount, new \in 0..1 :
        /\ Cardinality(config.workers) + n <= MaxWorkers
        /\ config.nextIndex + n - 1 <= MaxIndex
        /\ want' = [want EXCEPT ![s] = [workers |-> n, tasks |-> new]]
  BY DEF StartUp
<1>3. /\ pc[s] = "idle" /\ pc' = [pc EXCEPT ![s] = "growing"]
      /\ scaling = NoProc /\ scaling' = s /\ copy' = [copy EXCEPT ![s] = config]
      /\ UNCHANGED <<config, tasks, panes, lastPane, team, draft, mine, fresh, made,
                     faults, astray>>
  BY DEF StartUp, Goto
<1>4. [workers |-> n, tasks |-> new] \in [workers : 0..MaxCount, tasks : 0..1]
  BY ConstantFacts
<1>5. Typed'
  BY <1>1, <1>2, <1>3, <1>4 DEF Typed, Points, Growing
<1>6. OnlyMoves(s) /\ TasksOfOthers(s) /\ lastPane <= lastPane' /\ Sized(config)'
  BY <1>1, <1>2, <1>3, ConstantFacts DEF Typed, OnlyMoves, TasksOfOthers, Sized
<1>7. /\ pc'[s] = "growing" /\ copy'[s] = config
      /\ want'[s].workers = n
  BY <1>1, <1>2, <1>3 DEF Typed
<1>8. mine[s] = {} /\ made[s] = {}
  BY <1>1, <1>3 DEF ScalerOK, IdleOK
<1>9. ProcOK(s)'
  BY <1>7 DEF ProcOK, DraftOK, Filing
<1>10. /\ IsFiniteSet(mine'[s]) /\ Cardinality(mine'[s]) = 0
       /\ ~(copy'[s].workers \subseteq mine'[s])
  BY <1>1, <1>3, <1>7, <1>8, FS_EmptySet DEF Sized
<1>11. Cardinality(config.workers) \in Nat /\ config.nextIndex \in Nat
  BY <1>1, FS_CardinalityType DEF Sized, Typed, Cfgs
<1>12. GrowOK(s)' /\ RoomOK(s)'
  BY <1>1, <1>2, <1>3, <1>6, <1>7, <1>10, <1>11, ConstantFacts
     DEF GrowOK, RoomOK, Growing, Building, Filing, Sized
<1>13. ScalerOK(s)'
  BY <1>3, <1>7, <1>8, <1>12 DEF ScalerOK, FreshOK, DownOK, MadeOK, IdleOK
<1> QED BY <1>1, <1>5, <1>6, <1>9, <1>13, OthersKept

LEMMA SplitKeeps ==
  ASSUME ScalingInv, NEW s \in Scalers, Split(s)
  PROVE  ScalingInv'
<1>1. /\ Typed /\ Sized(config) /\ ScalerOK(s) /\ s \in Procs
  BY ConstantFacts DEF ScalingInv
<1> DEFINE w == [index |-> copy[s].nextIndex, pane |-> lastPane + 1]
<1>2. /\ pc[s] = "growing" /\ pc' = [pc EXCEPT ![s] = "dispatching"]
      /\ lastPane' = lastPane + 1 /\ fresh' = [fresh EXCEPT ![s] = {w}]
      /\ panes' = panes \cup fresh'[s]
      /\ UNCHANGED <<config, tasks, scaling, team, copy, draft, want, mine, made,
                     faults, astray>>
  BY DEF Split, Goto
<1>3. /\ Sized(copy[s]) /\ copy[s] \in Cfgs
      /\ want[s].workers >= 1 /\ copy[s].nextIndex + want[s].workers <= MaxIndex + 1
      /\ GrowOK(s) /\ RoomOK(s) /\ MadeOK(s)
  BY <1>1, <1>2 DEF ScalerOK, GrowOK, RoomOK, Growing, Building, Typed
<1>4. w \in Workers /\ w.pane = lastPane + 1
  <2>1. want[s].workers \in Nat /\ copy[s].nextIndex \in Nat /\ lastPane \in Nat
    BY <1>1, <1>3 DEF Typed, Cfgs
  <2> QED BY <1>3, <2>1, ConstantFacts DEF Workers, Sized
<1>5. \A v \in copy[s].workers \cup config.workers : v.pane \in Nat /\ v.pane <= lastPane
  BY <1>1, <1>3 DEF Typed, Cfgs, Workers, Sized
<1>6. w \notin copy[s].workers /\ lastPane \in Nat
  BY <1>1, <1>4, <1>5 DEF Typed
<1>7. Sized(config)' /\ Sized(copy[s])'
  <2>1. \A v \in copy[s].workers \cup config.workers : v.pane <= lastPane + 1
    BY <1>5, <1>6
  <2> QED BY <1>1, <1>2, <1>3, <2>1 DEF Sized
<1> HIDE DEF w
<1>8. fresh'[s] = {w} /\ pc'[s] = "dispatching"
  BY <1>1, <1>2 DEF Typed
<1>9. Typed'
  BY <1>1, <1>2, <1>4, <1>8 DEF Typed, Points, Growing
<1>10. OnlyMoves(s) /\ TasksOfOthers(s) /\ lastPane <= lastPane'
  BY <1>1, <1>2 DEF Typed, OnlyMoves, TasksOfOthers
<1>11. FreshOK(s)'
  BY <1>2, <1>4, <1>6, <1>8 DEF FreshOK
<1>12. ScalerOK(s)' /\ ProcOK(s)'
  BY <1>2, <1>3, <1>7, <1>8, <1>11
     DEF ScalerOK, ProcOK, DraftOK, GrowOK, RoomOK, DownOK, MadeOK, IdleOK,
         Growing, Building, Filing
<1> QED BY <1>1, <1>7, <1>9, <1>10, <1>12, OthersKept

LEMMA SplitUncapturedKeeps ==
  ASSUME ScalingInv, NEW s \in Scalers, SplitUncaptured(s)
  PROVE  ScalingInv'
<1>1. /\ Typed /\ Sized(config) /\ ScalerOK(s) /\ s \in Procs
  BY ConstantFacts DEF ScalingInv
<1> DEFINE w == [index |-> copy[s].nextIndex, pane |-> lastPane + 1]
<1>2. /\ pc[s] = "growing" /\ pc' = [pc EXCEPT ![s] = "undoing"]
      /\ lastPane' = lastPane + 1 /\ panes' = panes \cup {w} /\ astray' = TRUE
      /\ UNCHANGED <<config, tasks, scaling, team, draft, scaler, faults>>
  BY DEF SplitUncaptured, Goto
<1>3. /\ Sized(copy[s]) /\ copy[s] \in Cfgs
      /\ want[s].workers >= 1 /\ copy[s].nextIndex + want[s].workers <= MaxIndex + 1
  BY <1>1, <1>2 DEF ScalerOK, GrowOK, RoomOK, Growing, Building, Typed
<1>4. w \in Workers /\ lastPane \in Nat
  <2>1. want[s].workers \in Nat /\ copy[s].nextIndex \in Nat /\ lastPane \in Nat
    BY <1>1, <1>3 DEF Typed, Cfgs
  <2> QED BY <1>3, <2>1, ConstantFacts DEF Workers, Sized
<1>5. \A v \in copy[s].workers \cup config.workers : v.pane \in Nat /\ v.pane <= lastPane
  BY <1>1, <1>3 DEF Typed, Cfgs, Workers, Sized
<1>6. Sized(config)' /\ Sized(copy[s])'
  <2>1. \A v \in copy[s].workers \cup config.workers : v.pane <= lastPane + 1
    BY <1>4, <1>5
  <2> QED BY <1>1, <1>2, <1>3, <2>1 DEF Sized, scaler
<1> HIDE DEF w
<1>7. pc'[s] = "undoing" /\ Typed'
  BY <1>1, <1>2, <1>4 DEF Typed, Points, Growing, scaler
<1>8. OnlyMoves(s) /\ TasksOfOthers(s) /\ lastPane <= lastPane'
  BY <1>1, <1>2 DEF Typed, OnlyMoves, TasksOfOthers, scaler
<1>9. ScalerOK(s)' /\ ProcOK(s)'
  BY <1>1, <1>2, <1>6, <1>7
     DEF ScalerOK, ProcOK, DraftOK, GrowOK, RoomOK, FreshOK, DownOK, MadeOK, IdleOK,
         Growing, Building, Filing, scaler
<1> QED BY <1>1, <1>6, <1>7, <1>8, <1>9, OthersKept

LEMMA GrowFailsKeeps ==
  ASSUME ScalingInv, NEW s \in Scalers, GrowFails(s)
  PROVE  ScalingInv'
<1>1. /\ Typed /\ Sized(config) /\ ScalerOK(s) /\ s \in Procs
  BY ConstantFacts DEF ScalingInv
<1>2. /\ pc[s] \in {"growing", "dispatching"} /\ pc' = [pc EXCEPT ![s] = "undoing"]
      /\ UNCHANGED <<config, tasks, panes, lastPane, scaling, team, draft, scaler, faults, astray>>
  BY DEF GrowFails, Goto
<1>3. Typed' /\ pc'[s] = "undoing" /\ Sized(config)'
  BY <1>1, <1>2 DEF Typed, Points, Growing, scaler, Sized
<1>4. OnlyMoves(s) /\ TasksOfOthers(s) /\ lastPane <= lastPane'
  BY <1>1, <1>2 DEF Typed, OnlyMoves, TasksOfOthers, scaler
<1>5. ScalerOK(s)' /\ ProcOK(s)'
  BY <1>1, <1>2, <1>3
     DEF ScalerOK, ProcOK, DraftOK, GrowOK, RoomOK, FreshOK, DownOK, MadeOK, IdleOK,
         Growing, Building, Filing, scaler, Sized
<1> QED BY <1>1, <1>3, <1>4, <1>5, OthersKept

LEMMA AddWorkerKeeps ==
  ASSUME ScalingInv, NEW s \in Scalers, AddWorker(s)
  PROVE  ScalingInv'
<1>1. /\ Typed /\ ScalerOK(s) /\ s \in Procs
  BY ConstantFacts DEF ScalingInv
<1>2. /\ pc[s] = "dispatching"
      /\ pc' = [pc EXCEPT ![s] = IF want[s].workers = 1 THEN "idle" ELSE "growing"]
      /\ config' = Added(copy[s], fresh[s]) /\ astray' = (astray \/ Undoes(copy[s]))
      /\ UNCHANGED <<tasks, panes, lastPane, team, draft, faults>>
  BY DEF AddWorker, Goto, Write
<1>3. /\ Sized(copy[s]) /\ copy[s] \in Cfgs
      /\ want[s].workers >= 1 /\ copy[s].nextIndex + want[s].workers <= MaxIndex + 1
      /\ Cardinality(copy[s].workers) + want[s].workers <= MaxWorkers
      /\ want[s] \in [workers : 0..MaxCount, tasks : 0..1]
      /\ IsFiniteSet(mine[s]) /\ Cardinality(mine[s]) < copy[s].nextIndex
      /\ ~(copy[s].workers \subseteq mine[s])
      /\ \A id \in made[s] : tasks[id] = s
  BY <1>1, <1>2 DEF ScalerOK, GrowOK, RoomOK, MadeOK, Growing, Building, Typed
<1>4. PICK w \in Workers : fresh[s] = {w} /\ w \notin copy[s].workers /\ w.pane <= lastPane
  BY <1>1, <1>2 DEF ScalerOK, FreshOK, Typed
<1>5. /\ config'.workers = copy[s].workers \cup {w}
      /\ config'.nextIndex = copy[s].nextIndex + 1
      /\ config' \in Cfgs
  <2>1. /\ copy[s].nextIndex \in Nat /\ want[s].workers \in Nat
        /\ copy[s].nextIndex + 1 <= MaxIndex + 1
    BY <1>3, ConstantFacts DEF Cfgs
  <2>2. config' = [workers |-> copy[s].workers \cup {w},
                   nextIndex |-> copy[s].nextIndex + 1, nextTask |-> copy[s].nextTask]
    BY <1>2, <1>3, <1>4 DEF Added, Cfgs
  <2> QED BY <1>3, <1>4, <2>1, <2>2, ConstantFacts DEF Cfgs
<1>6. /\ IsFiniteSet(config'.workers)
      /\ Cardinality(config'.workers) = Cardinality(copy[s].workers) + 1
      /\ Cardinality(copy[s].workers) \in Nat
  BY <1>3, <1>4, <1>5, FS_AddElement, FS_CardinalityType DEF Sized
<1>7. Sized(config)'
  <2>1. Cardinality(config'.workers) <= MaxWorkers
    BY <1>3, <1>6, ConstantFacts
  <2>2. \A v \in config'.workers : v.pane <= lastPane'
    BY <1>2, <1>3, <1>4, <1>5 DEF Sized
  <2>3. config'.nextIndex >= 1
    BY <1>3, <1>5 DEF Cfgs
  <2> QED BY <1>5, <1>6, <2>1, <2>2, <2>3 DEF Sized
<1>8. astray' \in BOOLEAN
  BY <1>2
<1>9. CASE want[s].workers = 1
  BY <1>1, <1>2, <1>5, <1>7, <1>8, <1>9, EndKeeps DEF AddWorker, Release, Typed
<1>10. CASE want[s].workers # 1
  <2>1. /\ copy' = [copy EXCEPT ![s] = config'] /\ mine' = [mine EXCEPT ![s] = @ \cup fresh[s]]
        /\ fresh' = [fresh EXCEPT ![s] = {}]
        /\ want' = [want EXCEPT ![s].workers = @ - 1]
        /\ UNCHANGED <<made, scaling>> /\ pc' = [pc EXCEPT ![s] = "growing"]
    BY <1>2, <1>10 DEF AddWorker
  <2>2. /\ want' \in [Scalers -> [workers : 0..MaxCount, tasks : 0..1]]
        /\ want'[s].workers = want[s].workers - 1 /\ want'[s].workers >= 1
    <3> DEFINE left == [want[s] EXCEPT !.workers = @ - 1]
    <3>1. left = [workers |-> want[s].workers - 1, tasks |-> want[s].tasks]
      BY <1>3
    <3>2. want[s].workers - 1 \in 0..MaxCount /\ want[s].workers - 1 >= 1
      BY <1>3, <1>10, ConstantFacts
    <3>3. left \in [workers : 0..MaxCount, tasks : 0..1]
          /\ left.workers = want[s].workers - 1
      BY <1>3, <3>1, <3>2
    <3>4. want' = [want EXCEPT ![s] = left]
      BY <2>1
    <3> HIDE DEF left
    <3> QED BY <1>1, <3>2, <3>3, <3>4 DEF Typed
  <2>3. /\ pc'[s] = "growing" /\ copy'[s] = config' /\ mine'[s] = mine[s] \cup {w}
        /\ made'[s] = made[s]
    BY <1>1, <1>4, <2>1 DEF Typed
  <2>4. Typed'
    <3>1. /\ copy' \in [Scalers -> Cfgs] /\ pc' \in [Procs -> Points]
      BY <1>1, <1>5, <2>1 DEF Typed, Points, Growing
    <3>2. /\ mine' \in [Scalers -> SUBSET Workers] /\ fresh' \in [Scalers -> SUBSET Workers]
      BY <1>1, <1>4, <2>1 DEF Typed
    <3> QED BY <1>1, <1>2, <1>5, <1>8, <2>1, <2>2, <3>1, <3>2 DEF Typed
  <2>5. OnlyMoves(s) /\ TasksOfOthers(s) /\ lastPane <= lastPane'
    BY <1>1, <1>2, <2>1 DEF Typed, OnlyMoves, TasksOfOthers
  <2>6. /\ IsFiniteSet(mine'[s]) /\ Cardinality(mine'[s]) < config'.nextIndex
    <3>1. IsFiniteSet(mine[s]) /\ Cardinality(mine[s]) \in Nat
      BY <1>3, FS_CardinalityType
    <3>2. /\ IsFiniteSet(mine[s] \cup {w})
          /\ Cardinality(mine[s] \cup {w}) \in {Cardinality(mine[s]), Cardinality(mine[s]) + 1}
      BY <3>1, FS_AddElement
    <3>3. copy[s].nextIndex \in Nat
      BY <1>3 DEF Cfgs
    <3> QED BY <1>3, <1>5, <2>3, <3>1, <3>2, <3>3
  <2>7. ~(config'.workers \subseteq mine'[s])
    BY <1>3, <1>4, <1>5, <2>3
  <2>8. GrowOK(s)' /\ RoomOK(s)'
    <3>1. Cardinality(config'.workers) + want'[s].workers <= MaxWorkers
      BY <1>3, <1>6, <2>2, ConstantFacts
    <3>2. config'.nextIndex + want'[s].workers <= MaxIndex + 1
      <4>1. /\ copy[s].nextIndex \in Nat /\ want[s].workers \in Nat /\ MaxIndex \in Nat
        BY <1>3, ConstantFacts DEF Cfgs
      <4>2. \A a, b, m \in Nat : a + b <= m + 1 => (a + 1) + (b - 1) <= m + 1
        OBVIOUS
      <4> QED BY <1>3, <1>5, <2>2, <4>1, <4>2
    <3> QED BY <1>7, <2>2, <2>3, <2>6, <2>7, <3>1, <3>2
         DEF GrowOK, RoomOK, Growing, Building, Filing, Sized
  <2>9. ScalerOK(s)' /\ ProcOK(s)'
    BY <1>2, <1>3, <2>1, <2>3, <2>8
       DEF ScalerOK, ProcOK, DraftOK, FreshOK, DownOK, MadeOK, IdleOK, Building, Filing
  <2> QED BY <1>1, <1>7, <2>4, <2>5, <2>9, OthersKept
<1> QED BY <1>9, <1>10

LEMMA ThrowsKeeps ==
  ASSUME ScalingInv, NEW s \in Scalers, Throws(s)
  PROVE  ScalingInv'
<1>1. /\ Typed /\ Sized(config) /\ pc[s] \notin {"idle", "dead"} /\ astray' \in BOOLEAN
  BY DEF Throws, Goto, ScalingInv
<1>2. config' \in Cfgs /\ Sized(config)'
  BY <1>1 DEF Throws, Typed, Sized
<1> QED BY <1>1, <1>2, EndKeeps DEF Throws, Goto, Release, Typed

(* A scaler that goes on with its undoing or its tear-down.                *)
LEMMA UndoPanesKeeps ==
  ASSUME ScalingInv, NEW s \in Scalers, UndoPanes(s) \/ Teardown(s)
  PROVE  ScalingInv'
<1>1. /\ Typed /\ Sized(config) /\ ScalerOK(s) /\ s \in Procs
  BY ConstantFacts DEF ScalingInv
<1>2. /\ UNCHANGED <<config, tasks, lastPane, scaling, team, draft, scaler, faults, astray>>
      /\ panes' \subseteq panes
      /\ \/ pc[s] = "undoing" /\ pc' = [pc EXCEPT ![s] = "deleting"]
         \/ pc[s] = "draining" /\ pc' = [pc EXCEPT ![s] = "removing"]
  BY DEF UndoPanes, Teardown, Goto
<1>3. Typed' /\ Sized(config)'
  BY <1>1, <1>2 DEF Typed, Points, Growing, scaler, Sized
<1>4. OnlyMoves(s) /\ TasksOfOthers(s) /\ lastPane <= lastPane'
  BY <1>1, <1>2 DEF Typed, OnlyMoves, TasksOfOthers, scaler
<1>5. \/ pc[s] = "undoing" /\ pc'[s] = "deleting"
      \/ pc[s] = "draining" /\ pc'[s] = "removing"
  BY <1>1, <1>2 DEF Typed
<1>6. ScalerOK(s)' /\ ProcOK(s)'
  BY <1>1, <1>2, <1>5
     DEF ScalerOK, ProcOK, DraftOK, GrowOK, RoomOK, FreshOK, DownOK, MadeOK, IdleOK,
         Growing, Building, Filing, scaler, Sized
<1> QED BY <1>1, <1>3, <1>4, <1>6, OthersKept

LEMMA DeleteTasksKeeps ==
  ASSUME ScalingInv, NEW s \in Scalers, DeleteTasks(s)
  PROVE  ScalingInv'
<1>1. /\ Typed /\ Sized(config) /\ ScalerOK(s) /\ s \in Procs /\ NoProc \notin Procs
      /\ \A q \in Procs : ProcOK(q)
  BY ConstantFacts DEF ScalingInv
<1>2. /\ UNCHANGED <<config, panes, lastPane, scaling, team, draft, scaler, faults, astray>>
      /\ tasks' = [id \in 1..MaxTask |-> IF id \in made[s] THEN NoProc ELSE tasks[id]]
      /\ pc[s] = "deleting" /\ pc' = [pc EXCEPT ![s] = "restoring"]
  BY DEF DeleteTasks, Goto
<1>3. \A id \in made[s] : tasks[id] = s
  BY <1>1, <1>2 DEF ScalerOK, MadeOK
<1>4. TasksOfOthers(s)
  <2>1. \A q \in Procs : pc[q] = "filing" =>
          draft[q].id \in 1..MaxTask /\ tasks[draft[q].id] = NoProc
    BY <1>1 DEF ProcOK, DraftOK, Filing
  <2> QED BY <1>1, <1>2, <1>3, <2>1 DEF TasksOfOthers
<1>5. Typed' /\ Sized(config)'
  BY <1>1, <1>2 DEF Typed, Points, Growing, scaler, Sized
<1>6. OnlyMoves(s) /\ lastPane <= lastPane' /\ pc'[s] = "restoring"
  BY <1>1, <1>2 DEF Typed, OnlyMoves, scaler
<1>7. ScalerOK(s)' /\ ProcOK(s)'
  BY <1>1, <1>2, <1>6
     DEF ScalerOK, ProcOK, DraftOK, GrowOK, RoomOK, FreshOK, DownOK, MadeOK, IdleOK,
         Growing, Building, Filing, scaler, Sized
<1> QED BY <1>1, <1>4, <1>5, <1>6, <1>7, OthersKept

(* Taking workers out of a configuration that keeps one.                   *)
LEMMA SmallerSized ==
  ASSUME NEW cfg \in Cfgs, Sized(cfg), NEW out \in SUBSET Workers,
         ~(cfg.workers \subseteq out), NEW next \in 0..(MaxIndex + 1), next >= 1,
         config' = [cfg EXCEPT !.workers = @ \ out, !.nextIndex = next], lastPane' = lastPane
  PROVE  config' \in Cfgs /\ Sized(config)'
<1>1. config' = [workers |-> cfg.workers \ out, nextIndex |-> next, nextTask |-> cfg.nextTask]
  BY DEF Cfgs
<1>2. /\ IsFiniteSet(cfg.workers \ out)
      /\ Cardinality(cfg.workers \ out) <= Cardinality(cfg.workers)
      /\ Cardinality(cfg.workers \ out) \in Nat /\ Cardinality(cfg.workers) \in Nat
  BY FS_Subset, FS_CardinalityType DEF Sized
<1>3. Cardinality(cfg.workers \ out) <= MaxWorkers
  BY <1>2, ConstantFacts DEF Sized
<1>4. config' \in Cfgs /\ config'.workers = cfg.workers \ out /\ config'.nextIndex = next
  BY <1>1 DEF Cfgs
<1> QED BY <1>2, <1>3, <1>4 DEF Sized

LEMMA RestoreConfigKeeps ==
  ASSUME ScalingInv, NEW s \in Scalers, RestoreConfig(s)
  PROVE  ScalingInv'
<1>1. /\ Typed /\ ScalerOK(s) /\ s \in Procs
  BY ConstantFacts DEF ScalingInv
<1>2. /\ pc[s] = "restoring" /\ pc' = [pc EXCEPT ![s] = "idle"]
      /\ config' = [copy[s] EXCEPT !.workers = @ \ mine[s],
                                   !.nextIndex = @ - Cardinality(mine[s])]
      /\ astray' = (astray \/ Undoes(copy[s])) /\ Forget(s)
      /\ scaling' \in {scaling, NoProc}
      /\ UNCHANGED <<tasks, panes, lastPane, team, draft, faults>>
  BY DEF RestoreConfig, Goto, Write, Release
<1>3. /\ Sized(copy[s]) /\ copy[s] \in Cfgs /\ mine[s] \in SUBSET Workers
      /\ IsFiniteSet(mine[s]) /\ Cardinality(mine[s]) < copy[s].nextIndex
      /\ ~(copy[s].workers \subseteq mine[s])
  BY <1>1, <1>2 DEF ScalerOK, GrowOK, Growing, Typed
<1> DEFINE next == copy[s].nextIndex - Cardinality(mine[s])
<1>4. next \in 0..(MaxIndex + 1) /\ next >= 1
  <2>1. Cardinality(mine[s]) \in Nat /\ copy[s].nextIndex \in 0..(MaxIndex + 1)
    BY <1>3, FS_CardinalityType DEF Cfgs
  <2> QED BY <1>3, <2>1, ConstantFacts
<1>5. config' = [copy[s] EXCEPT !.workers = @ \ mine[s], !.nextIndex = next]
  BY <1>2, <1>3 DEF Cfgs
<1> HIDE DEF next
<1>6. config' \in Cfgs /\ Sized(config)'
  BY <1>2, <1>3, <1>4, <1>5, SmallerSized
<1>7. /\ astray' \in BOOLEAN /\ panes' \subseteq Workers /\ faults' \in 0..MaxFaults
      /\ scaling' \in Scalers \cup {NoProc}
  BY <1>1, <1>2 DEF Typed
<1> QED BY <1>2, <1>6, <1>7, EndKeeps

-----------------------------------------------------------------------------
(* scaleDown.                                                              *)
LEMMA StartDownKeeps ==
  ASSUME ScalingInv, NEW s \in Scalers, StartDown(s)
  PROVE  ScalingInv'
<1>1. /\ Typed /\ Sized(config) /\ ScalerOK(s) /\ s \in Procs
  BY ConstantFacts DEF ScalingInv
<1>2. PICK removed \in SUBSET config.workers :
        KeepsOne(removed) /\ mine' = [mine EXCEPT ![s] = removed]
  BY DEF StartDown
<1>3. /\ pc[s] = "idle" /\ pc' = [pc EXCEPT ![s] = "draining"]
      /\ scaling = NoProc /\ scaling' = s /\ copy' = [copy EXCEPT ![s] = config]
      /\ UNCHANGED <<config, tasks, panes, lastPane, team, draft, want, fresh, made,
                     faults, astray>>
  BY DEF StartDown, Goto
<1>4. ~(config.workers \subseteq removed)
  <2> SUFFICES ASSUME config.workers = removed PROVE FALSE
    BY <1>2
  <2>1. Cardinality(config.workers) \in Nat
    BY <1>1, FS_CardinalityType DEF Sized
  <2> QED BY <1>2, <2>1 DEF KeepsOne
<1>5. removed \in SUBSET Workers
  BY <1>1, <1>2 DEF Typed, Cfgs
<1>6. Typed' /\ Sized(config)'
  BY <1>1, <1>2, <1>3, <1>5 DEF Typed, Points, Sized
<1>7. OnlyMoves(s) /\ TasksOfOthers(s) /\ lastPane <= lastPane'
  BY <1>1, <1>2, <1>3, ConstantFacts DEF Typed, OnlyMoves, TasksOfOthers
<1>8. pc'[s] = "draining" /\ copy'[s] = config /\ mine'[s] = removed
  BY <1>1, <1>2, <1>3 DEF Typed
<1>9. ScalerOK(s)' /\ ProcOK(s)'
  BY <1>1, <1>3, <1>4, <1>8
     DEF ScalerOK, ProcOK, DraftOK, GrowOK, RoomOK, FreshOK, DownOK, MadeOK, IdleOK,
         Growing, Building, Filing, Sized
<1> QED BY <1>1, <1>6, <1>7, <1>9, OthersKept

LEMMA RemoveWorkersKeeps ==
  ASSUME ScalingInv, NEW s \in Scalers, RemoveWorkers(s)
  PROVE  ScalingInv'
<1>1. /\ Typed /\ ScalerOK(s) /\ s \in Procs
  BY ConstantFacts DEF ScalingInv
<1>2. /\ pc[s] = "removing" /\ pc' = [pc EXCEPT ![s] = "idle"]
      /\ config' = [copy[s] EXCEPT !.workers = @ \ mine[s]]
      /\ astray' = (astray \/ Undoes(copy[s])) /\ Forget(s)
      /\ scaling' \in {scaling, NoProc}
      /\ UNCHANGED <<tasks, panes, lastPane, team, draft, faults>>
  BY DEF RemoveWorkers, Goto, Write, Release
<1>3. /\ Sized(copy[s]) /\ copy[s] \in Cfgs /\ mine[s] \in SUBSET Workers
      /\ ~(copy[s].workers \subseteq mine[s])
  BY <1>1, <1>2 DEF ScalerOK, DownOK, Typed
<1>4. /\ copy[s].nextIndex \in 0..(MaxIndex + 1) /\ copy[s].nextIndex >= 1
      /\ config' = [copy[s] EXCEPT !.workers = @ \ mine[s], !.nextIndex = copy[s].nextIndex]
  BY <1>2, <1>3 DEF Cfgs, Sized
<1>5. config' \in Cfgs /\ Sized(config)'
  BY <1>2, <1>3, <1>4, SmallerSized
<1>6. /\ astray' \in BOOLEAN /\ panes' \subseteq Workers /\ faults' \in 0..MaxFaults
      /\ scaling' \in Scalers \cup {NoProc}
  BY <1>1, <1>2 DEF Typed
<1> QED BY <1>2, <1>5, <1>6, EndKeeps

LEMMA EndsKeep ==
  ASSUME ScalingInv, NEW s \in Scalers, RemovalFails(s) \/ Crash(s)
  PROVE  ScalingInv'
<1>1. /\ Typed /\ Sized(config)
  BY DEF ScalingInv
<1>2. /\ config' = config /\ lastPane' = lastPane /\ panes' = panes /\ tasks' = tasks
      /\ team' = team /\ Forget(s) /\ scaling' \in Scalers \cup {NoProc}
  BY <1>1 DEF RemovalFails, Crash, Release, Typed
<1>3. /\ config' \in Cfgs /\ Sized(config)' /\ panes' \subseteq Workers
  BY <1>1, <1>2 DEF Typed, Sized
<1>4. CASE RemovalFails(s)
  BY <1>1, <1>2, <1>3, <1>4, EndKeeps DEF RemovalFails, Goto, Typed
<1>5. CASE Crash(s)
  <2>1. faults' \in 0..MaxFaults /\ astray' \in BOOLEAN
    BY <1>1, <1>5, ConstantFacts DEF Crash, Typed
  <2> QED BY <1>2, <1>3, <1>5, <2>1, EndKeeps DEF Crash
<1> QED BY <1>4, <1>5

-----------------------------------------------------------------------------
LEMMA RecoverLocksKeeps ==
  ASSUME ScalingInv, RecoverLocks
  PROVE  ScalingInv'
<1>1. /\ Typed /\ Sized(config)
      /\ \A p \in Procs : ProcOK(p)
      /\ \A s \in Scalers : ScalerOK(s)
  BY DEF ScalingInv
<1>2. /\ UNCHANGED <<config, tasks, panes, lastPane, pc, draft, scaler, faults, astray>>
      /\ scaling' = IF scaling # NoProc /\ pc[scaling] = "dead" THEN NoProc ELSE scaling
      /\ team' = IF team # NoProc /\ pc[team] = "dead" THEN NoProc ELSE team
  BY DEF RecoverLocks
<1>3. Typed' /\ Sized(config)'
  BY <1>1, <1>2 DEF Typed, scaler, Sized
<1>4. \A p \in Procs : ProcOK(p)'
  <2> SUFFICES ASSUME NEW p \in Procs PROVE ProcOK(p)'
    OBVIOUS
  <2>1. pc[p] \in Filing => team' = p
    BY <1>1, <1>2 DEF ProcOK, Filing
  <2> QED BY <1>1, <1>2, <2>1 DEF ProcOK, DraftOK, Sized
<1>5. \A s \in Scalers : ScalerOK(s)'
  <2> SUFFICES ASSUME NEW s \in Scalers PROVE ScalerOK(s)'
    OBVIOUS
  <2> QED BY <1>1, <1>2
       DEF ScalerOK, GrowOK, RoomOK, FreshOK, DownOK, MadeOK, IdleOK, Sized, scaler
<1> QED BY <1>3, <1>4, <1>5 DEF ScalingInv

LEMMA OutlastLockKeeps ==
  ASSUME ScalingInv, OutlastLock
  PROVE  ScalingInv'
<1>1. /\ UNCHANGED <<config, tasks, panes, lastPane, team, pc, draft, scaler>>
      /\ scaling' = NoProc /\ astray' = TRUE /\ faults < MaxFaults /\ faults' = faults + 1
  BY DEF OutlastLock
<1>2. Typed'
  BY <1>1, ConstantFacts DEF ScalingInv, Typed, scaler
<1> QED BY <1>1, <1>2
     DEF ScalingInv, ProcOK, DraftOK, ScalerOK, GrowOK, RoomOK, FreshOK, DownOK, MadeOK, IdleOK,
         Sized, scaler

LEMMA ScalingStep == ScalingInv /\ [Next]_vars => ScalingInv'
<1> SUFFICES ASSUME ScalingInv, [Next]_vars PROVE ScalingInv'
  OBVIOUS
<1>1. CASE UNCHANGED vars
  BY <1>1
     DEF vars, ScalingInv, Typed, ProcOK, ScalerOK, DraftOK, GrowOK, RoomOK, FreshOK, DownOK, MadeOK, IdleOK, Sized
<1>2. ASSUME NEW p \in Procs, CreateTask(p) PROVE ScalingInv'
  BY <1>2, ReadForTaskKeeps, WriteTaskKeeps, WriteNextTaskKeeps DEF CreateTask
<1>3. ASSUME NEW s \in Scalers, ScaleUp(s) PROVE ScalingInv'
  BY <1>3, StartUpKeeps, SplitKeeps, SplitUncapturedKeeps, GrowFailsKeeps, AddWorkerKeeps,
     ThrowsKeeps, UndoPanesKeeps, DeleteTasksKeeps, RestoreConfigKeeps DEF ScaleUp
<1>4. ASSUME NEW s \in Scalers, ScaleDown(s) PROVE ScalingInv'
  BY <1>4, StartDownKeeps, UndoPanesKeeps, RemoveWorkersKeeps, EndsKeep DEF ScaleDown
<1>5. ASSUME NEW s \in Scalers, Crash(s) PROVE ScalingInv'
  BY <1>5, EndsKeep
<1>6. CASE RecoverLocks
  BY <1>6, RecoverLocksKeeps
<1>7. CASE OutlastLock
  BY <1>7, OutlastLockKeeps
<1>8. CASE Finished
  BY <1>8, <1>1 DEF Finished
<1> QED BY <1>1, <1>2, <1>3, <1>4, <1>5, <1>6, <1>7, <1>8 DEF Next

LEMMA ScalingInvariant == Spec => []ScalingInv
BY ScalingInit, ScalingStep, PTL DEF Spec

-----------------------------------------------------------------------------
(* The scaling lock, until something goes astray.  A killed scaler did.    *)
LockOK == ~astray => \A s \in Scalers : pc[s] # "dead" /\ (pc[s] # "idle" => scaling = s)

LEMMA AstrayStays ==
  ASSUME astray
  PROVE  /\ \A s \in Scalers : ScaleUp(s) \/ ScaleDown(s) => astray'
         /\ \A p \in Procs : CreateTask(p) => astray'
<1>1. ASSUME NEW s \in Scalers, ScaleUp(s) \/ ScaleDown(s) PROVE astray'
  <2>1. CASE AddWorker(s) \/ RestoreConfig(s) \/ RemoveWorkers(s)
    BY <2>1, Zenon DEF AddWorker, RestoreConfig, RemoveWorkers, Write
  <2>2. CASE Throws(s)
    BY <2>2, Zenon DEF Throws
  <2>3. CASE \/ StartUp(s) \/ Split(s) \/ GrowFails(s) \/ UndoPanes(s) \/ DeleteTasks(s)
             \/ StartDown(s) \/ Teardown(s) \/ RemovalFails(s)
    BY <2>3, Zenon DEF StartUp, Split, GrowFails, UndoPanes, DeleteTasks, StartDown,
                       Teardown, RemovalFails
  <2>4. CASE SplitUncaptured(s)
    BY <2>4, Zenon DEF SplitUncaptured
  <2> QED BY <1>1, <2>1, <2>2, <2>3, <2>4 DEF ScaleUp, ScaleDown
<1>2. ASSUME NEW p \in Procs, CreateTask(p) PROVE astray'
  <2>1. CASE WriteNextTask(p)
    BY <2>1, Zenon DEF WriteNextTask, Write
  <2>2. CASE ReadForTask(p) \/ WriteTask(p)
    BY <2>2, Zenon DEF ReadForTask, WriteTask
  <2> QED BY <1>2, <2>1, <2>2 DEF CreateTask
<1> QED BY <1>1, <1>2

(* The scaling lock as a scaler's own step leaves it.                      *)
LEMMA ScalerLocks ==
  ASSUME Typed, NEW s \in Scalers, ScaleUp(s) \/ ScaleDown(s)
  PROVE  /\ \A q \in Procs \ {s} : pc'[q] = pc[q]
         /\ pc'[s] # "dead" /\ pc[s] # "dead" /\ UNCHANGED <<draft, team>>
         /\ \/ pc[s] = "idle" /\ scaling = NoProc /\ scaling' = s
            \/ pc[s] # "idle" /\ scaling' = scaling
            \/ /\ pc[s] # "idle" /\ pc'[s] = "idle"
               /\ scaling' = IF scaling = s THEN NoProc ELSE scaling
<1>1. s \in Procs
  BY ConstantFacts
<1>2. CASE StartUp(s) \/ StartDown(s)
  BY <1>1, <1>2 DEF StartUp, StartDown, Goto, Typed
<1>3. CASE \/ Split(s) \/ SplitUncaptured(s) \/ GrowFails(s) \/ UndoPanes(s)
           \/ DeleteTasks(s) \/ Teardown(s)
  BY <1>1, <1>3 DEF Split, SplitUncaptured, GrowFails, UndoPanes, DeleteTasks, Teardown, Goto, Typed
<1>4. CASE AddWorker(s)
  BY <1>1, <1>4 DEF AddWorker, Release, Goto, Typed
<1>5. CASE Throws(s) \/ RestoreConfig(s) \/ RemoveWorkers(s) \/ RemovalFails(s)
  BY <1>1, <1>5 DEF Throws, RestoreConfig, RemoveWorkers, RemovalFails, Release, Goto, Typed
<1> QED BY <1>2, <1>3, <1>4, <1>5 DEF ScaleUp, ScaleDown

LEMMA LockStep == ScalingInv /\ LockOK /\ [Next]_vars => LockOK'
<1> SUFFICES ASSUME ScalingInv, LockOK, [Next]_vars, ~astray' PROVE LockOK'
  BY DEF LockOK
<1>0. Typed
  BY DEF ScalingInv
<1>1. CASE UNCHANGED vars
  BY <1>1 DEF vars, LockOK
<1>2. ASSUME NEW p \in Procs, CreateTask(p) PROVE LockOK'
  <2>1. ~astray /\ scaling' = scaling
    BY <1>2, AstrayStays
       DEF CreateTask, ReadForTask, WriteTask, WriteNextTask
  <2>2. \A s \in Scalers :
          pc'[s] = pc[s] \/ (pc[s] \notin {"idle", "dead"} /\ pc'[s] \notin {"idle", "dead"})
    BY <1>0, <1>2, ConstantFacts
       DEF CreateTask, ReadForTask, Wants, WriteTask, WriteNextTask, Goto, Typed
  <2> QED BY <2>1, <2>2 DEF LockOK
<1>3. ASSUME NEW s \in Scalers, ScaleUp(s) \/ ScaleDown(s) PROVE LockOK'
  <2>1. ~astray /\ s # NoProc
    BY <1>3, AstrayStays, ConstantFacts
  <2>2. \A q \in Scalers \ {s} : q \in Procs \ {s} /\ q # NoProc
    BY ConstantFacts
  <2> QED BY <1>0, <1>3, <2>1, <2>2, ScalerLocks DEF LockOK
<1>4. ASSUME NEW s \in Scalers, Crash(s) PROVE FALSE
  BY <1>4 DEF Crash
<1>5. CASE OutlastLock
  BY <1>5 DEF OutlastLock
<1>6. CASE RecoverLocks
  BY <1>0, <1>6 DEF RecoverLocks, LockOK, Typed
<1>7. CASE Finished
  BY <1>7, <1>1 DEF Finished
<1> QED BY <1>1, <1>2, <1>3, <1>4, <1>5, <1>6, <1>7 DEF Next

LEMMA LockInvariant == Spec => []LockOK
<1>1. Init => LockOK
  BY ConstantFacts DEF Init, LockOK
<1> QED BY <1>1, LockStep, ScalingInvariant, PTL DEF Spec

(* Types, for any scalers and creators of tasks; the team lock is its      *)
(* holder's, and so is the scaling lock until a scaler is killed, outlasts *)
(* it, or something else goes astray (scaling.ts, state.ts, locks.ts).     *)
THEOREM ScalingTypes == Spec => []TypeOK
<1>1. ScalingInv /\ LockOK => TypeOK
  BY DEF ScalingInv, TypeOK, Typed, ProcOK, LockOK
<1> QED BY <1>1, ScalingInvariant, LockInvariant, PTL

(* Although whole configurations overwrite each other, none is written     *)
(* that has no worker, or more of them than max_workers.                   *)
THEOREM SizeKept == Spec => []TeamSize
<1>1. ScalingInv => TeamSize
  BY DEF ScalingInv, Sized, TeamSize
<1> QED BY <1>1, ScalingInvariant, PTL

(* A task file is replaced by no other task, and deleted only by the       *)
(* rollback of the scaleUp that made it.                                   *)
THEOREM TaskFilesKept == Spec => TasksKept
<1> DEFINE Kept ==
      \A id \in Filed :
       \/ tasks'[id] = tasks[id]
       \/ (tasks'[id] = NoProc /\ pc[tasks[id]] = "deleting")
<1>1. ScalingInv /\ [Next]_vars => [Kept]_tasks
  <2> SUFFICES ASSUME ScalingInv, Next, tasks' # tasks, NEW id \in Filed
               PROVE  \/ tasks'[id] = tasks[id]
                      \/ tasks'[id] = NoProc /\ pc[tasks[id]] = "deleting"
    BY DEF vars
  <2>1. /\ Typed /\ \A p \in Procs : ProcOK(p)
        /\ \A s \in Scalers : ScalerOK(s)
    BY DEF ScalingInv
  <2>2. ASSUME NEW p \in Procs, WriteTask(p) PROVE tasks'[id] = tasks[id]
    <3>1. tasks[draft[p].id] = NoProc /\ tasks' = [tasks EXCEPT ![draft[p].id] = p]
      BY <2>1, <2>2 DEF WriteTask, Goto, ProcOK, DraftOK, Filing
    <3>2. tasks[id] # NoProc /\ id \in 1..MaxTask
      BY DEF Filed
    <3> QED BY <2>1, <3>1, <3>2 DEF Typed
  <2>3. ASSUME NEW s \in Scalers, DeleteTasks(s)
        PROVE  tasks'[id] = tasks[id] \/ (tasks'[id] = NoProc /\ pc[tasks[id]] = "deleting")
    <3>1. /\ tasks' = [i \in 1..MaxTask |-> IF i \in made[s] THEN NoProc ELSE tasks[i]]
          /\ pc[s] = "deleting" /\ \A i \in made[s] : tasks[i] = s
      BY <2>1, <2>3 DEF DeleteTasks, Goto, ScalerOK, MadeOK
    <3> QED BY <3>1 DEF Filed
  <2>4. \/ \E p \in Procs : WriteTask(p)
        \/ \E s \in Scalers : DeleteTasks(s)
    BY DEF Next, CreateTask, ReadForTask, WriteNextTask, ScaleUp, StartUp, Split,
           SplitUncaptured, GrowFails, AddWorker, Throws, UndoPanes, RestoreConfig, ScaleDown,
           StartDown, Teardown, RemoveWorkers, RemovalFails, Crash, OutlastLock, RecoverLocks,
           Finished, vars
  <2> QED BY <2>2, <2>3, <2>4
<1> QED BY <1>1, ScalingInvariant, PTL DEF Spec, TasksKept

-----------------------------------------------------------------------------
(* Names.  As long as nothing went astray, a scaler works on what the      *)
(* configuration says, so an index it takes is one nobody has; and those   *)
(* it added are the ones above where next_worker_index goes back to.       *)
CopyTrue(s) ==
  /\ copy[s].workers = config.workers /\ copy[s].nextIndex = config.nextIndex
  /\ pc[s] \in {"growing", "draining", "removing"} \cup Filing => fresh[s] = {}
  /\ pc[s] \in {"dispatching", "undoing"} =>
       /\ \A w \in fresh[s] : w.index = config.nextIndex
       /\ \A v, w \in fresh[s] : v = w
  /\ pc[s] \in Growing \cup Filing =>
       \A w \in config.workers \ mine[s] : w.index < config.nextIndex - Cardinality(mine[s])
  /\ pc[s] \in {"deleting", "restoring", "removing"} => panes \subseteq config.workers \ mine[s]

ScalerTrue(s) == IF pc[s] \in {"idle", "dead"} THEN fresh[s] = {} ELSE CopyTrue(s)

Distinct ==
  /\ \A v, w \in config.workers : v.index = w.index => v = w
  /\ \A w \in config.workers : w.index < config.nextIndex

Listed == \A w \in panes : w \in config.workers \/ \E s \in Scalers : w \in fresh[s]

NamesInv == ~astray => Distinct /\ Listed /\ \A s \in Scalers : ScalerTrue(s)

LEMMA NamesInit == Init => NamesInv
<1> SUFFICES ASSUME Init PROVE NamesInv
  OBVIOUS
<1>1. /\ config.workers = {[index |-> i, pane |-> i] : i \in 1..InitialCount}
      /\ config.nextIndex = InitialCount + 1 /\ panes = config.workers
      /\ \A s \in Scalers : pc[s] = "idle" /\ fresh[s] = {}
  BY ConstantFacts DEF Init
<1>2. Distinct
  BY <1>1, ConstantFacts DEF Distinct
<1>3. Listed
  BY <1>1 DEF Listed
<1> QED BY <1>1, <1>2, <1>3 DEF NamesInv, ScalerTrue

(* One scaler at a time is at work, so the others see nothing of its step. *)
LEMMA NamesMove ==
  ASSUME NamesInv, LockOK, ~astray, NEW s \in Scalers, scaling \in {s, NoProc},
         OnlyMoves(s), ScalerTrue(s)', Distinct',
         \A w \in panes' : w \in config'.workers \/ w \in fresh'[s]
  PROVE  NamesInv'
<1>1. ASSUME NEW q \in Scalers \ {s} PROVE ScalerTrue(q)'
  <2>1. pc[q] = "idle"
    BY ConstantFacts DEF LockOK
  <2>2. fresh[q] = {}
    BY <2>1 DEF NamesInv, ScalerTrue
  <2> QED BY <2>1, <2>2, ConstantFacts DEF OnlyMoves, ScalerTrue
<1>2. Listed'
  BY DEF Listed
<1> QED BY <1>1, <1>2 DEF NamesInv

LEMMA ScalerMoves ==
  ASSUME ScalingInv, LockOK, ~astray, NEW s \in Scalers, ScaleUp(s) \/ ScaleDown(s)
  PROVE  /\ OnlyMoves(s) /\ scaling \in {s, NoProc}
         /\ pc[s] # "idle" => scaling = s
<1>1. Typed /\ s \in Procs
  BY ConstantFacts DEF ScalingInv
<1>2. /\ pc[s] = "idle" => scaling = NoProc
      /\ \A q \in Procs \ {s} : pc'[q] = pc[q]
      /\ UNCHANGED <<draft, team>>
  BY <1>1, ScalerLocks
<1>3. pc[s] # "idle" => scaling = s
  BY DEF LockOK
<1>4. ASSUME NEW q \in Scalers \ {s}
      PROVE  /\ copy'[q] = copy[q] /\ want'[q] = want[q] /\ mine'[q] = mine[q]
             /\ fresh'[q] = fresh[q] /\ made'[q] = made[q]
  <2>1. CASE StartUp(s) \/ Split(s) \/ StartDown(s)
    BY <1>1, <2>1 DEF StartUp, Split, StartDown, Typed
  <2>2. CASE \/ SplitUncaptured(s) \/ GrowFails(s) \/ UndoPanes(s) \/ DeleteTasks(s)
             \/ Teardown(s)
    BY <2>2 DEF SplitUncaptured, GrowFails, UndoPanes, DeleteTasks, Teardown, scaler
  <2>3. CASE AddWorker(s) /\ want[s].workers # 1
    BY <1>1, <2>3 DEF AddWorker, Typed
  <2>4. CASE Forget(s)
    BY <1>1, <2>4 DEF Forget, Typed
  <2> QED BY <2>1, <2>2, <2>3, <2>4
       DEF ScaleUp, ScaleDown, AddWorker, Throws, RestoreConfig, RemoveWorkers, RemovalFails, Release
<1> QED BY <1>2, <1>3, <1>4 DEF OnlyMoves

(* createTask writes what it has read, which is as it is unless astray.    *)
LEMMA NamesCreate ==
  ASSUME NamesInv, ScalingInv, NEW p \in Procs, CreateTask(p), ~astray'
  PROVE  NamesInv'
<1>1. Typed /\ ~astray
  BY AstrayStays DEF ScalingInv
<1>2. /\ config'.workers = config.workers /\ config'.nextIndex = config.nextIndex
      /\ UNCHANGED <<panes, copy, mine, fresh>>
  <2>1. CASE ReadForTask(p) \/ WriteTask(p)
    BY <2>1 DEF ReadForTask, WriteTask, scaler
  <2>2. CASE WriteNextTask(p)
    <3>1. /\ config' = [draft[p].cfg EXCEPT !.nextTask = draft[p].id + 1]
          /\ ~Undoes(draft[p].cfg) /\ draft[p].cfg \in Cfgs
      BY <1>1, <2>2 DEF WriteNextTask, Write, Typed
    <3>2. config'.workers = draft[p].cfg.workers /\ config'.nextIndex = draft[p].cfg.nextIndex
      BY <3>1 DEF Cfgs
    <3> QED BY <2>2, <3>1, <3>2 DEF Undoes, WriteNextTask
  <2> QED BY <2>1, <2>2 DEF CreateTask
<1>3. ASSUME NEW s \in Scalers
      PROVE  \/ pc'[s] = pc[s]
             \/ pc[s] \in {"growing"} \cup Filing /\ pc'[s] \in {"growing"} \cup Filing
  BY <1>1, ConstantFacts
     DEF CreateTask, ReadForTask, Wants, WriteTask, WriteNextTask, Goto, Typed, Filing
<1>4. ASSUME NEW s \in Scalers PROVE ScalerTrue(s)'
  <2>1. ScalerTrue(s)
    BY <1>1 DEF NamesInv
  <2>2. CASE pc'[s] = pc[s]
    BY <1>2, <2>1, <2>2 DEF ScalerTrue, CopyTrue
  <2>3. CASE pc[s] \in {"growing"} \cup Filing /\ pc'[s] \in {"growing"} \cup Filing
    BY <1>2, <2>1, <2>3 DEF ScalerTrue, CopyTrue, Filing, Growing
  <2> QED BY <1>3, <2>2, <2>3
<1>5. Distinct' /\ Listed'
  BY <1>1, <1>2 DEF NamesInv, Distinct, Listed
<1> QED BY <1>4, <1>5 DEF NamesInv

LEMMA NamesScaler ==
  ASSUME NamesInv, ScalingInv, LockOK, NEW s \in Scalers, ScaleUp(s) \/ ScaleDown(s), ~astray'
  PROVE  NamesInv'
<1>1. /\ Typed /\ ~astray /\ ScalerOK(s) /\ s \in Procs /\ NoProc # s
      /\ Distinct /\ ScalerTrue(s)
  BY ConstantFacts, AstrayStays DEF NamesInv, ScalingInv
<1>2. /\ scaling \in {s, NoProc}
      /\ pc[s] # "idle" => scaling = s /\ CopyTrue(s)
  BY <1>1, ScalerMoves DEF ScalerTrue, LockOK
<1>3. \A w \in panes : w \in config.workers \/ w \in fresh[s]
  <2>1. \A q \in Scalers \ {s} : fresh[q] = {}
    <3> SUFFICES ASSUME NEW q \in Scalers \ {s} PROVE fresh[q] = {}
      OBVIOUS
    <3>1. pc[q] = "idle"
      BY <1>1, <1>2, ConstantFacts DEF LockOK
    <3> QED BY <1>1, <3>1 DEF NamesInv, ScalerTrue
  <2> QED BY <1>1, <2>1 DEF NamesInv, Listed
<1>4. OnlyMoves(s)
  BY <1>1, ScalerMoves
<1>5. Cardinality({}) = 0
  BY FS_EmptySet
<1>6. config.nextIndex \in Nat /\ config \in Cfgs /\ copy[s] \in Cfgs
      /\ \A w \in Workers : w.index \in Nat
  BY <1>1 DEF Typed, Cfgs, Workers
<1>7. CASE StartUp(s) \/ StartDown(s)
  <2>1. /\ pc'[s] \in {"growing", "draining"} /\ copy'[s] = config /\ fresh'[s] = {}
        /\ mine[s] = {} /\ (pc'[s] = "growing" => mine'[s] = {})
        /\ UNCHANGED <<config, panes>> /\ fresh[s] = {}
    <3>1. pc[s] = "idle" /\ mine[s] = {} /\ fresh[s] = {}
      BY <1>1, <1>7 DEF StartUp, StartDown, Goto, ScalerOK, IdleOK, ScalerTrue
    <3>2. CASE StartUp(s)
      BY <1>1, <3>1, <3>2 DEF StartUp, Goto, Typed
    <3>3. CASE StartDown(s)
      BY <1>1, <3>1, <3>3 DEF StartDown, Goto, Typed
    <3> QED BY <1>7, <3>2, <3>3
  <2>2. ScalerTrue(s)'
    <3>1. \A w \in config.workers : w.index \in Nat /\ w.index < config.nextIndex
      BY <1>1, <1>6 DEF Distinct, Cfgs
    <3>2. pc'[s] = "growing" =>
            \A w \in config.workers \ mine'[s] :
               w.index < config.nextIndex - Cardinality(mine'[s])
      <4>1. pc'[s] = "growing" => Cardinality(mine'[s]) = 0
        BY <1>5, <2>1, Zenon
      <4> QED BY <1>6, <3>1, <4>1
    <3>3. pc'[s] \in {"growing", "draining"} /\ fresh'[s] = {}
      BY <2>1
    <3>4. config' = config /\ copy'[s] = config'
      BY <2>1
    <3>5. pc'[s] \in Growing \cup Filing =>
            \A w \in config'.workers \ mine'[s] :
               w.index < config'.nextIndex - Cardinality(mine'[s])
      BY <3>2, <3>3, <3>4 DEF Growing, Filing
    <3> QED BY <3>3, <3>4, <3>5 DEF ScalerTrue, CopyTrue
  <2>3. Distinct'
    BY <1>1, <2>1 DEF Distinct
  <2> QED BY <1>1, <1>2, <1>3, <1>4, <2>1, <2>2, <2>3, NamesMove
<1>8. CASE Split(s)
  <2>1. /\ pc[s] = "growing" /\ pc'[s] = "dispatching"
        /\ fresh'[s] = {[index |-> copy[s].nextIndex, pane |-> lastPane + 1]}
        /\ panes' = panes \cup fresh'[s]
        /\ UNCHANGED <<config, copy, mine>> /\ fresh[s] = {}
    BY <1>1, <1>2, <1>8 DEF Split, Goto, Typed, CopyTrue
  <2>2. ScalerTrue(s)'
    BY <1>2, <2>1 DEF ScalerTrue, CopyTrue, Growing, Filing
  <2>3. Distinct'
    BY <1>1, <2>1 DEF Distinct
  <2>4. \A w \in panes' : w \in config'.workers \/ w \in fresh'[s]
    BY <1>3, <2>1
  <2> QED BY <1>1, <1>2, <1>4, <2>2, <2>3, <2>4, NamesMove
<1>9. CASE GrowFails(s) \/ DeleteTasks(s)
  <2>1. /\ \/ pc[s] \in {"growing", "dispatching"} /\ pc'[s] = "undoing"
           \/ pc[s] = "deleting" /\ pc'[s] = "restoring"
        /\ UNCHANGED <<config, copy, mine, fresh, panes>>
    BY <1>1, <1>9 DEF GrowFails, DeleteTasks, Goto, Typed, scaler
  <2>2. ScalerTrue(s)'
    BY <1>2, <2>1 DEF ScalerTrue, CopyTrue, Growing, Filing
  <2>3. Distinct'
    BY <1>1, <2>1 DEF Distinct
  <2> QED BY <1>1, <1>2, <1>3, <1>4, <2>1, <2>2, <2>3, NamesMove
<1>10. CASE UndoPanes(s) \/ Teardown(s)
  <2>1. /\ \/ /\ pc[s] = "undoing" /\ pc'[s] = "deleting"
              /\ panes' = panes \ (mine[s] \cup fresh[s])
           \/ /\ pc[s] = "draining" /\ pc'[s] = "removing" /\ panes' = panes \ mine[s]
              /\ fresh[s] = {}
        /\ UNCHANGED <<config, copy, mine, fresh>>
    BY <1>1, <1>2, <1>10 DEF UndoPanes, Teardown, Goto, Typed, scaler, CopyTrue
  <2>2. panes' \subseteq config.workers \ mine[s]
    BY <1>3, <2>1
  <2>3. ScalerTrue(s)'
    BY <1>2, <2>1, <2>2 DEF ScalerTrue, CopyTrue, Growing, Filing
  <2>4. Distinct'
    BY <1>1, <2>1 DEF Distinct
  <2> QED BY <1>1, <1>2, <1>4, <2>1, <2>2, <2>3, <2>4, NamesMove
<1>11. CASE Throws(s) \/ RemovalFails(s)
  <2>1. /\ pc'[s] = "idle" /\ fresh'[s] = {} /\ fresh[s] = {} /\ UNCHANGED <<config, panes>>
    <3>1. CASE Throws(s)
      BY <1>1, <3>1 DEF Throws, Goto, Typed, Release, Forget
    <3>2. CASE RemovalFails(s)
      BY <1>1, <1>2, <3>2 DEF RemovalFails, Goto, Typed, Release, Forget, CopyTrue
    <3> QED BY <1>11, <3>1, <3>2
  <2>2. ScalerTrue(s)' /\ Distinct'
    BY <1>1, <2>1 DEF ScalerTrue, Distinct
  <2> QED BY <1>1, <1>2, <1>3, <1>4, <2>1, <2>2, NamesMove
<1>12. CASE AddWorker(s)
  <2>1. /\ pc[s] = "dispatching" /\ config' = Added(copy[s], fresh[s]) /\ panes' = panes
        /\ ~Undoes(copy[s])
    BY <1>12 DEF AddWorker, Goto, Write
  <2>2. PICK w \in Workers : fresh[s] = {w} /\ w \notin copy[s].workers
    BY <1>1, <2>1 DEF ScalerOK, FreshOK, Typed
  <2>3. /\ w.index = config.nextIndex /\ w \notin config.workers
        /\ config'.workers = config.workers \cup {w}
        /\ config'.nextIndex = config.nextIndex + 1
    BY <1>2, <1>6, <2>1, <2>2 DEF CopyTrue, Added, Cfgs
  <2>4. \A v \in config.workers : v.index \in Nat /\ v.index < config.nextIndex
    BY <1>1, <1>6 DEF Distinct, Cfgs
  <2>5. Distinct'
    <3>1. \A v \in config'.workers : v.index < config.nextIndex + 1
      BY <1>6, <2>3, <2>4
    <3>2. \A u, v \in config'.workers : u.index = v.index => u = v
      BY <1>1, <1>6, <2>3, <2>4 DEF Distinct
    <3> QED BY <2>3, <3>1, <3>2 DEF Distinct
  <2>6. \A v \in panes' : v \in config'.workers
    BY <1>3, <2>1, <2>2, <2>3
  <2>7. ScalerTrue(s)'
    <3>1. CASE want[s].workers = 1
      <4>1. pc'[s] = "idle" /\ fresh'[s] = {}
        BY <1>1, <3>1, <1>12 DEF AddWorker, Goto, Release, Forget, Typed
      <4> QED BY <4>1 DEF ScalerTrue
    <3>2. CASE want[s].workers # 1
      <4>1. /\ pc'[s] = "growing" /\ fresh'[s] = {} /\ copy'[s] = config'
            /\ mine'[s] = mine[s] \cup {w}
        BY <1>1, <2>2, <3>2, <1>12 DEF AddWorker, Goto, Typed
      <4>2. IsFiniteSet(mine[s]) /\ Cardinality(mine[s]) \in Nat
        BY <1>1, <2>1, FS_CardinalityType DEF ScalerOK, GrowOK, Growing
      <4>3. Cardinality(mine[s] \cup {w}) \in {Cardinality(mine[s]), Cardinality(mine[s]) + 1}
        BY <4>2, FS_AddElement
      <4>4. ASSUME NEW v \in config'.workers \ mine'[s]
            PROVE  v.index < config'.nextIndex - Cardinality(mine'[s])
        <5>1. v \in config.workers \ mine[s] /\ v.index \in Nat
          BY <2>3, <2>4, <4>1, <4>4
        <5>2. v.index < config.nextIndex - Cardinality(mine[s])
          BY <1>2, <2>1, <5>1 DEF CopyTrue, Growing
        <5> QED BY <1>6, <2>3, <4>1, <4>2, <4>3, <5>1, <5>2
      <4> QED BY <4>1, <4>4 DEF ScalerTrue, CopyTrue, Growing, Filing
    <3> QED BY <3>1, <3>2
  <2> QED BY <1>1, <1>2, <1>4, <2>5, <2>6, <2>7, NamesMove
<1>13. CASE RestoreConfig(s)
  <2>1. /\ pc[s] = "restoring" /\ pc'[s] = "idle" /\ fresh'[s] = {} /\ panes' = panes
        /\ config' = [copy[s] EXCEPT !.workers = @ \ mine[s],
                                     !.nextIndex = @ - Cardinality(mine[s])]
    BY <1>1, <1>13 DEF RestoreConfig, Goto, Write, Release, Forget, Typed
  <2>2. /\ config'.workers = config.workers \ mine[s]
        /\ config'.nextIndex = config.nextIndex - Cardinality(mine[s])
    BY <1>2, <1>6, <2>1 DEF CopyTrue, Cfgs
  <2>3. /\ panes \subseteq config.workers \ mine[s]
        /\ \A w \in config.workers \ mine[s] : w.index < config.nextIndex - Cardinality(mine[s])
    BY <1>2, <2>1 DEF CopyTrue, Growing
  <2>4. Distinct'
    BY <1>1, <2>2, <2>3 DEF Distinct
  <2>5. ScalerTrue(s)' /\ \A w \in panes' : w \in config'.workers
    BY <2>1, <2>2, <2>3 DEF ScalerTrue
  <2> QED BY <1>1, <1>2, <1>4, <2>4, <2>5, NamesMove
<1>14. CASE RemoveWorkers(s)
  <2>1. /\ pc[s] = "removing" /\ pc'[s] = "idle" /\ fresh'[s] = {} /\ panes' = panes
        /\ config' = [copy[s] EXCEPT !.workers = @ \ mine[s]]
    BY <1>1, <1>14 DEF RemoveWorkers, Goto, Write, Release, Forget, Typed
  <2>2. /\ config'.workers = config.workers \ mine[s]
        /\ config'.nextIndex = config.nextIndex
    BY <1>2, <1>6, <2>1 DEF CopyTrue, Cfgs
  <2>3. Distinct'
    BY <1>1, <2>2 DEF Distinct
  <2>4. ScalerTrue(s)' /\ \A w \in panes' : w \in config'.workers
    BY <1>2, <2>1, <2>2 DEF ScalerTrue, CopyTrue
  <2> QED BY <1>1, <1>2, <1>4, <2>3, <2>4, NamesMove
<1>15. CASE SplitUncaptured(s)
  BY <1>15 DEF SplitUncaptured
<1> QED BY <1>7, <1>8, <1>9, <1>10, <1>11, <1>12, <1>13, <1>14, <1>15 DEF ScaleUp, ScaleDown

LEMMA NamesStep == ScalingInv /\ LockOK /\ NamesInv /\ [Next]_vars => NamesInv'
<1> SUFFICES ASSUME ScalingInv, LockOK, NamesInv, [Next]_vars, ~astray' PROVE NamesInv'
  BY DEF NamesInv
<1>1. CASE UNCHANGED vars
  BY <1>1 DEF vars, NamesInv, Distinct, Listed, ScalerTrue, CopyTrue
<1>2. ASSUME NEW p \in Procs, CreateTask(p) PROVE NamesInv'
  BY <1>2, NamesCreate
<1>3. ASSUME NEW s \in Scalers, ScaleUp(s) \/ ScaleDown(s) PROVE NamesInv'
  BY <1>3, NamesScaler
<1>4. ASSUME NEW s \in Scalers, Crash(s) PROVE FALSE
  BY <1>4 DEF Crash
<1>5. CASE RecoverLocks
  BY <1>5 DEF RecoverLocks, scaler, NamesInv, Distinct, Listed, ScalerTrue, CopyTrue
<1>6. CASE OutlastLock
  BY <1>6 DEF OutlastLock
<1>7. CASE Finished
  BY <1>7, <1>1 DEF Finished
<1> QED BY <1>1, <1>2, <1>3, <1>4, <1>5, <1>6, <1>7 DEF Next

LEMMA NamesInvariant == Spec => []NamesInv
BY NamesInit, NamesStep, ScalingInvariant, LockInvariant, PTL DEF Spec

(* "Monotonic worker index counter ensures unique names": it does, for any *)
(* team and any rollbacks, until a write undoes another one, a scaler is   *)
(* killed or outlasts its lock, or one loses track of a pane it has made.  *)
THEOREM NamesAreUnique == Spec => []NamesUniqueUnlessAstray
<1>1. NamesInv /\ ScalingInv /\ LockOK => NamesUniqueUnlessAstray
  <2> SUFFICES ASSUME NamesInv, ScalingInv, LockOK, ~astray, NEW v \in panes, NEW w \in panes,
                      v.index = w.index
               PROVE  v = w
    BY DEF NamesUniqueUnlessAstray, NamesUnique
  <2>1. CASE \A s \in Scalers : fresh[s] = {} \/ pc[s] \in {"deleting", "restoring"}
    <3>1. v \in config.workers /\ w \in config.workers
      BY <2>1 DEF NamesInv, Listed, ScalerTrue, CopyTrue
    <3> QED BY <3>1 DEF NamesInv, Distinct
  <2>2. ASSUME NEW s \in Scalers, fresh[s] # {}, pc[s] \notin {"deleting", "restoring"}
        PROVE  v = w
    <3>0. Typed /\ pc[s] \in Points /\ ScalerTrue(s)
      BY ConstantFacts DEF NamesInv, Typed, ScalingInv
    <3>1. /\ Typed /\ pc[s] \in {"dispatching", "undoing"}
          /\ \A x \in fresh[s] : x.index = config.nextIndex
          /\ \A x, y \in fresh[s] : x = y
      BY <2>2, <3>0 DEF ScalerTrue, CopyTrue, Points, Growing, Filing
    <3>2. \A q \in Scalers \ {s} : fresh[q] = {}
      BY <3>1 DEF NamesInv, ScalerTrue, LockOK
    <3>3. \A x \in config.workers : x.index \in Nat /\ x.index < config.nextIndex
      BY <3>1 DEF NamesInv, Distinct, Typed, Cfgs, Workers
    <3>4. /\ v \in config.workers \/ v \in fresh[s]
          /\ w \in config.workers \/ w \in fresh[s]
      BY <3>2 DEF NamesInv, Listed
    <3>5. config.nextIndex \in Nat
      BY <3>1 DEF Typed, Cfgs
    <3>6. ASSUME v \in config.workers, w \in config.workers PROVE v = w
      BY <3>6 DEF NamesInv, Distinct
    <3>7. ASSUME v \in fresh[s], w \in fresh[s] PROVE v = w
      BY <3>1, <3>7
    <3> QED BY <3>1, <3>3, <3>4, <3>5, <3>6, <3>7
  <2> QED BY <2>1, <2>2
<1> QED BY <1>1, NamesInvariant, ScalingInvariant, LockInvariant, PTL

(* Nor does a live pane exist then that is not, or not about to be, in the *)
(* configuration, so that nobody would ever shut it down.                  *)
THEOREM PanesAreListed == Spec => []PanesListed
<1>1. NamesInv => PanesListed
  BY DEF NamesInv, Listed, PanesListed
<1> QED BY <1>1, NamesInvariant, PTL
=============================================================================
