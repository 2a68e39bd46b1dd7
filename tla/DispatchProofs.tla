-------------------------- MODULE DispatchProofs --------------------------
(***************************************************************************)
(* For any calls, hooks, keys and faults: the types of Dispatch, that a    *)
(* request in the engine's log lives the life it should, and that nothing  *)
(* is reported to be told to a worker that was not typed. And as long as   *)
(* nothing happened that the stores do not survive: that no instruction is *)
(* queued twice at a time or typed twice, and that failures are final.     *)
(***************************************************************************)
EXTENDS Dispatch, TLAPS

Executing == {"loading", "loaded", "regenerating"}

(* What a process asks of the engine: a call to queue its own request, or  *)
(* to mark one whose text it typed; a hook to settle the one it handles.   *)
CmdTrue(p) ==
  pc[p] \in Executing =>
    /\ cmd[p] # NoCmd
    /\ cmd[p].op = "queue" =>
         p \in Calls /\ cmd[p].req = p /\ cmd[p].back = "queued" /\ cmd[p].fail = "unqueued"
    /\ cmd[p].op = "notify" => WasTyped(cmd[p].req)
    /\ p \in Calls /\ cmd[p].op # "queue" =>
         cmd[p].back = "ok" /\ cmd[p].fail = "listing" /\ p \in sent
    /\ p \in Hooks =>
         cmd[p].back \in {"injected", "concluding"} /\ cmd[p].fail \in {"injected", "concluding"}

Unborn(c) ==
  pc[c] = "idle" \/ (pc[c] \in {"loading", "loaded"} /\ cmd[c].op = "queue")
NoTrace(c) == log[c] = "absent" /\ \A p \in Procs : engine[p][c] = "absent"

CallTrue(c) ==
  /\ pc[c] # "idle" => req[c] \in Calls
  /\ pc[c] = "idle" => c \notin sent
  /\ pc[c] \in {"marking", "listing", "patching"} => c \in sent
  /\ pc[c] = "ok" => WasTyped(req[c])
  /\ Unborn(c) => NoTrace(c)

HookTrue(h) ==
  /\ pc[h] # "idle" => req[h] \in Calls
  /\ result[h] = "confirmed" => pc[h] # "idle" /\ typed[req[h]] > 0

(* In every store, and in every copy of one that is still to be written.   *)
StoresTrue ==
  \A r \in Calls :
    (\/ log[r] \in Informed \/ Status(view, r) \in Informed \/ Status(legacy, r) \in Informed
     \/ Status(copy.list, r) \in Informed \/ \E p \in Procs : engine[p][r] \in Informed)
      => WasTyped(r)

DispatchInv ==
  /\ TypeOK /\ StoresTrue
  /\ \A p \in Procs : CmdTrue(p)
  /\ \A c \in Calls : CallTrue(c)
  /\ \A h \in Hooks : HookTrue(h)

-----------------------------------------------------------------------------
LEMMA ProcFacts ==
  /\ Calls \subseteq Procs /\ Hooks \subseteq Procs /\ NoProc \notin Procs
  /\ Calls \cap Hooks = {} /\ Direct \subseteq Calls
  /\ MaxTries \in Nat \ {0} /\ MaxFaults \in Nat
BY DispatchAssumption, RequestAssumption DEF Procs

LEMMA EmptyTyped ==
  /\ EmptyLog \in Logs /\ ListOf(EmptyLog) \in Lists
  /\ \A log_ \in Logs : ListOf(log_) \in Lists
BY ProcFacts DEF EmptyLog, Logs, Lists, ListOf, Statuses

Moves(p) ==
  /\ \A q \in Procs \ {p} :
       pc'[q] = pc[q] /\ cmd'[q] = cmd[q] /\ req'[q] = req[q] /\ engine'[q] = engine[q]
  /\ \A h \in Hooks \ {p} : result'[h] = result[h]
  /\ \A r \in Calls : typed[r] <= typed'[r]
  /\ sent \subseteq sent' /\ sent' \subseteq sent \cup {p}
  /\ \A c \in sent : req'[c] = req[c]

LEMMA TypedGrows ==
  ASSUME DispatchInv, TypeOK', NEW p \in Procs, Moves(p)
  PROVE  \A r \in Calls : WasTyped(r) => WasTyped(r)'
<1> SUFFICES ASSUME NEW r \in Calls, WasTyped(r) PROVE WasTyped(r)'
  OBVIOUS
<1>1. typed[r] \in Nat /\ typed'[r] \in Nat /\ typed[r] <= typed'[r]
  BY DEF DispatchInv, TypeOK, Moves
<1>2. CASE typed[r] > 0
  BY <1>1, <1>2 DEF WasTyped
<1>3. ASSUME NEW c \in sent, req[c] = r PROVE WasTyped(r)'
  BY <1>3 DEF Moves, WasTyped
<1> QED BY <1>2, <1>3 DEF WasTyped

(* A step of p that is in order for p is in order.                         *)
LEMMA MoveKeeps ==
  ASSUME DispatchInv, TypeOK', StoresTrue', NEW p \in Procs, Moves(p),
         \A c \in Calls \ {p} : NoTrace(c) => NoTrace(c)',
         CmdTrue(p)', p \in Calls => CallTrue(p)', p \in Hooks => HookTrue(p)'
  PROVE  DispatchInv'
<1>1. \A r \in Calls : WasTyped(r) => WasTyped(r)'
  BY TypedGrows
<1>2. ASSUME NEW q \in Procs \ {p} PROVE CmdTrue(q)'
  <2>1. pc'[q] = pc[q] /\ cmd'[q] = cmd[q] /\ CmdTrue(q) /\ CommandOK(cmd[q])
    BY DEF DispatchInv, Moves, TypeOK
  <2>2. pc[q] \in Executing => cmd[q].req \in Calls
    BY <2>1 DEF CmdTrue, CommandOK
  <2>3. sent \subseteq sent'
    BY DEF Moves
  <2> QED BY <1>1, <2>1, <2>2, <2>3 DEF CmdTrue
<1>3. ASSUME NEW c \in Calls \ {p} PROVE CallTrue(c)'
  <2>1. /\ pc'[c] = pc[c] /\ cmd'[c] = cmd[c] /\ req'[c] = req[c] /\ CallTrue(c)
    BY ProcFacts DEF DispatchInv, Moves
  <2>2. c \in sent' <=> c \in sent
    BY DEF Moves
  <2>3. pc[c] = "ok" => WasTyped(req[c])'
    BY <1>1, <2>1 DEF CallTrue
  <2>4. Unborn(c)' => NoTrace(c)'
    BY <2>1 DEF CallTrue, Unborn
  <2> QED BY <2>1, <2>2, <2>3, <2>4 DEF CallTrue
<1>4. ASSUME NEW h \in Hooks \ {p} PROVE HookTrue(h)'
  <2>1. /\ pc'[h] = pc[h] /\ req'[h] = req[h] /\ result'[h] = result[h] /\ HookTrue(h)
    BY ProcFacts DEF DispatchInv, Moves
  <2>2. \A r \in Calls : typed[r] > 0 => typed'[r] > 0
    BY DEF DispatchInv, TypeOK, Moves
  <2> QED BY <2>1, <2>2 DEF HookTrue
<1> QED BY <1>2, <1>3, <1>4 DEF DispatchInv

(* What most steps leave alone: what the engine and others know.           *)
LEMMA QuietMove ==
  ASSUME DispatchInv, TypeOK', NEW p \in Procs, UNCHANGED <<log, engine, typed, sent>>,
         \A q \in Procs \ {p} : pc'[q] = pc[q] /\ cmd'[q] = cmd[q] /\ req'[q] = req[q],
         \A h \in Hooks \ {p} : result'[h] = result[h],
         req'[p] = req[p] \/ p \notin sent
  PROVE  /\ Moves(p) /\ \A c \in Calls : NoTrace(c) => NoTrace(c)'
         /\ \A r \in Calls : WasTyped(r) => WasTyped(r)'
<1>1. \A r \in Calls : typed[r] <= typed'[r]
  BY DEF DispatchInv, TypeOK
<1>2. \A c \in sent : req'[c] = req[c]
  BY ProcFacts DEF DispatchInv, TypeOK
<1>3. Moves(p)
  BY <1>1, <1>2 DEF Moves
<1> QED BY <1>3, TypedGrows DEF NoTrace

LEMMA DispatchInit == Init => DispatchInv
<1> SUFFICES ASSUME Init PROVE DispatchInv
  OBVIOUS
<1>1. /\ pc \in [Procs -> Points] /\ \A p \in Procs : pc[p] = "idle"
      /\ log \in Logs /\ engine \in [Procs -> Logs]
      /\ view \in Lists /\ legacy \in Lists /\ cut \in BOOLEAN
  BY EmptyTyped DEF Init, Points
<1>2. /\ copy \in [list : Lists, both : BOOLEAN]
  BY EmptyTyped DEF Init, NoCopy
<1>3. DOMAIN cmd = Procs /\ \A p \in Procs : CommandOK(cmd[p])
  BY DEF Init, CommandOK
<1>4. /\ lock \in Procs \cup {NoProc} /\ req \in [Procs -> Calls \cup {NoReq}]
      /\ seen \in [Calls -> Statuses] /\ lease \in [Calls -> Hooks \cup {NoProc}]
      /\ result \in [Hooks -> {"none", "confirmed", "unconfirmed", "refused"}]
      /\ typed \in [Calls -> 0..2] /\ sent \subseteq Calls /\ mishap \in BOOLEAN
  <2>1. lock \in Procs \cup {NoProc} /\ req \in [Procs -> Calls \cup {NoReq}]
    BY DEF Init, NoReq
  <2>2. seen \in [Calls -> Statuses] /\ lease \in [Calls -> Hooks \cup {NoProc}]
    BY DEF Init, Statuses
  <2>3. /\ result \in [Hooks -> {"none", "confirmed", "unconfirmed", "refused"}]
        /\ typed \in [Calls -> 0..2]
    BY DEF Init
  <2>4. sent \subseteq Calls /\ mishap \in BOOLEAN
    BY DEF Init
  <2> QED BY <2>1, <2>2, <2>3, <2>4
<1>5. TypeOK
  BY <1>1, <1>2, <1>3, <1>4 DEF TypeOK
<1>6. StoresTrue
  BY DEF Init, StoresTrue, EmptyLog, ListOf, NoCopy, Status, Informed
<1>7. \A p \in Procs : CmdTrue(p)
  BY <1>1 DEF CmdTrue, Executing
<1>8. \A c \in Calls : CallTrue(c)
  BY <1>1, ProcFacts DEF Init, CallTrue, NoTrace, EmptyLog
<1>9. \A h \in Hooks : HookTrue(h)
  BY <1>1, ProcFacts DEF Init, HookTrue
<1> QED BY <1>5, <1>6, <1>7, <1>8, <1>9 DEF DispatchInv

-----------------------------------------------------------------------------
(* The engine.                                                             *)
LEMMA Resumed ==
  ASSUME DispatchInv, NEW p \in Procs, pc[p] \in Executing
  PROVE  /\ CommandOK(cmd[p]) /\ cmd[p] # NoCmd /\ cmd[p].req \in Calls
         /\ cmd[p].back \in Points /\ cmd[p].fail \in Points
         /\ CmdTrue(p)
BY DEF DispatchInv, TypeOK, CmdTrue, CommandOK

(* Whatever a killed engine leaves in the files, nothing in it is new.     *)
LEMMA InterruptedTrue ==
  ASSUME DispatchInv, NEW p \in Procs, Interrupted(p)
  PROVE  /\ log' \in {log, EmptyLog} /\ log' \in Logs
         /\ view' \in Lists /\ legacy' = legacy /\ cut' \in BOOLEAN
         /\ \A r \in Calls : Status(view', r) \in Informed => WasTyped(r)
<1>1. TypeOK /\ StoresTrue
  BY DEF DispatchInv
<1>2. CASE UNCHANGED stores
  BY <1>1, <1>2 DEF TypeOK, StoresTrue, stores
<1>3. CASE LoseLog(p) \/ CutView(p)
  BY <1>1, <1>3, EmptyTyped DEF TypeOK, StoresTrue, LoseLog, CutView
<1>4. CASE RewriteView(p)
  <2>1. /\ view' = ListOf(engine[p]) /\ engine[p] \in Logs
        /\ log' = log /\ legacy' = legacy /\ cut' = FALSE /\ log \in Logs
    BY <1>1, <1>4 DEF RewriteView, TypeOK
  <2>2. \A r \in Calls : Status(view', r) = engine[p][r]
    BY <2>1 DEF ListOf, Status
  <2>3. \A r \in Calls : engine[p][r] \in Informed => WasTyped(r)
    BY <1>1 DEF StoresTrue
  <2>4. view' \in Lists
    BY <2>1, EmptyTyped
  <2> QED BY <2>1, <2>2, <2>3, <2>4
<1> QED BY <1>2, <1>3, <1>4 DEF Interrupted

(* A process is in order where it goes on after the engine, whether that   *)
(* did what was asked or not.                                              *)
LEMMA EndExecKeeps ==
  ASSUME DispatchInv, TypeOK', StoresTrue', NEW p \in Procs, pc[p] \in Executing,
         NEW to \in {cmd[p].back, cmd[p].fail}, EndExec(p, to),
         log' \in {log, EmptyLog}, UNCHANGED <<req, result, typed, sent>>
  PROVE  DispatchInv'
<1>1. /\ cmd[p].req \in Calls /\ to \in Points /\ CmdTrue(p) /\ cmd[p] # NoCmd
      /\ cmd[p].op \in {"queue", "notify", "deliver", "fail"}
  BY Resumed DEF CommandOK
<1>2. /\ pc'[p] = to /\ pc' = [pc EXCEPT ![p] = to] /\ cmd' = [cmd EXCEPT ![p] = NoCmd]
      /\ engine' = [engine EXCEPT ![p] = EmptyLog]
  BY DEF EndExec, Goto, DispatchInv, TypeOK
<1>3. /\ \A q \in Procs \ {p} : pc'[q] = pc[q] /\ cmd'[q] = cmd[q] /\ engine'[q] = engine[q]
      /\ engine'[p] = EmptyLog
  <2>1. cmd' = [cmd EXCEPT ![p] = NoCmd] /\ \A q \in Procs \ {p} : cmd'[q] = cmd[q]
    BY <1>2
  <2> QED BY <1>2, <2>1 DEF DispatchInv, TypeOK
<1>4. \A r \in Calls : typed[r] <= typed'[r]
  BY DEF DispatchInv, TypeOK
<1>5. Moves(p)
  BY <1>3, <1>4 DEF Moves
<1>6. \A c \in Calls : NoTrace(c) => NoTrace(c)'
  BY <1>3 DEF NoTrace, EmptyLog
<1>7. CmdTrue(p)'
  <2>1. to \notin Executing
    BY <1>1, ProcFacts DEF CmdTrue, Executing, Procs
  <2> QED BY <1>2, <2>1 DEF CmdTrue
<1>8. ASSUME p \in Calls PROVE CallTrue(p)'
  <2>1. CallTrue(p)
    BY <1>8 DEF DispatchInv
  <2>2. CASE cmd[p].op = "queue"
    BY <1>1, <1>2, <1>8, <2>1, <2>2 DEF CmdTrue, CallTrue, Unborn, Executing
  <2>3. CASE cmd[p].op # "queue"
    <3>1. p \in sent /\ to \in {"ok", "listing"} /\ req[p] \in Calls
      BY <1>1, <1>8, <2>1, <2>3 DEF CmdTrue, CallTrue, Executing
    <3>2. WasTyped(req[p])'
      BY <3>1 DEF WasTyped
    <3> QED BY <1>2, <3>1, <3>2 DEF CallTrue, Unborn
  <2> QED BY <2>2, <2>3
<1>9. ASSUME p \in Hooks PROVE HookTrue(p)'
  BY <1>1, <1>2, <1>9 DEF DispatchInv, CmdTrue, HookTrue, Executing
<1> QED BY <1>5, <1>6, <1>7, <1>8, <1>9, MoveKeeps

LEMMA EndExecTyped ==
  ASSUME DispatchInv, NEW p \in Procs, NEW to \in Points, EndExec(p, to)
  PROVE  /\ pc' \in [Procs -> Points] /\ engine' \in [Procs -> Logs]
         /\ DOMAIN cmd' = Procs /\ \A q \in Procs : CommandOK(cmd'[q])
         /\ \A q \in Procs : engine'[q] = engine[q] \/ engine'[q] = EmptyLog
<1>1. TypeOK
  BY DEF DispatchInv
<1>2. pc' \in [Procs -> Points] /\ engine' \in [Procs -> Logs]
  BY <1>1, EmptyTyped DEF TypeOK, EndExec, Goto
<1>3. \A q \in Procs : engine'[q] = engine[q] \/ engine'[q] = EmptyLog
  BY <1>1 DEF TypeOK, EndExec
<1>4. ASSUME NEW q \in Procs PROVE CommandOK(cmd'[q])
  BY <1>1 DEF TypeOK, EndExec, CommandOK
<1>5. DOMAIN cmd' = Procs
  BY <1>1 DEF TypeOK, EndExec
<1> QED BY <1>2, <1>3, <1>4, <1>5

LEMMA EngineKeeps ==
  ASSUME DispatchInv, NEW p \in Procs, Engine(p)
  PROVE  DispatchInv'
<1>1. /\ pc[p] \in Executing /\ TypeOK /\ StoresTrue /\ CmdTrue(p)
      /\ cmd[p].req \in Calls /\ cmd[p].back \in Points /\ cmd[p].fail \in Points
      /\ cmd[p].op \in {"queue", "notify", "deliver", "fail"}
  <2>1. pc[p] \in Executing
    BY DEF Engine, ExecFails, Load, Refuse, Persist, Regenerate, RewriteView, Jump, Executing
  <2> QED BY <2>1, Resumed DEF DispatchInv, CommandOK
<1>2. CASE ExecFails(p) \/ Refuse(p)
  <2>1. /\ EndExec(p, cmd[p].fail) /\ UNCHANGED <<lock, copy, req, seen, result, lease, texts>>
        /\ Interrupted(p) /\ mishap' \in BOOLEAN
    BY <1>1, <1>2 DEF ExecFails, Refuse, Interrupted, Note, TypeOK
  <2>a. /\ log' \in {log, EmptyLog} /\ log' \in Logs
        /\ view' \in Lists /\ legacy' = legacy /\ cut' \in BOOLEAN
        /\ \A r \in Calls : Status(view', r) \in Informed => WasTyped(r)
    BY <2>1, InterruptedTrue
  <2>2. TypeOK'
    BY <1>1, <2>1, <2>a, EndExecTyped DEF TypeOK, texts
  <2>3. StoresTrue'
    <3>1. \A q \in Procs : engine'[q] = engine[q] \/ engine'[q] = EmptyLog
      BY <1>1, <2>1, EndExecTyped
    <3>2. \A r \in Calls : WasTyped(r)' <=> WasTyped(r)
      BY <2>1 DEF WasTyped, texts
    <3> QED BY <1>1, <2>1, <2>a, <3>1, <3>2 DEF StoresTrue, EmptyLog, Informed, Status
  <2> QED BY <1>1, <2>1, <2>a, <2>2, <2>3, EndExecKeeps DEF texts
<1>3. CASE Load(p)
  <2>1. /\ pc[p] = "loading" /\ pc' = [pc EXCEPT ![p] = "loaded"]
        /\ engine' = [engine EXCEPT ![p] = log]
        /\ UNCHANGED <<stores, cmd, lock, copy, req, seen, result, lease, texts, faults, mishap>>
    BY <1>3 DEF Load, Jump, Goto
  <2>2. TypeOK'
    BY <1>1, <2>1 DEF TypeOK, Points, stores, texts
  <2>3. /\ pc'[p] = "loaded" /\ engine'[p] = log
        /\ \A q \in Procs \ {p} : pc'[q] = pc[q] /\ engine'[q] = engine[q]
    BY <1>1, <2>1 DEF TypeOK
  <2>4. \A r \in Calls : WasTyped(r)' <=> WasTyped(r)
    BY <2>1 DEF WasTyped, texts
  <2>5. StoresTrue'
    BY <1>1, <2>1, <2>3, <2>4 DEF StoresTrue, stores, Status
  <2>6. Moves(p)
    BY <1>1, <2>1, <2>3 DEF Moves, TypeOK, texts
  <2>7. \A c \in Calls : NoTrace(c) => NoTrace(c)'
    BY <2>1, <2>3 DEF NoTrace, stores
  <2>8. CmdTrue(p)'
    BY <1>1, <2>1, <2>3, <2>4 DEF CmdTrue, Executing, texts
  <2>9. ASSUME p \in Calls PROVE CallTrue(p)'
    <3>1. CallTrue(p) /\ (Unborn(p)' => Unborn(p))
      BY <2>1, <2>3, <2>9 DEF DispatchInv, Unborn
    <3> QED BY <2>1, <2>3, <2>7, <2>9, <3>1 DEF CallTrue
  <2>10. ASSUME p \in Hooks PROVE HookTrue(p)'
    BY <2>1, <2>3, <2>10 DEF DispatchInv, HookTrue, texts
  <2> QED BY <2>2, <2>5, <2>6, <2>7, <2>8, <2>9, <2>10, MoveKeeps
<1>4. CASE Persist(p)
  <2>1. /\ pc[p] = "loaded" /\ pc' = [pc EXCEPT ![p] = "regenerating"]
        /\ Accepts(engine[p], cmd[p])
        /\ log' = Processed(engine[p], cmd[p]) /\ engine' = [engine EXCEPT ![p] = log']
        /\ mishap' = (mishap \/ engine[p] # log)
        /\ UNCHANGED <<view, legacy, cut, cmd, lock, copy, req, seen, result, lease, texts, faults>>
    BY <1>4 DEF Persist, Jump, Goto, Note
  <2>2. /\ engine[p] \in Logs /\ Outcome[cmd[p].op] \in Statuses
        /\ log' = [engine[p] EXCEPT ![cmd[p].req] = Outcome[cmd[p].op]] /\ log' \in Logs
    BY <1>1, <2>1 DEF Processed, TypeOK, Outcome, Statuses, Logs
  <2>3. /\ log'[cmd[p].req] = Outcome[cmd[p].op]
        /\ \A r \in Calls \ {cmd[p].req} : log'[r] = engine[p][r]
    BY <1>1, <2>2 DEF Logs
  <2>4. /\ pc'[p] = "regenerating" /\ engine'[p] = log'
        /\ \A q \in Procs \ {p} : pc'[q] = pc[q] /\ engine'[q] = engine[q]
    BY <1>1, <2>1 DEF TypeOK
  <2>5. TypeOK'
    <3>1. pc' \in [Procs -> Points] /\ engine' \in [Procs -> Logs] /\ mishap' \in BOOLEAN
      BY <1>1, <2>1, <2>2 DEF TypeOK, Points
    <3> QED BY <1>1, <2>1, <2>2, <3>1 DEF TypeOK, texts
  <2>6. \A r \in Calls : WasTyped(r)' <=> WasTyped(r)
    BY <2>1 DEF WasTyped, texts
  <2>7. \A r \in Calls : log'[r] \in Informed => WasTyped(r)
    <3>1. \A r \in Calls : engine[p][r] \in Informed => WasTyped(r)
      BY <1>1 DEF StoresTrue
    <3>2. Outcome[cmd[p].op] \in Informed => WasTyped(cmd[p].req)
      <4>1. CASE cmd[p].op = "notify"
        BY <1>1, <4>1 DEF CmdTrue
      <4>2. CASE cmd[p].op = "deliver"
        BY <1>1, <2>1, <3>1, <4>2 DEF Accepts, Informed
      <4>3. CASE cmd[p].op \in {"queue", "fail"}
        BY <4>3 DEF Outcome, Informed
      <4> QED BY <1>1, <4>1, <4>2, <4>3
    <3> QED BY <2>3, <3>1, <3>2
  <2>8. StoresTrue'
    BY <1>1, <2>1, <2>4, <2>6, <2>7 DEF StoresTrue, Status
  <2>9. Moves(p)
    BY <1>1, <2>1, <2>4 DEF Moves, TypeOK, texts
  <2>10. ASSUME NEW c \in Calls \ {p}, NoTrace(c) PROVE NoTrace(c)'
    <3>1. cmd[p].req # c
      BY <1>1, <2>1, <2>10 DEF NoTrace, Accepts, CmdTrue
    <3> QED BY <2>3, <2>4, <2>10, <3>1 DEF NoTrace
  <2>11. CmdTrue(p)'
    BY <1>1, <2>1, <2>4, <2>6 DEF CmdTrue, Executing, texts
  <2>12. ASSUME p \in Calls PROVE CallTrue(p)'
    BY <2>1, <2>4, <2>12 DEF DispatchInv, CallTrue, Unborn, texts
  <2>13. ASSUME p \in Hooks PROVE HookTrue(p)'
    BY <2>1, <2>4, <2>13 DEF DispatchInv, HookTrue, texts
  <2> QED BY <2>5, <2>8, <2>9, <2>10, <2>11, <2>12, <2>13, MoveKeeps
<1>5. CASE Regenerate(p)
  <2>1. /\ view' = ListOf(engine[p]) /\ mishap' = (mishap \/ engine[p] # log)
        /\ EndExec(p, cmd[p].back) /\ cut' = FALSE
        /\ UNCHANGED <<log, legacy, lock, copy, req, seen, result, lease, texts, faults>>
    BY <1>5 DEF Regenerate, RewriteView, Note
  <2>2. view' \in Lists /\ mishap' \in BOOLEAN
    BY <1>1, <2>1, EmptyTyped DEF TypeOK
  <2>3. TypeOK'
    BY <1>1, <2>1, <2>2, EndExecTyped DEF TypeOK, texts
  <2>4. StoresTrue'
    <3>1. \A q \in Procs : engine'[q] = engine[q] \/ engine'[q] = EmptyLog
      BY <1>1, <2>1, EndExecTyped
    <3>2. \A r \in Calls : WasTyped(r)' <=> WasTyped(r)
      BY <2>1 DEF WasTyped, texts
    <3>3. \A r \in Calls : Status(view', r) = engine[p][r]
      BY <2>1 DEF ListOf, Status
    <3>4. \A r \in Calls : Status(view', r) \in Informed => WasTyped(r)
      BY <1>1, <3>3 DEF StoresTrue
    <3> QED BY <1>1, <2>1, <3>1, <3>2, <3>4 DEF StoresTrue, EmptyLog, Informed, Status
  <2> QED BY <1>1, <2>1, <2>3, <2>4, EndExecKeeps DEF texts
<1> QED BY <1>2, <1>3, <1>4, <1>5 DEF Engine

-----------------------------------------------------------------------------
(* Lists that are read and written.                                        *)
Backed(list) == \A r \in Calls : Status(list, r) \in Informed => WasTyped(r)
Informs(r) ==
  \/ Status(view, r) \in Informed \/ Status(legacy, r) \in Informed
  \/ Status(copy.list, r) \in Informed

LEMMA ListsTrue ==
  ASSUME DispatchInv
  PROVE  /\ view \in Lists /\ legacy \in Lists /\ cut \in BOOLEAN /\ copy.list \in Lists /\ mishap \in BOOLEAN
         /\ copy.both \in BOOLEAN
         /\ Backed(view) /\ Backed(legacy) /\ Backed(copy.list)
BY DEF DispatchInv, TypeOK, StoresTrue, Backed

LEMMA StoresKept ==
  ASSUME DispatchInv, UNCHANGED <<log, engine, typed>>,
         \A r \in Calls : WasTyped(r) => WasTyped(r)',
         \A r \in Calls : Informs(r)' => WasTyped(r)'
  PROVE  StoresTrue'
BY DEF DispatchInv, StoresTrue, Informs, Status

LEMMA ReadTrue ==
  ASSUME DispatchInv, NEW list \in {view, legacy}, Read(list)
  PROVE  list \in Lists /\ Backed(list) /\ mishap' \in BOOLEAN
BY ListsTrue DEF Read, ReadWhole, ReadTorn, Note

LEMMA WriteTrue ==
  ASSUME DispatchInv, NEW list \in Lists, Backed(list), WriteList(list)
  PROVE  /\ view' \in Lists /\ legacy' \in Lists /\ cut' \in BOOLEAN /\ mishap' \in BOOLEAN
         /\ \A r \in Calls : Status(view', r) \in Informed \/ Status(legacy', r) \in Informed
                              => WasTyped(r)
BY ListsTrue DEF WriteList, Note, Backed

LEMMA UnlockTrue ==
  ASSUME Unlock
  PROVE  /\ lock' \in Procs \cup {NoProc}
         /\ copy' \in [list : Lists, both : BOOLEAN]
         /\ \A r \in Calls : Status(copy'.list, r) \notin Informed
BY EmptyTyped DEF Unlock, NoCopy, ListOf, EmptyLog, Status, Informed

LEMMA TakeLockTrue ==
  ASSUME NEW p \in Procs, NEW list \in Lists, NEW both \in BOOLEAN, Backed(list),
         TakeLock(p, list, both)
  PROVE  /\ lock' \in Procs \cup {NoProc}
         /\ copy' \in [list : Lists, both : BOOLEAN]
         /\ \A r \in Calls : Status(copy'.list, r) \in Informed => WasTyped(r)
BY DEF TakeLock, Backed

LEMMA MovedTrue ==
  ASSUME NEW list \in Lists, Backed(list), NEW r \in Calls, NEW to \in Statuses,
         to \in Informed => WasTyped(r)
  PROVE  Moved(list, r, to) \in Lists /\ Backed(Moved(list, r, to))
<1> DEFINE new == IF list[r].status = to THEN list[r] ELSE [status |-> to, tries |-> 0]
<1>1. Moved(list, r, to) = [list EXCEPT ![r] = new]
  BY DEF Moved
<1>2. new \in [status : Statuses, tries : 0..(MaxTries - 1)] /\ new.status = to
  BY ProcFacts DEF Lists
<1> HIDE DEF new
<1> QED BY <1>1, <1>2 DEF Lists, Backed, Status

LEMMA WithPendingTrue ==
  ASSUME NEW list \in Lists, Backed(list), NEW r \in Calls
  PROVE  WithPending(list, r) \in Lists /\ Backed(WithPending(list, r))
<1> DEFINE new == [status |-> "pending", tries |-> 0]
<1>1. WithPending(list, r) = [list EXCEPT ![r] = new]
  BY DEF WithPending
<1>2. new \in [status : Statuses, tries : 0..(MaxTries - 1)] /\ new.status \notin Informed
  BY ProcFacts DEF Statuses, Informed
<1> HIDE DEF new
<1> QED BY <1>1, <1>2 DEF Lists, Backed, Status

(* A step of a call that is under way and asks nothing of the engine.      *)
LEMMA PlainCall ==
  ASSUME DispatchInv, NEW c \in Calls, pc[c] # "idle",
         NEW to \in Points \ (Executing \cup {"idle"}), pc' = [pc EXCEPT ![c] = to],
         UNCHANGED <<log, engines, req, result, lease, texts>>,
         seen' \in [Calls -> Statuses], mishap' \in BOOLEAN, lock' \in Procs \cup {NoProc},
         view' \in Lists, legacy' \in Lists, cut' \in BOOLEAN, copy' \in [list : Lists, both : BOOLEAN],
         \A r \in Calls : Informs(r)' => WasTyped(r),
         to \in {"marking", "listing", "patching"} => c \in sent,
         to = "ok" => WasTyped(req[c])
  PROVE  DispatchInv'
<1>1. TypeOK /\ CallTrue(c) /\ c \in Procs /\ c \notin Hooks
  BY ProcFacts DEF DispatchInv
<1>2. TypeOK'
  BY <1>1 DEF TypeOK, engines, texts
<1>3. /\ pc'[c] = to
      /\ \A q \in Procs \ {c} : pc'[q] = pc[q] /\ cmd'[q] = cmd[q] /\ req'[q] = req[q]
  BY <1>1 DEF TypeOK, engines
<1>4. /\ Moves(c) /\ \A d \in Calls : NoTrace(d) => NoTrace(d)'
      /\ \A r \in Calls : WasTyped(r) => WasTyped(r)'
  BY <1>1, <1>2, <1>3, QuietMove DEF engines, texts
<1>5. StoresTrue'
  BY <1>4, StoresKept DEF engines, texts
<1>6. CmdTrue(c)'
  BY <1>3 DEF CmdTrue
<1>7. CallTrue(c)'
  <2>1. to = "ok" => WasTyped(req[c])'
    BY <1>1, <1>4 DEF CallTrue
  <2> QED BY <1>1, <1>3, <2>1 DEF CallTrue, Unborn, Executing, texts
<1> QED BY <1>1, <1>2, <1>4, <1>5, <1>6, <1>7, MoveKeeps

(* One that only reads, and leaves the lock as it is.                      *)
LEMMA ReadingCall ==
  ASSUME DispatchInv, NEW c \in Calls, pc[c] # "idle",
         NEW to \in Points \ (Executing \cup {"idle"}), pc' = [pc EXCEPT ![c] = to],
         UNCHANGED <<stores, engines, lock, copy, req, result, lease, texts>>,
         seen' \in [Calls -> Statuses], mishap' \in BOOLEAN,
         to \in {"marking", "listing", "patching"} => c \in sent,
         to = "ok" => WasTyped(req[c])
  PROVE  DispatchInv'
<1>1. /\ UNCHANGED <<log, engines, req, result, lease, texts>>
      /\ view' = view /\ legacy' = legacy /\ cut' = cut /\ copy' = copy /\ lock' = lock
  BY DEF stores
<1>2. /\ lock' \in Procs \cup {NoProc} /\ view' \in Lists /\ legacy' \in Lists /\ cut' \in BOOLEAN
      /\ copy' \in [list : Lists, both : BOOLEAN]
  BY <1>1 DEF DispatchInv, TypeOK
<1>3. \A r \in Calls : Informs(r)' => WasTyped(r)
  BY <1>1, ListsTrue DEF Backed, Informs, Status
<1>4. UNCHANGED <<log, engines, req, result, lease, texts>>
  BY <1>1
<1> QED BY <1>2, <1>3, <1>4, PlainCall

(* One that writes a list and unlocks.                                     *)
LEMMA WritingCall ==
  ASSUME DispatchInv, NEW c \in Calls, pc[c] # "idle",
         NEW to \in Points \ (Executing \cup {"idle"}), pc' = [pc EXCEPT ![c] = to],
         NEW list \in Lists, Backed(list), WriteList(list), Unlock,
         UNCHANGED <<log, engines, req, seen, result, lease, texts>>,
         to \in {"marking", "listing", "patching"} => c \in sent,
         to = "ok" => WasTyped(req[c])
  PROVE  DispatchInv'
<1>1. seen' \in [Calls -> Statuses]
  BY DEF DispatchInv, TypeOK
<1>2. /\ view' \in Lists /\ legacy' \in Lists /\ cut' \in BOOLEAN /\ mishap' \in BOOLEAN
      /\ \A r \in Calls : Status(view', r) \in Informed \/ Status(legacy', r) \in Informed
                           => WasTyped(r)
  BY WriteTrue
<1>3. /\ lock' \in Procs \cup {NoProc} /\ copy' \in [list : Lists, both : BOOLEAN]
      /\ \A r \in Calls : Status(copy'.list, r) \notin Informed
  BY UnlockTrue
<1>4. \A r \in Calls : Informs(r)' => WasTyped(r)
  BY <1>2, <1>3 DEF Informs, Status
<1> QED BY <1>1, <1>2, <1>3, <1>4, PlainCall

(* One that takes the lock with a list that it will write.                 *)
LEMMA LockingCall ==
  ASSUME DispatchInv, NEW c \in Calls, pc[c] # "idle", pc' = [pc EXCEPT ![c] = "writing"],
         NEW list \in Lists, Backed(list), TakeLock(c, list, TRUE),
         UNCHANGED <<stores, engines, req, result, lease, texts>>,
         seen' \in [Calls -> Statuses], mishap' \in BOOLEAN
  PROVE  DispatchInv'
<1>1. /\ UNCHANGED <<log, engines, req, result, lease, texts>>
      /\ view' = view /\ legacy' = legacy /\ cut' = cut
  BY DEF stores
<1>2. /\ view' \in Lists /\ legacy' \in Lists /\ cut' \in BOOLEAN /\ c \in Procs
      /\ "writing" \in Points \ (Executing \cup {"idle"})
  BY <1>1, ListsTrue, ProcFacts DEF Points, Executing
<1>3. /\ lock' \in Procs \cup {NoProc} /\ copy' \in [list : Lists, both : BOOLEAN]
      /\ \A r \in Calls : Status(copy'.list, r) \in Informed => WasTyped(r)
  BY <1>2, TakeLockTrue
<1>4. \A r \in Calls : Informs(r)' => WasTyped(r)
  BY <1>1, <1>3, ListsTrue DEF Backed, Informs, Status
<1>5. UNCHANGED <<log, engines, req, result, lease, texts>>
  BY <1>1
<1>6. "writing" \in {"marking", "listing", "patching"} => c \in sent
  OBVIOUS
<1>7. "writing" = "ok" => WasTyped(req[c])
  OBVIOUS
<1> QED BY <1>2, <1>3, <1>4, <1>5, <1>6, <1>7, PlainCall

-----------------------------------------------------------------------------
(* The calls.                                                              *)
LEMMA CallFacts ==
  ASSUME DispatchInv, NEW c \in Calls, pc[c] # "idle"
  PROVE  /\ TypeOK /\ CallTrue(c) /\ req[c] \in Calls /\ c \in Procs
         /\ c \in sent => WasTyped(req[c])
         /\ seen \in [Calls -> Statuses] /\ mishap \in BOOLEAN
         /\ Verdict(c) \in Points \ (Executing \cup {"idle"})
         /\ Verdict(c) = "ok" => WasTyped(req[c])
         /\ Verdict(c) \notin {"marking", "listing", "patching"}
BY ProcFacts DEF DispatchInv, TypeOK, CallTrue, WasTyped, Verdict, Points, Executing, Done

LEMMA ReadBackKeeps ==
  ASSUME DispatchInv, NEW c \in Calls, ReadBack(c)
  PROVE  DispatchInv'
<1>1. pc[c] = "queued"
  BY DEF ReadBack
<1>2. PICK list \in {view, legacy} :
        /\ Read(list)
        /\ IF Status(list, c) # "absent"
           THEN Goto(c, AfterQueue(c)) /\ Unlock
           ELSE Goto(c, "unqueued") /\ UNCHANGED <<lock, copy>>
  BY DEF ReadBack
<1>3. /\ UNCHANGED <<stores, engines, req, seen, result, lease, texts>>
      /\ seen' \in [Calls -> Statuses] /\ mishap' \in BOOLEAN
  BY <1>1, <1>2, CallFacts, ReadTrue DEF ReadBack
<1>4. CASE Status(list, c) # "absent"
  <2>1. pc' = [pc EXCEPT ![c] = AfterQueue(c)] /\ Unlock
    BY <1>2, <1>4 DEF Goto
  <2>2. /\ AfterQueue(c) \in Points \ (Executing \cup {"idle"})
        /\ AfterQueue(c) \notin {"marking", "listing", "patching", "ok"}
    BY DEF AfterQueue, Points, Executing
  <2>3. /\ UNCHANGED <<log, engines, req, result, lease, texts>>
        /\ view' \in Lists /\ legacy' \in Lists /\ cut' \in BOOLEAN
        /\ \A r \in Calls : Status(view', r) \in Informed \/ Status(legacy', r) \in Informed
                           => WasTyped(r)
    BY <1>3, ListsTrue DEF stores, Backed
  <2>4. /\ lock' \in Procs \cup {NoProc} /\ copy' \in [list : Lists, both : BOOLEAN]
        /\ \A r \in Calls : Status(copy'.list, r) \notin Informed
    BY <2>1, UnlockTrue
  <2>5. \A r \in Calls : Informs(r)' => WasTyped(r)
    BY <2>3, <2>4 DEF Informs, Status
  <2> QED BY <1>1, <1>3, <2>1, <2>2, <2>3, <2>4, <2>5, PlainCall
<1>5. CASE Status(list, c) = "absent"
  <2>1. pc' = [pc EXCEPT ![c] = "unqueued"] /\ UNCHANGED <<lock, copy>>
    BY <1>2, <1>5 DEF Goto
  <2>2. "unqueued" \in Points \ (Executing \cup {"idle"})
    BY DEF Points, Executing
  <2> QED BY <1>1, <1>3, <2>1, <2>2, ReadingCall
<1> QED BY <1>4, <1>5

LEMMA WritesKeep ==
  ASSUME DispatchInv, NEW c \in Calls, QueueInList(c) \/ WriteTransition(c)
  PROVE  DispatchInv'
<1>1. CASE QueueInList(c)
  <2>1. /\ pc[c] = "unqueued" /\ pc' = [pc EXCEPT ![c] = AfterQueue(c)]
        /\ WriteList(WithPending(copy.list, c)) /\ Unlock
        /\ UNCHANGED <<log, engines, req, seen, result, lease, texts>>
    BY <1>1 DEF QueueInList, Jump, Goto
  <2>2. /\ AfterQueue(c) \in Points \ (Executing \cup {"idle"})
        /\ AfterQueue(c) \notin {"marking", "listing", "patching", "ok"}
    BY DEF AfterQueue, Points, Executing
  <2>3. WithPending(copy.list, c) \in Lists /\ Backed(WithPending(copy.list, c))
    BY ListsTrue, WithPendingTrue
  <2> QED BY <2>1, <2>2, <2>3, WritingCall
<1>2. CASE WriteTransition(c)
  <2>1. /\ pc[c] = "writing" /\ pc' = [pc EXCEPT ![c] = Verdict(c)]
        /\ WriteList(copy.list) /\ Unlock
        /\ UNCHANGED <<log, engines, req, seen, result, lease, texts>>
    BY <1>2 DEF WriteTransition, Jump, Goto
  <2>2. /\ Verdict(c) \in Points \ (Executing \cup {"idle"})
        /\ Verdict(c) = "ok" => WasTyped(req[c])
        /\ Verdict(c) \notin {"marking", "listing", "patching"}
    BY <2>1, CallFacts
  <2>3. copy.list \in Lists /\ Backed(copy.list)
    BY ListsTrue
  <2> QED BY <2>1, <2>2, <2>3, WritingCall
<1> QED BY <1>1, <1>2

LEMMA ReceiptKeeps ==
  ASSUME DispatchInv, NEW c \in Calls, Receipt(c)
  PROVE  DispatchInv'
<1>1. pc[c] = "waiting"
  BY DEF Receipt
<1>2. PICK list \in {view, legacy} :
        /\ Read(list)
        /\ \/ Status(list, req[c]) = "delivered" /\ Goto(c, "ok")
           \/ Status(list, req[c]) = "notified" /\ Goto(c, "ok")
           \/ Status(list, req[c]) = "notified" /\ Goto(c, "falling")
           \/ Status(list, req[c]) = "failed" /\ Goto(c, "rescuing")
           \/ Status(list, req[c]) \in {"pending", "absent"} /\ Goto(c, "falling")
  BY DEF Receipt
<1>3. /\ UNCHANGED <<stores, engines, lock, copy, req, result, lease, texts>>
      /\ seen' \in [Calls -> Statuses] /\ mishap' \in BOOLEAN
      /\ Backed(list) /\ req[c] \in Calls
  BY <1>1, <1>2, CallFacts, ReadTrue DEF Receipt
<1>4. PICK to \in {"ok", "falling", "rescuing"} :
        /\ pc' = [pc EXCEPT ![c] = to]
        /\ to = "ok" => Status(list, req[c]) \in Informed
  BY <1>2 DEF Goto, Informed
<1>5. to \in Points \ (Executing \cup {"idle"}) /\ (to = "ok" => WasTyped(req[c]))
  BY <1>3, <1>4 DEF Backed, Points, Executing, Done
<1> QED BY <1>1, <1>3, <1>4, <1>5, ReadingCall

LEMMA TypingKeeps ==
  ASSUME DispatchInv, NEW c \in Calls, TypeDirectly(c) \/ TypingFails(c)
  PROVE  DispatchInv'
<1>1. CASE TypingFails(c)
  <2>1. PICK to \in {"failing", "failinglist"} :
          /\ pc[c] # "idle" /\ pc' = [pc EXCEPT ![c] = to]
          /\ seen' \in {seen, [seen EXCEPT ![c] = "failed"]}
    BY <1>1 DEF TypingFails, Jump, Goto
  <2>2. /\ UNCHANGED <<stores, engines, lock, copy, req, result, lease, texts, mishap>>
    BY <1>1 DEF TypingFails
  <2>3. seen' \in [Calls -> Statuses] /\ mishap' \in BOOLEAN
    BY <2>1, <2>2, CallFacts DEF Statuses
  <2>4. to \in Points \ (Executing \cup {"idle"})
    BY DEF Points, Executing
  <2> QED BY <2>1, <2>2, <2>3, <2>4, ReadingCall
<1>2. CASE TypeDirectly(c)
  <2>1. PICK to \in {"marking", "patching"} :
          /\ pc[c] # "idle" /\ pc' = [pc EXCEPT ![c] = to]
    BY <1>2 DEF TypeDirectly, Jump, Goto
  <2>2. /\ sent' = sent \cup {c}
        /\ UNCHANGED <<stores, engines, lock, copy, req, seen, result, lease, typed, faults, mishap>>
    BY <1>2 DEF TypeDirectly
  <2>3. TypeOK /\ CallTrue(c) /\ c \in Procs /\ c \notin Hooks
    BY <2>1, CallFacts, ProcFacts
  <2>4. TypeOK'
    BY <2>1, <2>2, <2>3 DEF TypeOK, stores, engines, Points
  <2>5. /\ pc'[c] = to /\ \A q \in Procs \ {c} : pc'[q] = pc[q]
    BY <2>1, <2>3 DEF TypeOK
  <2>6. Moves(c)
    BY <2>2, <2>3, <2>5 DEF Moves, engines, TypeOK
  <2>7. \A r \in Calls : WasTyped(r) => WasTyped(r)'
    BY <2>3, <2>4, <2>6, TypedGrows
  <2>8. StoresTrue'
    BY <2>2, <2>7 DEF DispatchInv, StoresTrue, stores, engines, Status
  <2>9. \A d \in Calls : NoTrace(d) => NoTrace(d)'
    BY <2>2 DEF NoTrace, stores, engines
  <2>10. CmdTrue(c)' /\ CallTrue(c)'
    BY <2>1, <2>2, <2>3, <2>5 DEF CmdTrue, CallTrue, Unborn, Executing
  <2> QED BY <2>3, <2>4, <2>6, <2>8, <2>9, <2>10, MoveKeeps
<1> QED BY <1>1, <1>2

(* A process that turns to the engine.                                     *)
LEMMA ExecTyped ==
  ASSUME DispatchInv, NEW p \in Procs, NEW op \in {"queue", "notify", "deliver", "fail"},
         NEW r \in Calls, NEW back \in Points, NEW fail \in Points,
         Exec(p, op, r, back, fail)
  PROVE  /\ pc' \in [Procs -> Points] /\ pc'[p] = "loading"
         /\ DOMAIN cmd' = Procs /\ \A q \in Procs : CommandOK(cmd'[q])
         /\ cmd'[p] # NoCmd /\ cmd'[p].op = op /\ cmd'[p].req = r
         /\ cmd'[p].back = back /\ cmd'[p].fail = fail
         /\ \A q \in Procs \ {p} : pc'[q] = pc[q] /\ cmd'[q] = cmd[q]
<1> DEFINE new == [op |-> op, req |-> r, back |-> back, fail |-> fail]
<1>1. /\ pc \in [Procs -> Points] /\ DOMAIN cmd = Procs /\ \A q \in Procs : CommandOK(cmd[q])
  BY DEF DispatchInv, TypeOK
<1>2. pc' = [pc EXCEPT ![p] = "loading"] /\ cmd' = [cmd EXCEPT ![p] = new]
  BY DEF Exec, Goto
<1>3. new # NoCmd /\ CommandOK(new)
  <2>1. new.op # NoCmd.op
    BY DEF NoCmd
  <2> QED BY <2>1 DEF CommandOK
<1>4. /\ new.op = op /\ new.req = r /\ new.back = back /\ new.fail = fail
  OBVIOUS
<1> HIDE DEF new
<1>5. cmd'[p] = new /\ DOMAIN cmd' = Procs /\ \A q \in Procs \ {p} : cmd'[q] = cmd[q]
  BY <1>1, <1>2
<1>6. \A q \in Procs : CommandOK(cmd'[q])
  BY <1>1, <1>3, <1>5
<1>7. /\ pc' \in [Procs -> Points] /\ pc'[p] = "loading"
      /\ \A q \in Procs \ {p} : pc'[q] = pc[q]
  BY <1>1, <1>2 DEF Points
<1> QED BY <1>3, <1>4, <1>5, <1>6, <1>7

LEMMA DedupeKeeps ==
  ASSUME DispatchInv, NEW c \in Calls, Dedupe(c)
  PROVE  DispatchInv'
<1>1. PICK list \in {view, legacy}, r \in Calls, to \in {"notok", "waiting"} :
        /\ Read(list) /\ req' = [req EXCEPT ![c] = r]
        /\ pc[c] = "idle" /\ pc' = [pc EXCEPT ![c] = to]
  BY DEF Dedupe, Jump, Goto, Equivalent
<1>2. UNCHANGED <<stores, engines, lock, copy, seen, result, lease, texts, faults>>
  BY DEF Dedupe
<1>3. TypeOK /\ CallTrue(c) /\ c \in Procs /\ c \notin Hooks /\ c \notin sent
  BY <1>1, ProcFacts DEF DispatchInv, CallTrue
<1>4. mishap' \in BOOLEAN
  BY <1>1, ReadTrue
<1>5. TypeOK'
  BY <1>1, <1>2, <1>3, <1>4 DEF TypeOK, stores, engines, texts, Points, Done
<1>6. /\ pc'[c] = to /\ req'[c] = r
      /\ \A q \in Procs \ {c} : pc'[q] = pc[q] /\ cmd'[q] = cmd[q] /\ req'[q] = req[q]
  BY <1>1, <1>2, <1>3 DEF TypeOK, engines
<1>7. /\ Moves(c) /\ \A d \in Calls : NoTrace(d) => NoTrace(d)'
      /\ \A s \in Calls : WasTyped(s) => WasTyped(s)'
  BY <1>2, <1>3, <1>5, <1>6, QuietMove DEF stores, engines, texts
<1>8. \A s \in Calls : Informs(s)' => WasTyped(s)'
  BY <1>2, <1>7, ListsTrue DEF Backed, Informs, Status, stores
<1>9. StoresTrue'
  BY <1>2, <1>7, <1>8, StoresKept DEF stores, engines, texts
<1>10. CmdTrue(c)' /\ CallTrue(c)'
  BY <1>2, <1>3, <1>6 DEF CmdTrue, CallTrue, Unborn, Executing, texts
<1> QED BY <1>3, <1>5, <1>7, <1>9, <1>10, MoveKeeps

LEMMA EnqueueKeeps ==
  ASSUME DispatchInv, NEW c \in Calls, Enqueue(c)
  PROVE  DispatchInv'
<1>1. PICK list \in {view, legacy} : Read(list) /\ TakeLock(c, list, TRUE)
  BY DEF Enqueue
<1>2. /\ UNCHANGED <<stores, engine, seen, result, lease, texts, faults>>
      /\ req' = [req EXCEPT ![c] = c] /\ pc[c] = "idle"
      /\ Exec(c, "queue", c, "queued", "unqueued")
  BY DEF Enqueue
<1>3. TypeOK /\ CallTrue(c) /\ c \in Procs /\ c \notin Hooks /\ c \notin sent /\ NoTrace(c)
  BY <1>2, ProcFacts DEF DispatchInv, CallTrue, Unborn
<1>4. mishap' \in BOOLEAN /\ list \in Lists /\ Backed(list)
  BY <1>1, ReadTrue
<1>5. /\ lock' \in Procs \cup {NoProc} /\ copy' \in [list : Lists, both : BOOLEAN]
      /\ \A r \in Calls : Status(copy'.list, r) \in Informed => WasTyped(r)
  BY <1>1, <1>3, <1>4, TakeLockTrue
<1>6. /\ pc' \in [Procs -> Points] /\ pc'[c] = "loading"
      /\ DOMAIN cmd' = Procs /\ \A q \in Procs : CommandOK(cmd'[q])
      /\ cmd'[c] # NoCmd /\ cmd'[c].op = "queue" /\ cmd'[c].req = c
      /\ cmd'[c].back = "queued" /\ cmd'[c].fail = "unqueued"
      /\ \A q \in Procs \ {c} : pc'[q] = pc[q] /\ cmd'[q] = cmd[q]
  BY <1>2, <1>3, ExecTyped DEF Points
<1>7. TypeOK'
  <2>1. req' \in [Procs -> Calls \cup {NoReq}]
    BY <1>2, <1>3 DEF TypeOK
  <2> QED BY <1>2, <1>3, <1>4, <1>5, <1>6, <2>1 DEF TypeOK, stores, texts
<1>8. req'[c] = c /\ \A q \in Procs \ {c} : req'[q] = req[q]
  BY <1>2, <1>3 DEF TypeOK
<1>9. /\ Moves(c) /\ \A d \in Calls : NoTrace(d) => NoTrace(d)'
      /\ \A s \in Calls : WasTyped(s) => WasTyped(s)'
  BY <1>2, <1>3, <1>6, <1>7, <1>8, QuietMove DEF stores, texts
<1>10. \A s \in Calls : Informs(s)' => WasTyped(s)'
  BY <1>2, <1>5, <1>9, ListsTrue DEF Backed, Informs, Status, stores
<1>11. StoresTrue'
  BY <1>2, <1>9, <1>10, StoresKept DEF stores, texts
<1>12. CmdTrue(c)' /\ CallTrue(c)'
  BY <1>2, <1>3, <1>6, <1>8, <1>9 DEF CmdTrue, CallTrue, Unborn, Executing, texts
<1> QED BY <1>3, <1>7, <1>9, <1>11, <1>12, MoveKeeps

LEMMA MarkKeeps ==
  ASSUME DispatchInv, NEW c \in Calls, MarkNotified(c)
  PROVE  DispatchInv'
<1>1. pc[c] = "marking"
  BY DEF MarkNotified
<1>2. /\ UNCHANGED <<stores, engine, lock, copy, req, seen, result, lease, texts, faults>>
      /\ TypeOK /\ CallTrue(c) /\ req[c] \in Calls /\ c \in Procs /\ c \notin Hooks
      /\ c \in sent /\ WasTyped(req[c]) /\ seen' \in [Calls -> Statuses]
  BY <1>1, CallFacts, ProcFacts DEF MarkNotified, CallTrue
<1>3. /\ mishap' \in BOOLEAN
      /\ \/ Exec(c, "notify", req[c], "ok", "listing")
         \/ \E to \in {"ok", "patching"} : Goto(c, to) /\ UNCHANGED cmd
  BY ReadTrue DEF MarkNotified
<1>4. CASE \E to \in {"ok", "patching"} : Goto(c, to) /\ UNCHANGED cmd
  <2>1. PICK to \in {"ok", "patching"} : pc' = [pc EXCEPT ![c] = to] /\ UNCHANGED cmd
    BY <1>4 DEF Goto
  <2>2. UNCHANGED <<stores, engines, lock, copy, req, result, lease, texts>>
    BY <1>2, <2>1 DEF engines
  <2>3. to \in Points \ (Executing \cup {"idle"})
    BY DEF Points, Executing, Done
  <2> QED BY <1>1, <1>2, <1>3, <2>1, <2>2, <2>3, ReadingCall
<1>5. CASE Exec(c, "notify", req[c], "ok", "listing")
  <2>1. /\ pc' \in [Procs -> Points] /\ pc'[c] = "loading"
        /\ DOMAIN cmd' = Procs /\ \A q \in Procs : CommandOK(cmd'[q])
        /\ cmd'[c] # NoCmd /\ cmd'[c].op = "notify" /\ cmd'[c].req = req[c]
        /\ cmd'[c].back = "ok" /\ cmd'[c].fail = "listing"
        /\ \A q \in Procs \ {c} : pc'[q] = pc[q] /\ cmd'[q] = cmd[q]
    BY <1>2, <1>5, ExecTyped DEF Points, Done
  <2>2. TypeOK'
    BY <1>2, <1>3, <2>1 DEF TypeOK, stores, texts
  <2>3. /\ Moves(c) /\ \A d \in Calls : NoTrace(d) => NoTrace(d)'
        /\ \A s \in Calls : WasTyped(s) => WasTyped(s)'
    BY <1>2, <2>1, <2>2, QuietMove DEF stores, texts
  <2>4. \A s \in Calls : Informs(s)' => WasTyped(s)'
    BY <1>2, <2>3, ListsTrue DEF Backed, Informs, Status, stores
  <2>5. StoresTrue'
    BY <1>2, <2>3, <2>4, StoresKept DEF stores, texts
  <2>6. CmdTrue(c)' /\ CallTrue(c)'
    BY <1>2, <2>1, <2>3 DEF CmdTrue, CallTrue, Unborn, Executing, texts
  <2> QED BY <1>2, <2>2, <2>3, <2>5, <2>6, MoveKeeps
<1> QED BY <1>3, <1>4, <1>5

LEMMA NotifyInListKeeps ==
  ASSUME DispatchInv, NEW c \in Calls, NotifyInList(c)
  PROVE  DispatchInv'
<1>1. pc[c] = "listing"
  BY DEF NotifyInList
<1>2. /\ UNCHANGED <<stores, engines, req, seen, result, lease, texts>>
      /\ req[c] \in Calls /\ c \in sent /\ WasTyped(req[c]) /\ seen' \in [Calls -> Statuses]
  BY <1>1, CallFacts DEF NotifyInList, CallTrue
<1>3. PICK list \in {view, legacy} :
        /\ Read(list)
        /\ \/ /\ TakeLock(c, Moved(list, req[c], "notified"), TRUE)
              /\ Goto(c, "writing")
           \/ \E to \in {"ok", "patching"} : Goto(c, to) /\ UNCHANGED <<lock, copy>>
  BY DEF NotifyInList
<1>4. mishap' \in BOOLEAN /\ list \in Lists /\ Backed(list)
  BY <1>3, ReadTrue
<1>5. CASE TakeLock(c, Moved(list, req[c], "notified"), TRUE) /\ Goto(c, "writing")
  <2>1. /\ Moved(list, req[c], "notified") \in Lists
        /\ Backed(Moved(list, req[c], "notified"))
    BY <1>2, <1>4, MovedTrue DEF Statuses
  <2>2. pc' = [pc EXCEPT ![c] = "writing"] /\ TakeLock(c, Moved(list, req[c], "notified"), TRUE)
    BY <1>5 DEF Goto
  <2> QED BY <1>1, <1>2, <1>4, <2>1, <2>2, LockingCall
<1>6. CASE \E to \in {"ok", "patching"} : Goto(c, to) /\ UNCHANGED <<lock, copy>>
  <2>1. PICK to \in {"ok", "patching"} : pc' = [pc EXCEPT ![c] = to] /\ UNCHANGED <<lock, copy>>
    BY <1>6 DEF Goto
  <2>2. to \in Points \ (Executing \cup {"idle"})
    BY DEF Points, Executing, Done
  <2> QED BY <1>1, <1>2, <1>4, <2>1, <2>2, ReadingCall
<1> QED BY <1>3, <1>5, <1>6

LEMMA FailingKeeps ==
  ASSUME DispatchInv, NEW c \in Calls, ReadBeforeFailing(c) \/ FailInList(c)
  PROVE  DispatchInv'
<1>1. /\ pc[c] # "idle" /\ req[c] \in Calls /\ seen \in [Calls -> Statuses]
      /\ Verdict(c) \in Points \ (Executing \cup {"idle"})
      /\ Verdict(c) = "ok" => WasTyped(req[c])
      /\ Verdict(c) \notin {"marking", "listing", "patching"}
      /\ UNCHANGED <<stores, engines, req, result, lease, texts>>
  <2>1. pc[c] # "idle"
    BY DEF ReadBeforeFailing, FailInList
  <2> QED BY <2>1, CallFacts DEF ReadBeforeFailing, FailInList
<1>2. CASE ReadBeforeFailing(c)
  <2>1. PICK list \in {view, legacy}, to \in {Verdict(c), "failinglist"} :
          /\ Read(list) /\ pc' = [pc EXCEPT ![c] = to]
          /\ seen' \in {seen, [seen EXCEPT ![c] = Status(list, req[c])]}
    BY <1>2 DEF ReadBeforeFailing, Goto
  <2>2. mishap' \in BOOLEAN /\ list \in Lists
    BY <2>1, ReadTrue
  <2>3. Status(list, req[c]) \in Statuses
    BY <1>1, <2>2 DEF Lists, Status
  <2>4. seen' \in [Calls -> Statuses]
    BY <1>1, <2>1, <2>3
  <2>5. UNCHANGED <<lock, copy>>
    BY <1>2 DEF ReadBeforeFailing
  <2>6. /\ to \in Points \ (Executing \cup {"idle"}) /\ (to = "ok" => WasTyped(req[c]))
        /\ to \notin {"marking", "listing", "patching"}
    BY <1>1 DEF Points, Executing
  <2> QED BY <1>1, <2>1, <2>2, <2>4, <2>5, <2>6, ReadingCall
<1>3. CASE FailInList(c)
  <2>1. PICK list \in {view, legacy} :
          /\ Read(list)
          /\ \/ TakeLock(c, Moved(list, req[c], "failed"), TRUE) /\ Goto(c, "writing")
             \/ Goto(c, Verdict(c)) /\ UNCHANGED <<lock, copy>>
    BY <1>3 DEF FailInList
  <2>2. mishap' \in BOOLEAN /\ list \in Lists /\ Backed(list)
    BY <2>1, ReadTrue
  <2>3. seen' \in [Calls -> Statuses]
    BY <1>1, <1>3 DEF FailInList, Statuses
  <2>4. CASE TakeLock(c, Moved(list, req[c], "failed"), TRUE) /\ Goto(c, "writing")
    <3>1. /\ Moved(list, req[c], "failed") \in Lists
          /\ Backed(Moved(list, req[c], "failed"))
      BY <1>1, <2>2, MovedTrue DEF Statuses, Informed
    <3>2. /\ pc' = [pc EXCEPT ![c] = "writing"]
          /\ TakeLock(c, Moved(list, req[c], "failed"), TRUE)
      BY <2>4 DEF Goto
    <3> QED BY <1>1, <2>2, <2>3, <3>1, <3>2, LockingCall
  <2>5. CASE Goto(c, Verdict(c)) /\ UNCHANGED <<lock, copy>>
    <3>1. pc' = [pc EXCEPT ![c] = Verdict(c)] /\ UNCHANGED <<lock, copy>>
      BY <2>5 DEF Goto
    <3> QED BY <1>1, <2>2, <2>3, <3>1, ReadingCall
  <2> QED BY <2>1, <2>4, <2>5
<1> QED BY <1>2, <1>3

LEMMA CallKeeps ==
  ASSUME DispatchInv, NEW c \in Calls, Call(c)
  PROVE  DispatchInv'
BY DedupeKeeps, EnqueueKeeps, ReadBackKeeps, WritesKeep, ReceiptKeeps, TypingKeeps, MarkKeeps,
   NotifyInListKeeps, FailingKeeps DEF Call

-----------------------------------------------------------------------------
(* The hooks.                                                              *)
LEMMA AttemptedTrue ==
  ASSUME NEW list \in Lists, Backed(list), NEW r \in Calls,
         NEW res, res = "confirmed" => WasTyped(r)
  PROVE  Attempted(list, r, res) \in Lists /\ Backed(Attempted(list, r, res))
<1> DEFINE new ==
      CASE res = "confirmed" -> [status |-> "notified", tries |-> 0]
        [] res = "unconfirmed" /\ list[r].tries + 1 < MaxTries ->
             [list[r] EXCEPT !.tries = list[r].tries + 1]
        [] OTHER -> [status |-> "failed", tries |-> 0]
<1>1. Attempted(list, r, res) = [list EXCEPT ![r] = new]
  BY DEF Attempted
<1>2. list[r] \in [status : Statuses, tries : 0..(MaxTries - 1)]
  BY DEF Lists
<1>3. /\ new \in [status : Statuses, tries : 0..(MaxTries - 1)]
      /\ new.status \in Informed => WasTyped(r)
  <2>1. CASE res = "confirmed"
    <3>1. new = [status |-> "notified", tries |-> 0]
      BY <2>1
    <3> HIDE DEF new
    <3> QED BY <2>1, <3>1, ProcFacts DEF Statuses
  <2>2. CASE res = "unconfirmed" /\ list[r].tries + 1 < MaxTries
    <3>1. new = [list[r] EXCEPT !.tries = list[r].tries + 1]
      BY <2>2
    <3> HIDE DEF new
    <3>2. new.status = list[r].status /\ new.tries = list[r].tries + 1
      BY <1>2, <3>1
    <3>3. list[r].tries \in 0..(MaxTries - 1) /\ list[r].tries + 1 \in 0..(MaxTries - 1)
      BY <1>2, <2>2, ProcFacts
    <3>4. new \in [status : Statuses, tries : 0..(MaxTries - 1)]
      BY <1>2, <3>1, <3>3
    <3> QED BY <3>2, <3>4 DEF Backed, Status
  <2>3. CASE res # "confirmed" /\ ~(res = "unconfirmed" /\ list[r].tries + 1 < MaxTries)
    <3>1. new = [status |-> "failed", tries |-> 0]
      BY <2>3
    <3> HIDE DEF new
    <3> QED BY <3>1, ProcFacts DEF Statuses, Informed
  <2> QED BY <2>1, <2>2, <2>3
<1> HIDE DEF new
<1> QED BY <1>1, <1>3 DEF Lists, Backed, Status

LEMMA HookReadsTrue ==
  ASSUME DispatchInv, NEW h \in Hooks, NEW list \in {view, legacy},
         NEW next \in Lists, Backed(next), HookReads(h, list, next)
  PROVE  /\ lock' \in Procs \cup {NoProc} /\ mishap' \in BOOLEAN
         /\ copy' \in [list : Lists, both : BOOLEAN]
         /\ \A r \in Calls : Status(copy'.list, r) \in Informed => WasTyped(r)
<1>1. PICK both \in BOOLEAN : TakeLock(h, next, both) /\ Read(list)
  BY DEF HookReads, Read
<1>2. h \in Procs /\ mishap' \in BOOLEAN
  BY <1>1, ProcFacts, ReadTrue
<1> QED BY <1>1, <1>2, TakeLockTrue

(* A step of a hook that asks nothing of the engine.                       *)
LEMMA PlainHook ==
  ASSUME DispatchInv, NEW h \in Hooks,
         NEW to \in Points \ Executing, pc' = [pc EXCEPT ![h] = to],
         NEW r \in Calls \cup {NoReq}, req' = [req EXCEPT ![h] = r],
         NEW res \in {"none", "confirmed", "unconfirmed", "refused"},
         result' = [result EXCEPT ![h] = res],
         UNCHANGED <<log, engines, seen, texts>>, lease' \in [Calls -> Hooks \cup {NoProc}],
         mishap' \in BOOLEAN, lock' \in Procs \cup {NoProc},
         view' \in Lists, legacy' \in Lists, cut' \in BOOLEAN, copy' \in [list : Lists, both : BOOLEAN],
         \A s \in Calls : Informs(s)' => WasTyped(s),
         to # "idle" => r \in Calls,
         res = "confirmed" => to # "idle" /\ typed[r] > 0
  PROVE  DispatchInv'
<1>1. TypeOK /\ h \in Procs /\ h \notin Calls
  BY ProcFacts DEF DispatchInv
<1>2. TypeOK'
  <2>1. pc' \in [Procs -> Points] /\ req' \in [Procs -> Calls \cup {NoReq}]
    BY <1>1 DEF TypeOK
  <2>2. result' \in [Hooks -> {"none", "confirmed", "unconfirmed", "refused"}]
    BY <1>1 DEF TypeOK
  <2> QED BY <1>1, <2>1, <2>2 DEF TypeOK, engines, texts
<1>3. /\ pc'[h] = to /\ req'[h] = r /\ result'[h] = res
      /\ \A q \in Procs \ {h} : pc'[q] = pc[q] /\ cmd'[q] = cmd[q] /\ req'[q] = req[q]
      /\ \A g \in Hooks \ {h} : result'[g] = result[g]
  BY <1>1 DEF TypeOK, engines
<1>4. h \notin sent
  BY <1>1 DEF TypeOK
<1>5. /\ Moves(h) /\ \A d \in Calls : NoTrace(d) => NoTrace(d)'
      /\ \A s \in Calls : WasTyped(s) => WasTyped(s)'
  BY <1>1, <1>2, <1>3, <1>4, QuietMove DEF engines, texts
<1>6. \A s \in Calls : Informs(s)' => WasTyped(s)'
  BY <1>5
<1>7. StoresTrue'
  BY <1>5, <1>6, StoresKept DEF engines, texts
<1>8. CmdTrue(h)' /\ HookTrue(h)'
  BY <1>3 DEF CmdTrue, HookTrue, texts
<1> QED BY <1>1, <1>2, <1>5, <1>7, <1>8, MoveKeeps

LEMMA HookFacts ==
  ASSUME DispatchInv, NEW h \in Hooks
  PROVE  /\ TypeOK /\ HookTrue(h) /\ h \in Procs /\ h \notin Calls /\ h \notin sent
         /\ result[h] \in {"none", "confirmed", "unconfirmed", "refused"}
         /\ req[h] \in Calls \cup {NoReq}
         /\ req = [req EXCEPT ![h] = req[h]] /\ result = [result EXCEPT ![h] = result[h]]
         /\ lease \in [Calls -> Hooks \cup {NoProc}]
BY ProcFacts DEF DispatchInv, TypeOK

LEMMA ClaimKeeps ==
  ASSUME DispatchInv, NEW h \in Hooks, NEW r \in Calls, Claim(h, r)
  PROVE  DispatchInv'
<1>1. PICK list \in {view, legacy} : HookReads(h, list, list)
  BY DEF Claim
<1>2. /\ pc[h] = "idle" /\ pc' = [pc EXCEPT ![h] = "claiming"]
      /\ lease' = [lease EXCEPT ![r] = h] /\ req' = [req EXCEPT ![h] = r]
      /\ UNCHANGED <<stores, engines, seen, result, texts, faults>>
  BY DEF Claim, Jump, Goto
<1>3. list \in Lists /\ Backed(list)
  BY ListsTrue
<1>4. /\ lock' \in Procs \cup {NoProc} /\ mishap' \in BOOLEAN
      /\ copy' \in [list : Lists, both : BOOLEAN]
      /\ \A s \in Calls : Status(copy'.list, s) \in Informed => WasTyped(s)
  BY <1>1, <1>3, HookReadsTrue
<1>5. \A s \in Calls : Informs(s)' => WasTyped(s)
  BY <1>2, <1>4, ListsTrue DEF Backed, Informs, Status, stores
<1>6. /\ result[h] # "confirmed" /\ result' = [result EXCEPT ![h] = result[h]]
      /\ result[h] \in {"none", "confirmed", "unconfirmed", "refused"}
      /\ lease' \in [Calls -> Hooks \cup {NoProc}]
  BY <1>2, HookFacts DEF HookTrue
<1>7. UNCHANGED <<log, engines, seen, texts>> /\ view' \in Lists /\ legacy' \in Lists /\ cut' \in BOOLEAN
  BY <1>2, ListsTrue DEF stores
<1>8. "claiming" \in Points \ Executing
  BY DEF Points, Executing
<1> QED BY <1>2, <1>4, <1>5, <1>6, <1>7, <1>8, PlainHook

LEMMA WriteClaimsKeeps ==
  ASSUME DispatchInv, NEW h \in Hooks, WriteClaims(h)
  PROVE  DispatchInv'
<1>1. /\ pc[h] = "claiming" /\ pc' = [pc EXCEPT ![h] = "injecting"]
      /\ WriteList(copy.list) /\ Unlock
      /\ UNCHANGED <<log, engines, req, seen, result, lease, texts, faults>>
  BY DEF WriteClaims, Jump, Goto
<1>2. /\ view' \in Lists /\ legacy' \in Lists /\ cut' \in BOOLEAN /\ mishap' \in BOOLEAN
      /\ \A r \in Calls : Status(view', r) \in Informed \/ Status(legacy', r) \in Informed
                           => WasTyped(r)
  BY <1>1, ListsTrue, WriteTrue
<1>3. /\ lock' \in Procs \cup {NoProc} /\ copy' \in [list : Lists, both : BOOLEAN]
      /\ \A r \in Calls : Status(copy'.list, r) \notin Informed
  BY <1>1, UnlockTrue
<1>4. \A s \in Calls : Informs(s)' => WasTyped(s)
  BY <1>2, <1>3 DEF Informs, Status
<1>5. /\ req[h] \in Calls /\ (result[h] = "confirmed" => typed[req[h]] > 0)
      /\ req' = [req EXCEPT ![h] = req[h]] /\ result' = [result EXCEPT ![h] = result[h]]
      /\ result[h] \in {"none", "confirmed", "unconfirmed", "refused"}
      /\ lease' \in [Calls -> Hooks \cup {NoProc}]
  BY <1>1, HookFacts DEF HookTrue
<1>6. "injecting" \in Points \ Executing /\ "injecting" # "idle"
  BY DEF Points, Executing
<1> QED BY <1>1, <1>2, <1>3, <1>4, <1>5, <1>6, PlainHook

LEMMA ForgetTrue ==
  ASSUME DispatchInv, NEW h \in Hooks, Forget(h)
  PROVE  /\ lease' \in [Calls -> Hooks \cup {NoProc}]
         /\ req' = [req EXCEPT ![h] = NoReq] /\ result' = [result EXCEPT ![h] = "none"]
BY HookFacts DEF Forget

LEMMA LeavingKeeps ==
  ASSUME DispatchInv, NEW h \in Hooks, LeaveSettled(h) \/ Conclude(h)
  PROVE  DispatchInv'
<1>1. /\ pc' = [pc EXCEPT ![h] = "idle"] /\ Forget(h) /\ UNCHANGED <<log, engines, seen, texts>>
  BY DEF LeaveSettled, Conclude, Jump, Goto, stores
<1>2. /\ lease' \in [Calls -> Hooks \cup {NoProc}]
      /\ req' = [req EXCEPT ![h] = NoReq] /\ result' = [result EXCEPT ![h] = "none"]
  BY <1>1, ForgetTrue
<1>3. /\ mishap' \in BOOLEAN /\ lock' \in Procs \cup {NoProc}
      /\ view' \in Lists /\ legacy' \in Lists /\ cut' \in BOOLEAN /\ copy' \in [list : Lists, both : BOOLEAN]
      /\ \A s \in Calls : Informs(s)' => WasTyped(s)
  <2>1. CASE LeaveSettled(h)
    <3>1. UNCHANGED <<stores, lock, copy>> /\ mishap' \in BOOLEAN
      BY <2>1, ReadTrue DEF LeaveSettled
    <3> QED BY <3>1, HookFacts, ListsTrue DEF stores, TypeOK, Backed, Informs, Status
  <2>2. CASE Conclude(h)
    <3>1. WriteList(copy.list) /\ Unlock
      BY <2>2 DEF Conclude
    <3>2. /\ view' \in Lists /\ legacy' \in Lists /\ cut' \in BOOLEAN /\ mishap' \in BOOLEAN
          /\ \A r \in Calls : Status(view', r) \in Informed \/ Status(legacy', r) \in Informed
                               => WasTyped(r)
      BY <3>1, ListsTrue, WriteTrue
    <3>3. /\ lock' \in Procs \cup {NoProc} /\ copy' \in [list : Lists, both : BOOLEAN]
          /\ \A r \in Calls : Status(copy'.list, r) \notin Informed
      BY <3>1, UnlockTrue
    <3> QED BY <3>2, <3>3 DEF Informs, Status
  <2> QED BY <2>1, <2>2
<1>4. "idle" \in Points \ Executing
  BY DEF Points, Executing
<1> QED BY <1>1, <1>2, <1>3, <1>4, PlainHook

(* A step of a hook that turns to the engine, of a kind it may.            *)
LEMMA AskingHook ==
  ASSUME DispatchInv, NEW h \in Hooks, pc[h] # "idle",
         NEW op \in {"notify", "deliver", "fail"}, NEW back \in {"injected", "concluding"},
         Exec(h, op, req[h], back, back), UNCHANGED <<stores, engine, req, seen, lease, sent>>,
         typed' \in [Calls -> 0..2], \A r \in Calls : typed[r] <= typed'[r],
         NEW res \in {"none", "confirmed", "unconfirmed", "refused"},
         result' = [result EXCEPT ![h] = res], res = "confirmed" => typed'[req[h]] > 0,
         mishap' \in BOOLEAN, lock' \in Procs \cup {NoProc},
         copy' \in [list : Lists, both : BOOLEAN],
         \A s \in Calls : Status(copy'.list, s) \in Informed => WasTyped(s),
         op = "notify" => WasTyped(req[h])
  PROVE  DispatchInv'
<1>1. TypeOK /\ HookTrue(h) /\ h \in Procs /\ h \notin Calls /\ h \notin sent /\ req[h] \in Calls
  BY HookFacts DEF HookTrue
<1>2. /\ pc' \in [Procs -> Points] /\ pc'[h] = "loading"
      /\ DOMAIN cmd' = Procs /\ \A q \in Procs : CommandOK(cmd'[q])
      /\ cmd'[h] # NoCmd /\ cmd'[h].op = op /\ cmd'[h].req = req[h]
      /\ cmd'[h].back = back /\ cmd'[h].fail = back
      /\ \A q \in Procs \ {h} : pc'[q] = pc[q] /\ cmd'[q] = cmd[q]
  <2>1. back \in Points /\ op \in {"queue", "notify", "deliver", "fail"}
    BY DEF Points
  <2> QED BY <1>1, <2>1, ExecTyped
<1>3. TypeOK'
  <2>1. result' \in [Hooks -> {"none", "confirmed", "unconfirmed", "refused"}]
    BY <1>1 DEF TypeOK
  <2> QED BY <1>1, <1>2, <2>1 DEF TypeOK, stores
<1>4. result'[h] = res /\ \A g \in Hooks \ {h} : result'[g] = result[g]
  BY <1>1 DEF TypeOK
<1>5. Moves(h)
  BY <1>1, <1>2, <1>4 DEF Moves
<1>6. \A s \in Calls : WasTyped(s) => WasTyped(s)'
  BY <1>1, <1>3, <1>5, TypedGrows
<1>7. StoresTrue'
  BY <1>6 DEF DispatchInv, StoresTrue, stores, Status
<1>8. \A d \in Calls : NoTrace(d) => NoTrace(d)'
  BY DEF NoTrace, stores
<1>9. CmdTrue(h)' /\ HookTrue(h)'
  BY <1>1, <1>2, <1>4, <1>6 DEF CmdTrue, HookTrue
<1> QED BY <1>1, <1>3, <1>5, <1>7, <1>8, <1>9, MoveKeeps

LEMMA InjectKeeps ==
  ASSUME DispatchInv, NEW h \in Hooks, Inject(h)
  PROVE  DispatchInv'
<1>1. pc[h] = "injecting" /\ UNCHANGED <<stores, engine, lock, copy, req, seen, lease, sent, faults, mishap>>
  BY DEF Inject
<1>2. /\ TypeOK /\ HookTrue(h) /\ req[h] \in Calls /\ h \in Procs
      /\ req' = [req EXCEPT ![h] = req[h]] /\ lease' \in [Calls -> Hooks \cup {NoProc}]
  BY <1>1, HookFacts DEF HookTrue
<1>3. /\ mishap' \in BOOLEAN /\ lock' \in Procs \cup {NoProc}
      /\ view' \in Lists /\ legacy' \in Lists /\ cut' \in BOOLEAN /\ copy' \in [list : Lists, both : BOOLEAN]
      /\ \A s \in Calls : Informs(s)' => WasTyped(s)
      /\ \A s \in Calls : Status(copy'.list, s) \in Informed => WasTyped(s)
  BY <1>1, <1>2, ListsTrue DEF stores, TypeOK, Backed, Informs, Status
<1>4. CASE \E outcome \in {"unconfirmed", "refused"} :
             /\ result' = [result EXCEPT ![h] = outcome]
             /\ Goto(h, "injected") /\ UNCHANGED <<cmd, typed>>
  <2>1. PICK res \in {"unconfirmed", "refused"} :
          /\ result' = [result EXCEPT ![h] = res] /\ pc' = [pc EXCEPT ![h] = "injected"]
          /\ UNCHANGED <<cmd, typed>>
    BY <1>4 DEF Goto
  <2>2. UNCHANGED <<log, engines, seen, texts>>
    BY <1>1, <2>1 DEF stores, engines, texts
  <2>3. "injected" \in Points \ Executing
    BY DEF Points, Executing
  <2> QED BY <1>2, <1>3, <2>1, <2>2, <2>3, PlainHook
<1>5. CASE /\ result' = [result EXCEPT ![h] = "confirmed"]
           /\ Exec(h, "deliver", req[h], "injected", "injected")
           /\ typed' = [typed EXCEPT ![req[h]] = IF typed[req[h]] < 2 THEN typed[req[h]] + 1
                                                ELSE typed[req[h]]]
  <2>1. typed \in [Calls -> 0..2]
    BY <1>2 DEF TypeOK
  <2>2. /\ typed' \in [Calls -> 0..2] /\ typed'[req[h]] > 0
        /\ \A r \in Calls : typed[r] <= typed'[r]
    BY <1>2, <1>5, <2>1
  <2>3. UNCHANGED <<stores, engine, req, seen, lease, sent>>
    BY <1>1
  <2> QED BY <1>1, <1>3, <1>5, <2>2, <2>3, AskingHook
<1> QED BY <1>4, <1>5 DEF Inject

LEMMA FinalizeKeeps ==
  ASSUME DispatchInv, NEW h \in Hooks, Finalize(h)
  PROVE  DispatchInv'
<1>1. pc[h] = "injected" /\ UNCHANGED <<stores, engine, req, seen, result, lease, texts, faults>>
  BY DEF Finalize
<1>2. /\ TypeOK /\ HookTrue(h) /\ req[h] \in Calls /\ h \in Procs
      /\ (result[h] = "confirmed" => typed[req[h]] > 0)
      /\ req' = [req EXCEPT ![h] = req[h]] /\ result' = [result EXCEPT ![h] = result[h]]
      /\ result[h] \in {"none", "confirmed", "unconfirmed", "refused"}
      /\ lease' \in [Calls -> Hooks \cup {NoProc}]
  BY <1>1, HookFacts DEF HookTrue
<1>a. PICK list \in {view, legacy} :
        \E next :
          /\ next = Attempted(list, req[h], result[h])
          /\ HookReads(h, list, next)
          /\ CASE Status(next, req[h]) = "pending" -> Goto(h, "concluding") /\ UNCHANGED cmd
               [] Status(next, req[h]) = "notified" ->
                    Exec(h, "notify", req[h], "concluding", "concluding")
               [] OTHER -> Exec(h, "fail", req[h], "concluding", "concluding")
  BY DEF Finalize
<1>3. PICK next :
        /\ next = Attempted(list, req[h], result[h])
        /\ HookReads(h, list, next)
        /\ CASE Status(next, req[h]) = "pending" -> Goto(h, "concluding") /\ UNCHANGED cmd
             [] Status(next, req[h]) = "notified" ->
                  Exec(h, "notify", req[h], "concluding", "concluding")
             [] OTHER -> Exec(h, "fail", req[h], "concluding", "concluding")
  BY <1>a
<1>4. result[h] = "confirmed" => WasTyped(req[h])
  BY <1>2 DEF WasTyped
<1>5. list \in Lists /\ Backed(list)
  BY ListsTrue
<1>6. next \in Lists /\ Backed(next)
  BY <1>2, <1>3, <1>4, <1>5, AttemptedTrue
<1>7. /\ lock' \in Procs \cup {NoProc} /\ mishap' \in BOOLEAN
      /\ copy' \in [list : Lists, both : BOOLEAN]
      /\ \A s \in Calls : Status(copy'.list, s) \in Informed => WasTyped(s)
  BY <1>3, <1>6, HookReadsTrue
<1>8. CASE Goto(h, "concluding") /\ UNCHANGED cmd
  <2>1. \A s \in Calls : Informs(s)' => WasTyped(s)
    BY <1>1, <1>7, ListsTrue DEF Backed, Informs, Status, stores
  <2>2. UNCHANGED <<log, engines, seen, texts>> /\ view' \in Lists /\ legacy' \in Lists /\ cut' \in BOOLEAN
    BY <1>1, <1>8, ListsTrue DEF stores, engines
  <2>3. "concluding" \in Points \ Executing
    BY DEF Points, Executing
  <2>4. pc' = [pc EXCEPT ![h] = "concluding"]
    BY <1>8 DEF Goto
  <2> QED BY <1>2, <1>7, <2>1, <2>2, <2>3, <2>4, PlainHook
<1>9. CASE \E op \in {"notify", "fail"} :
             /\ Exec(h, op, req[h], "concluding", "concluding")
             /\ op = "notify" => Status(next, req[h]) = "notified"
  <2>1. PICK op \in {"notify", "fail"} :
          /\ Exec(h, op, req[h], "concluding", "concluding")
          /\ op = "notify" => Status(next, req[h]) = "notified"
    BY <1>9
  <2>2. op = "notify" => WasTyped(req[h])
    BY <1>2, <1>6, <2>1 DEF Backed, Informed
  <2>3. /\ typed' \in [Calls -> 0..2] /\ \A r \in Calls : typed[r] <= typed'[r]
        /\ (result[h] = "confirmed" => typed'[req[h]] > 0)
        /\ UNCHANGED <<stores, engine, req, seen, lease, sent>>
    BY <1>1, <1>2 DEF TypeOK, texts
  <2> QED BY <1>1, <1>2, <1>7, <2>1, <2>2, <2>3, AskingHook
<1> QED BY <1>3, <1>8, <1>9

LEMMA HookKeeps ==
  ASSUME DispatchInv, NEW h \in Hooks, Hook(h)
  PROVE  DispatchInv'
BY WriteClaimsKeeps, InjectKeeps, LeavingKeeps, FinalizeKeeps DEF Hook

-----------------------------------------------------------------------------
(* Kills and what they leave behind.                                       *)
LEMMA KillKeeps ==
  ASSUME DispatchInv, NEW p \in Procs, Kill(p)
  PROVE  DispatchInv'
<1> DEFINE to == IF p \in Hooks THEN "idle" ELSE "dead"
<1>1. /\ pc[p] # "idle" /\ EndExec(p, to) /\ mishap' = TRUE /\ Interrupted(p)
      /\ UNCHANGED <<lock, copy, seen, lease, texts>>
      /\ p \in Hooks => req' = [req EXCEPT ![p] = NoReq] /\ result' = [result EXCEPT ![p] = "none"]
      /\ p \notin Hooks => UNCHANGED <<req, result>>
  BY DEF Kill
<1>2. TypeOK /\ StoresTrue /\ to \in Points \ Executing
  BY DEF DispatchInv, Points, Executing, Done
<1>3. /\ pc' \in [Procs -> Points] /\ engine' \in [Procs -> Logs]
      /\ DOMAIN cmd' = Procs /\ \A q \in Procs : CommandOK(cmd'[q])
      /\ \A q \in Procs : engine'[q] = engine[q] \/ engine'[q] = EmptyLog
  BY <1>1, <1>2, EndExecTyped
<1>4. /\ req' \in [Procs -> Calls \cup {NoReq}]
      /\ \A q \in Procs \ {p} : req'[q] = req[q]
      /\ p \notin Hooks => req'[p] = req[p]
      /\ result' \in [Hooks -> {"none", "confirmed", "unconfirmed", "refused"}]
      /\ \A g \in Hooks \ {p} : result'[g] = result[g]
      /\ p \in Hooks => result'[p] = "none"
  <2>1. CASE p \in Hooks
    BY <1>1, <1>2, <2>1 DEF TypeOK
  <2>2. CASE p \notin Hooks
    BY <1>1, <1>2, <2>2 DEF TypeOK
  <2> QED BY <2>1, <2>2
<1>5. /\ pc'[p] = to
      /\ \A q \in Procs \ {p} : pc'[q] = pc[q] /\ cmd'[q] = cmd[q] /\ engine'[q] = engine[q]
      /\ engine'[p] = EmptyLog
  BY <1>1, <1>2 DEF EndExec, Goto, TypeOK
<1> HIDE DEF to
<1>a. /\ log' \in {log, EmptyLog} /\ log' \in Logs
      /\ view' \in Lists /\ legacy' = legacy /\ cut' \in BOOLEAN
      /\ \A r \in Calls : Status(view', r) \in Informed => WasTyped(r)
  BY <1>1, InterruptedTrue
<1>6. TypeOK'
  BY <1>1, <1>2, <1>3, <1>4, <1>a DEF TypeOK, texts
<1>7. \A c \in sent : req'[c] = req[c]
  BY <1>2, <1>4, ProcFacts DEF TypeOK
<1>8. Moves(p)
  BY <1>1, <1>2, <1>4, <1>5, <1>7 DEF Moves, texts, TypeOK
<1>9. \A r \in Calls : WasTyped(r) => WasTyped(r)'
  BY <1>6, <1>8, TypedGrows
<1>10. StoresTrue'
  BY <1>1, <1>2, <1>3, <1>9, <1>a DEF StoresTrue, EmptyLog, Informed, Status
<1>11. \A c \in Calls : NoTrace(c) => NoTrace(c)'
  BY <1>1, <1>5, <1>a DEF NoTrace, EmptyLog
<1>12. CmdTrue(p)'
  BY <1>2, <1>5 DEF CmdTrue
<1>13. ASSUME p \in Calls PROVE CallTrue(p)'
  <2>1. to = "dead" /\ CallTrue(p) /\ p \notin Hooks
    BY <1>13, ProcFacts DEF to, DispatchInv
  <2> QED BY <1>1, <1>4, <1>5, <2>1 DEF CallTrue, Unborn
<1>14. ASSUME p \in Hooks PROVE HookTrue(p)'
  <2>1. to = "idle"
    BY <1>14 DEF to
  <2> QED BY <1>4, <1>5, <1>14, <2>1 DEF HookTrue
<1> QED BY <1>6, <1>8, <1>10, <1>11, <1>12, <1>13, <1>14, MoveKeeps

LEMMA RestKeeps ==
  ASSUME DispatchInv,
         UNCHANGED <<pc, stores, engines, req, seen, result, texts>>, mishap' = mishap,
         lease' \in [Calls -> Hooks \cup {NoProc}], lock' \in Procs \cup {NoProc},
         copy' = copy \/ Unlock
  PROVE  DispatchInv'
<1>1. TypeOK /\ StoresTrue
  BY DEF DispatchInv
<1>2. /\ copy' \in [list : Lists, both : BOOLEAN]
      /\ \A r \in Calls : Status(copy'.list, r) \in Informed => WasTyped(r)
  BY <1>1, ListsTrue, UnlockTrue DEF TypeOK, Backed
<1>3. TypeOK'
  BY <1>1, <1>2 DEF TypeOK, stores, engines, texts
<1>4. \A r \in Calls : WasTyped(r)' <=> WasTyped(r)
  BY DEF WasTyped, texts
<1>5. StoresTrue'
  BY <1>1, <1>2, <1>4 DEF StoresTrue, stores, engines, Status
<1>6. \A p \in Procs : CmdTrue(p) => CmdTrue(p)'
  BY <1>1, <1>4 DEF CmdTrue, engines, texts, TypeOK, CommandOK
<1>7. \A c \in Calls : CallTrue(c) => CallTrue(c)'
  BY <1>4 DEF CallTrue, Unborn, NoTrace, stores, engines, texts
<1>8. \A h \in Hooks : HookTrue(h) => HookTrue(h)'
  BY DEF HookTrue, texts
<1> QED BY <1>3, <1>5, <1>6, <1>7, <1>8 DEF DispatchInv

LEMMA DispatchStep ==
  ASSUME DispatchInv, [Next]_vars
  PROVE  DispatchInv'
<1>1. TypeOK
  BY DEF DispatchInv
<1>2. ASSUME NEW p \in Procs, Engine(p) \/ Kill(p) PROVE DispatchInv'
  BY <1>2, EngineKeeps, KillKeeps
<1>3. ASSUME NEW c \in Calls, Call(c) PROVE DispatchInv'
  BY <1>3, CallKeeps
<1>4. ASSUME NEW h \in Hooks, Hook(h) \/ \E r \in Calls : Claim(h, r) PROVE DispatchInv'
  BY <1>4, HookKeeps, ClaimKeeps
<1>5. CASE RecoverLock
  <2>1. Unlock /\ UNCHANGED <<pc, stores, engines, req, seen, result, lease, texts, mishap>>
    BY <1>5 DEF RecoverLock
  <2> QED BY <1>1, <2>1, UnlockTrue, RestKeeps DEF TypeOK
<1>6. ASSUME NEW r \in Calls, RecoverLease(r) PROVE DispatchInv'
  <2>1. /\ UNCHANGED <<pc, stores, engines, lock, copy, req, seen, result, texts, mishap>>
        /\ lease' = [lease EXCEPT ![r] = NoProc]
    BY <1>6 DEF RecoverLease
  <2>2. lease' \in [Calls -> Hooks \cup {NoProc}] /\ lock' \in Procs \cup {NoProc}
    BY <1>1, <2>1 DEF TypeOK
  <2> QED BY <2>1, <2>2, RestKeeps
<1>7. CASE Finished \/ UNCHANGED vars
  <2>1. UNCHANGED vars
    BY <1>7 DEF Finished
  <2>2. UNCHANGED <<pc, stores, engines, lock, copy, req, seen, result, lease, texts, mishap>>
    BY <2>1 DEF vars, stores, engines, texts
  <2>3. lease' \in [Calls -> Hooks \cup {NoProc}] /\ lock' \in Procs \cup {NoProc}
    BY <1>1, <2>2 DEF TypeOK
  <2> QED BY <2>2, <2>3, RestKeeps
<1> QED BY <1>2, <1>3, <1>4, <1>5, <1>6, <1>7 DEF Next

LEMMA DispatchInvariant == Spec => []DispatchInv
BY DispatchInit, DispatchStep, PTL DEF Spec

-----------------------------------------------------------------------------
(* The types of Dispatch hold always.                                      *)
THEOREM DispatchTypes == Spec => []TypeOK
<1>1. DispatchInv => TypeOK
  BY DEF DispatchInv
<1> QED BY <1>1, DispatchInvariant, PTL

(* Whatever fails, is killed, is lost or is read torn: a call that reports *)
(* success and a request that some store calls notified or delivered stand *)
(* for a text that was typed (dispatchCriticalInboxInstruction,            *)
(* finalizeClaimedDispatchRequest, RuntimeEngine.process).                 *)
THEOREM TypedBeforeNotified == Spec => []NotifiedWasTyped
<1>1. DispatchInv => NotifiedWasTyped
  BY DEF DispatchInv, StoresTrue, CallTrue, NotifiedWasTyped
<1> QED BY <1>1, DispatchInvariant, PTL

(* A step of the log is a step in the life of a request, unless another    *)
(* command was persisted after the engine had loaded.                      *)
LEMMA PersistLives ==
  ASSUME DispatchInv, NEW p \in Procs, Persist(p), engine[p] = log
  PROVE  LegalChange(log, log')
<1>1. /\ CmdTrue(p) /\ cmd[p].req \in Calls /\ log \in Logs
      /\ cmd[p].op \in {"queue", "notify", "deliver", "fail"}
      /\ pc[p] = "loaded"
  BY Resumed DEF DispatchInv, TypeOK, CommandOK, Persist, Jump, Executing
<1>2. Accepts(log, cmd[p]) /\ log' = [log EXCEPT ![cmd[p].req] = Outcome[cmd[p].op]]
  BY DEF Persist, Processed
<1>3. /\ log'[cmd[p].req] = Outcome[cmd[p].op]
      /\ \A r \in Calls \ {cmd[p].req} : log'[r] = log[r]
  BY <1>1, <1>2 DEF Logs
<1>4. <<log[cmd[p].req], Outcome[cmd[p].op]>> \in Life
  <2>1. CASE cmd[p].op = "queue"
    <3>1. p \in Calls /\ cmd[p].req = p /\ CallTrue(p)
      BY <1>1, <2>1 DEF CmdTrue, Executing, DispatchInv
    <3>2. log[cmd[p].req] = "absent"
      BY <1>1, <2>1, <3>1 DEF CallTrue, Unborn, NoTrace
    <3> QED BY <2>1, <3>2 DEF Outcome, Life
  <2>2. CASE cmd[p].op = "notify"
    BY <1>2, <2>2 DEF Accepts, Outcome, Life
  <2>3. CASE cmd[p].op = "deliver"
    BY <1>2, <2>3 DEF Accepts, Outcome, Life
  <2>4. CASE cmd[p].op = "fail"
    BY <1>2, <2>4 DEF Accepts, Outcome, Life
  <2> QED BY <1>1, <2>1, <2>2, <2>3, <2>4
<1> QED BY <1>3, <1>4 DEF LegalChange

LEMMA OnlyPersist ==
  ASSUME DispatchInv, [Next]_vars
  PROVE  log' = log \/ \E p \in Procs : Persist(p) \/ LogLost(p)
<1>1. ASSUME NEW p \in Procs, Engine(p) \/ Kill(p) PROVE log' = log \/ Persist(p) \/ LogLost(p)
  <2>1. CASE Load(p) \/ Refuse(p) \/ Persist(p) \/ Regenerate(p)
    BY <2>1 DEF Load, Refuse, Regenerate, RewriteView, stores
  <2>2. CASE ExecFails(p) \/ Kill(p)
    <3>1. faults' = faults + 1 /\ Interrupted(p)
      BY <2>2 DEF ExecFails, Kill
    <3> QED BY <3>1 DEF Interrupted, LoseLog, CutView, RewriteView, LogLost, stores
  <2> QED BY <1>1, <2>1, <2>2 DEF Engine
<1>2. ASSUME NEW c \in Calls, Call(c) PROVE log' = log
  BY <1>2 DEF Call, Dedupe, Enqueue, ReadBack, QueueInList, Receipt, TypeDirectly, TypingFails,
       MarkNotified, NotifyInList, ReadBeforeFailing, FailInList, WriteTransition, stores
<1>3. ASSUME NEW h \in Hooks, Hook(h) PROVE log' = log
  BY <1>3 DEF Hook, WriteClaims, Inject, LeaveSettled, Finalize, Conclude, stores
<1>4. ASSUME NEW h \in Hooks, NEW r \in Calls, Claim(h, r) PROVE log' = log
  BY <1>4 DEF Claim, stores
<1>5. RecoverLock \/ (\E r \in Calls : RecoverLease(r)) \/ Finished \/ UNCHANGED vars => log' = log
  BY DEF RecoverLock, RecoverLease, Finished, vars, stores
<1> QED BY <1>1, <1>2, <1>3, <1>4, <1>5 DEF Next

(* The engine's log keeps to the life of a request (dispatch.rs, contracts *)
(* .ts), but where two commands overlapped, or the whole log is lost to an *)
(* engine that is killed as it writes (persist, engine.rs).                *)
THEOREM LogKept == Spec => LogLifecycle
<1>1. ASSUME DispatchInv, [Next]_vars
      PROVE  LegalChange(log, log') \/ \E p \in Procs : Overlap(p) \/ LogLost(p)
  <2>1. CASE log' = log
    BY <2>1 DEF LegalChange
  <2>2. ASSUME NEW p \in Procs, Persist(p)
        PROVE  LegalChange(log, log') \/ Overlap(p)
    BY <1>1, <2>2, PersistLives DEF Persist, Jump, Overlap
  <2> QED BY <1>1, <2>1, <2>2, OnlyPersist
<1> QED BY <1>1, DispatchInvariant, PTL DEF Spec, LogLifecycle

-----------------------------------------------------------------------------
(* Without a mishap. Whoever is between taking the lock and writing holds  *)
(* it, a hook has the lease of the request it handles and of no other, and *)
(* dispatch.json is the log or an earlier state of it: it may only lag     *)
(* behind, and what a caller will write was true when it was read.         *)
Queuing(p) == pc[p] \in Executing /\ cmd[p].op = "queue"
Concluding(p) ==
  pc[p] = "concluding" \/ (pc[p] \in Executing /\ cmd[p].back = "concluding")
Holding(p) ==
  \/ pc[p] \in {"queued", "unqueued", "writing", "claiming"}
  \/ Queuing(p) \/ Concluding(p)

LockKept == \A p \in Procs : lock = p <=> Holding(p)

LeaseKept ==
  \A h \in Hooks, r \in Calls : lease[r] = h <=> (pc[h] # "idle" /\ req[h] = r)

(* The statuses a request may have after it had status a.                  *)
Later(a, b) ==
  \/ a \in {b, "absent"}
  \/ a = "pending" /\ b # "absent"
  \/ a = "notified" /\ b \in {"delivered", "failed"}

ViewBehind == \A r \in Calls : Later(Status(view, r), log[r])

(* A call that queues its request has seen every pending one: the list     *)
(* lacks one that the log has only while its caller holds the lock.        *)
QueueOK(c) ==
  /\ Queuing(c) \/ pc[c] = "unqueued" => copy.both
  /\ pc[c] = "queued" => Status(view, c) # "absent"
  /\ Queuing(c) /\ pc[c] # "regenerating" =>
       \A r \in Calls \ {c} : log[r] = "pending" => Key[r] # Key[c]
  /\ Queuing(c) /\ pc[c] = "regenerating" => log[c] # "absent"
  /\ log[c] = "pending" /\ Status(view, c) = "absent" =>
       Queuing(c) \/ pc[c] = "unqueued"

(* A hook that is about to type handles a request nobody typed, or has     *)
(* read a list that the log has left behind, and will see that it has.     *)
HookOK(h) ==
  pc[h] # "idle" =>
    /\ Status(view, req[h]) # "absent"
    /\ pc[h] \in Executing => cmd[h].fail = cmd[h].back
    /\ pc[h] = "claiming" =>
         /\ Status(copy.list, req[h]) = "pending"
         /\ log[req[h]] = "pending" => typed[req[h]] = 0
    /\ pc[h] \in {"claiming", "injecting"} => result[h] # "confirmed"
    /\ pc[h] # "claiming" /\ result[h] # "confirmed" => typed[req[h]] = 0
    /\ Concluding(h) /\ result[h] = "confirmed" => Status(copy.list, req[h]) = "notified"

(* What was typed is settled in the log, or will be by the hook that did.  *)
Handled(r) == \E h \in Hooks : req[h] = r /\ result[h] = "confirmed"
TypedSettles ==
  \A r \in Calls :
    typed[r] > 0 => typed[r] = 1 /\ (log[r] \notin {"absent", "pending"} \/ Handled(r))

OnePending ==
  \A r, s \in Calls : log[r] = "pending" /\ log[s] = "pending" /\ Key[r] = Key[s] => r = s

Calm ==
  /\ LockKept /\ LeaseKept /\ ViewBehind /\ TypedSettles /\ OnePending
  /\ \A c \in Calls : QueueOK(c)
  /\ \A h \in Hooks : HookOK(h)

CalmInv == ~mishap => Calm

-----------------------------------------------------------------------------
LEMMA LogMoves ==
  ASSUME log \in Logs, LegalChange(log, log')
  PROVE  \A r \in Calls :
           \/ log'[r] = log[r]
           \/ log[r] = "absent" /\ log'[r] = "pending"
           \/ log[r] = "pending" /\ log'[r] \in {"notified", "failed"}
           \/ log[r] = "notified" /\ log'[r] \in {"delivered", "failed"}
BY DEF LegalChange, Life

(* What a step of p may change, step by step of the code's disciplines.    *)
Alone(p) ==
  /\ \A q \in Procs \ {p} : pc'[q] = pc[q] /\ cmd'[q] = cmd[q] /\ req'[q] = req[q]
  /\ \A h \in Hooks \ {p} : result'[h] = result[h]

LogStep(p) ==
  /\ LegalChange(log, log')
  /\ \A r \in Calls : log'[r] = "pending" /\ log[r] # "pending" =>
       r = p /\ Queuing(p) /\ pc[p] = "loaded"

ViewStep == \A r \in Calls : Status(view', r) \in {Status(view, r), log'[r]}

LockStep(p) ==
  \/ UNCHANGED <<lock, copy>> /\ (Holding(p)' <=> Holding(p))
  \/ lock = NoProc /\ lock' = p /\ Holding(p)'
  \/ lock = p /\ lock' = NoProc /\ ~Holding(p)'

LeaseStep(p) ==
  /\ \A r \in Calls, h \in Hooks \ {p} : lease'[r] = h <=> lease[r] = h
  /\ p \in Hooks => \A r \in Calls : lease'[r] = p <=> (pc'[p] # "idle" /\ req'[p] = r)

TypeStep(p) ==
  /\ \A r \in Calls :
       \/ typed'[r] = typed[r]
       \/ /\ p \in Hooks /\ pc[p] = "injecting" /\ req[p] = r
          /\ typed'[r] = typed[r] + 1 /\ req'[p] = r /\ result'[p] = "confirmed"
  /\ p \in Hooks /\ result[p] = "confirmed" =>
       \/ result'[p] = "confirmed" /\ req'[p] = req[p]
       \/ log'[req[p]] \notin {"absent", "pending"}

LEMMA CalmMove ==
  ASSUME DispatchInv, DispatchInv', Calm, NEW p \in Procs, Alone(p), LogStep(p), ViewStep,
         LockStep(p), LeaseStep(p), TypeStep(p),
         p \in Calls => QueueOK(p)', p \in Hooks => HookOK(p)'
  PROVE  Calm'
<1>1. /\ TypeOK /\ TypeOK' /\ log \in Logs /\ log' \in Logs /\ view \in Lists /\ view' \in Lists
      /\ typed \in [Calls -> 0..2] /\ typed' \in [Calls -> 0..2]
      /\ \A h \in Hooks : HookTrue(h) /\ HookTrue(h)'
  BY DEF DispatchInv, TypeOK
<1>2. \A r \in Calls :
        \/ log'[r] = log[r]
        \/ log[r] = "absent" /\ log'[r] = "pending"
        \/ log[r] = "pending" /\ log'[r] \in {"notified", "failed"}
        \/ log[r] = "notified" /\ log'[r] \in {"delivered", "failed"}
  BY <1>1, LogMoves DEF LogStep
<1>3. \A q \in Procs \ {p} :
        /\ (Holding(q)' <=> Holding(q)) /\ (Queuing(q)' <=> Queuing(q))
        /\ (Concluding(q)' <=> Concluding(q))
  BY DEF Alone, Holding, Queuing, Concluding
<1>4. \A q \in Procs : q # NoProc
  BY ProcFacts
<1>5. \A q \in Procs \ {p} : Holding(q) => lock = q /\ UNCHANGED <<lock, copy>> /\ ~Holding(p)
  BY <1>4 DEF LockStep, Calm, LockKept
<1>6. LockKept'
  <2> SUFFICES ASSUME NEW q \in Procs PROVE lock' = q <=> Holding(q)'
    BY DEF LockKept
  <2>1. CASE UNCHANGED <<lock, copy>> /\ (Holding(p)' <=> Holding(p))
    BY <1>3, <2>1 DEF Calm, LockKept
  <2>2. CASE lock = NoProc /\ lock' = p /\ Holding(p)'
    BY <1>3, <1>4, <2>2 DEF Calm, LockKept
  <2>3. CASE lock = p /\ lock' = NoProc /\ ~Holding(p)'
    BY <1>3, <1>4, <2>3 DEF Calm, LockKept
  <2> QED BY <2>1, <2>2, <2>3 DEF LockStep
<1>7. LeaseKept'
  <2> SUFFICES ASSUME NEW h \in Hooks, NEW r \in Calls
               PROVE  lease'[r] = h <=> (pc'[h] # "idle" /\ req'[h] = r)
    BY DEF LeaseKept
  <2>1. CASE h = p
    BY <2>1 DEF LeaseStep
  <2>2. CASE h # p
    BY <2>2, ProcFacts DEF LeaseStep, Alone, Calm, LeaseKept
  <2> QED BY <2>1, <2>2
<1>8. ViewBehind'
  <2> SUFFICES ASSUME NEW r \in Calls PROVE Later(Status(view', r), log'[r])
    BY DEF ViewBehind, Status
  <2>1. CASE Status(view', r) = log'[r]
    BY <2>1 DEF Later
  <2>2. CASE Status(view', r) = Status(view, r)
    <3>1. Later(Status(view, r), log[r])
      BY DEF Calm, ViewBehind
    <3> QED BY <1>2, <2>2, <3>1 DEF Later
  <2> QED BY <2>1, <2>2 DEF ViewStep
<1>9. TypedSettles'
  <2> SUFFICES ASSUME NEW r \in Calls, typed'[r] > 0
               PROVE  typed'[r] = 1 /\ (log'[r] \notin {"absent", "pending"} \/ Handled(r)')
    BY DEF TypedSettles
  <2>1. CASE typed'[r] = typed[r]
    <3>1. typed[r] = 1 /\ (log[r] \notin {"absent", "pending"} \/ Handled(r))
      BY <2>1 DEF Calm, TypedSettles
    <3>2. log[r] \notin {"absent", "pending"} => log'[r] \notin {"absent", "pending"}
      BY <1>2
    <3>3. ASSUME NEW h \in Hooks, req[h] = r, result[h] = "confirmed"
          PROVE  log'[r] \notin {"absent", "pending"} \/ Handled(r)'
      BY <3>3, ProcFacts DEF Alone, TypeStep, Handled
    <3> QED BY <2>1, <3>1, <3>2, <3>3 DEF Handled
  <2>2. CASE typed'[r] # typed[r]
    <3>1. /\ p \in Hooks /\ pc[p] = "injecting" /\ req[p] = r
          /\ typed'[r] = typed[r] + 1 /\ req'[p] = r /\ result'[p] = "confirmed"
      BY <2>2 DEF TypeStep
    <3>2. typed[r] = 0
      BY <3>1 DEF Calm, HookOK
    <3> QED BY <3>1, <3>2 DEF Handled
  <2> QED BY <2>1, <2>2
<1>10. OnePending'
  <2> SUFFICES ASSUME NEW r \in Calls, NEW s \in Calls,
                      log'[r] = "pending", log'[s] = "pending", Key[r] = Key[s]
               PROVE  r = s
    BY DEF OnePending
  <2>1. CASE log[r] = "pending" /\ log[s] = "pending"
    BY <2>1 DEF Calm, OnePending
  <2>2. ASSUME log[r] # "pending", log[s] # "pending" PROVE r = s
    BY <2>2 DEF LogStep
  <2>3. ASSUME NEW a \in Calls, NEW b \in Calls, log[a] = "pending", log[b] # "pending",
               log'[b] = "pending", Key[a] = Key[b]
        PROVE  a = b
    BY <2>3 DEF LogStep, Calm, QueueOK
  <2> QED BY <2>1, <2>2, <2>3
<1>11. ASSUME NEW c \in Calls, c # p PROVE QueueOK(c)'
  <2>1. /\ QueueOK(c) /\ c \in Procs /\ pc'[c] = pc[c] /\ (Queuing(c)' <=> Queuing(c))
        /\ (Queuing(c) \/ pc[c] = "unqueued" => Holding(c))
    BY <1>3, <1>11, ProcFacts DEF Calm, Alone, Holding
  <2>2. Queuing(c) \/ pc[c] = "unqueued" => copy' = copy /\ ~Holding(p)
    BY <1>5, <1>11, <2>1
  <2>3. pc[c] = "queued" => Status(view', c) # "absent"
    <3> SUFFICES ASSUME pc[c] = "queued" PROVE Status(view', c) # "absent"
      OBVIOUS
    <3>1. Status(view, c) # "absent" /\ Later(Status(view, c), log[c])
      BY <2>1 DEF QueueOK, Calm, ViewBehind
    <3> QED BY <1>2, <3>1 DEF Later, ViewStep
  <2>4. Queuing(c) /\ pc[c] # "regenerating" =>
          \A r \in Calls \ {c} : log'[r] = "pending" => Key[r] # Key[c]
    <3> SUFFICES ASSUME Queuing(c), pc[c] # "regenerating",
                        NEW r \in Calls \ {c}, log'[r] = "pending"
                 PROVE  Key[r] # Key[c]
      OBVIOUS
    <3>1. log[r] = "pending"
      BY <2>2 DEF LogStep, Holding
    <3> QED BY <2>1, <3>1 DEF QueueOK
  <2>5. log'[c] = "pending" /\ Status(view', c) = "absent" => Queuing(c) \/ pc[c] = "unqueued"
    <3> SUFFICES ASSUME log'[c] = "pending", Status(view', c) = "absent"
                 PROVE  Queuing(c) \/ pc[c] = "unqueued"
      OBVIOUS
    <3>1. log[c] = "pending" /\ Status(view, c) = "absent"
      BY <1>11 DEF LogStep, ViewStep
    <3> QED BY <2>1, <3>1 DEF QueueOK
  <2>6. Queuing(c) /\ pc[c] = "regenerating" => log'[c] # "absent"
    BY <1>2, <2>1 DEF QueueOK
  <2> QED BY <2>1, <2>2, <2>3, <2>4, <2>5, <2>6 DEF QueueOK, Status
<1>12. ASSUME NEW h \in Hooks, h # p, pc[h] # "idle" PROVE HookOK(h)'
  <2>1. /\ HookOK(h) /\ h \in Procs /\ pc'[h] = pc[h] /\ cmd'[h] = cmd[h] /\ req'[h] = req[h]
        /\ result'[h] = result[h] /\ req[h] \in Calls /\ (Concluding(h)' <=> Concluding(h))
        /\ (Concluding(h) \/ pc[h] = "claiming" => Holding(h))
    BY <1>1, <1>3, <1>12, ProcFacts DEF Calm, Alone, Holding, HookTrue
  <2>2. Concluding(h) \/ pc[h] = "claiming" => copy' = copy
    BY <1>5, <1>12, <2>1
  <2>3. Status(view, req[h]) # "absent" /\ Later(Status(view, req[h]), log[req[h]])
    BY <1>12, <2>1 DEF HookOK, Calm, ViewBehind
  <2>4. Status(view', req[h]) # "absent"
    BY <1>2, <2>1, <2>3 DEF Later, ViewStep
  <2>5. log'[req[h]] = "pending" => log[req[h]] = "pending"
    BY <1>2, <2>1, <2>3 DEF Later
  <2>6. typed'[req[h]] = typed[req[h]]
    <3>1. lease[req[h]] = h
      BY <1>12, <2>1 DEF Calm, LeaseKept
    <3>2. p \in Hooks /\ pc[p] = "injecting" /\ req[p] = req[h] => lease[req[h]] = p
      BY <2>1 DEF Calm, LeaseKept
    <3> QED BY <1>12, <2>1, <3>1, <3>2 DEF TypeStep
  <2> QED BY <1>12, <2>1, <2>2, <2>4, <2>5, <2>6 DEF HookOK, Status
<1>13. ASSUME NEW h \in Hooks, h # p, pc[h] = "idle" PROVE HookOK(h)'
  BY <1>13, ProcFacts DEF Alone, HookOK
<1> QED BY <1>6, <1>7, <1>8, <1>9, <1>10, <1>11, <1>12, <1>13 DEF Calm

LEMMA SameLog ==
  ASSUME NEW p \in Procs, log' = log
  PROVE  LogStep(p)
BY DEF LogStep, LegalChange

LEMMA CalmRead ==
  ASSUME NEW list \in {view, legacy}, Read(list), ~mishap'
  PROVE  list = view
BY DEF Read, ReadWhole, ReadTorn, Note

LEMMA CalmWrite ==
  ASSUME DispatchInv, NEW list, WriteList(list), log' = log, ~mishap'
  PROVE  /\ \A r \in Calls : Status(list, r) = log[r]
         /\ view' = IF copy.both THEN list ELSE view
         /\ ViewStep
BY DEF WriteList, Note, ViewStep

LEMMA Went ==
  ASSUME DispatchInv, NEW p \in Procs, NEW to, Goto(p, to)
  PROVE  pc'[p] = to /\ \A q \in Procs \ {p} : pc'[q] = pc[q]
BY DEF Goto, DispatchInv, TypeOK

(* Where a process does not hold the lock, nor runs the engine.            *)
Busy == Executing \cup {"queued", "unqueued", "writing", "claiming", "concluding"}

LEMMA Idle ==
  ASSUME NEW p \in Procs
  PROVE  /\ pc[p] \notin Busy => ~Holding(p)
         /\ pc'[p] \notin Busy => ~Holding(p)' /\ ~Concluding(p)'
BY DEF Busy, Holding, Queuing, Concluding

LEMMA CalmCall ==
  ASSUME DispatchInv, DispatchInv', Calm, NEW c \in Calls, Alone(c),
         UNCHANGED <<log, lease, typed>>, ViewStep, LockStep(c), QueueOK(c)'
  PROVE  Calm'
<1>1. c \in Procs /\ c \notin Hooks
  BY ProcFacts
<1>2. LogStep(c)
  BY <1>1, SameLog
<1>3. LeaseStep(c) /\ TypeStep(c)
  BY <1>1 DEF LeaseStep, TypeStep
<1> QED BY <1>1, <1>2, <1>3, CalmMove

(* A call that does not hold the lock and has nothing queued.              *)
LEMMA NothingQueued ==
  ASSUME Calm, NEW c \in Calls, ~Holding(c)
  PROVE  ~(log[c] = "pending" /\ Status(view, c) = "absent")
BY DEF Calm, QueueOK, Holding

QuietStep(c) ==
  /\ pc[c] \notin Busy /\ \E to \in Points \ Busy : Goto(c, to)
  /\ UNCHANGED <<stores, engines, lock, copy, result, lease, typed>>
  /\ \A q \in Procs \ {c} : req'[q] = req[q]

LEMMA QuietCall ==
  ASSUME DispatchInv, DispatchInv', Calm, NEW c \in Calls, QuietStep(c)
  PROVE  Calm'
<1>1. PICK to \in Points \ Busy : Goto(c, to)
  BY DEF QuietStep
<1>2. c \in Procs /\ pc'[c] = to /\ \A q \in Procs \ {c} : pc'[q] = pc[q]
  BY <1>1, Went, ProcFacts
<1>3. ~Holding(c) /\ ~Holding(c)'
  BY <1>1, <1>2, Idle DEF QuietStep
<1>4. Alone(c)
  BY <1>2, ProcFacts DEF QuietStep, Alone, engines
<1>5. ViewStep /\ LockStep(c)
  BY <1>3 DEF QuietStep, ViewStep, LockStep, stores, Status
<1>6. QueueOK(c)'
  BY <1>1, <1>2, <1>3, NothingQueued DEF QuietStep, QueueOK, Queuing, Busy, stores, Status
<1> QED BY <1>4, <1>5, <1>6, CalmCall DEF QuietStep, stores

LEMMA VerdictQuiet == \A c \in Calls : Verdict(c) \in Points \ Busy
BY DEF Verdict, Points, Busy, Executing, Done

LEMMA CalmWaiting ==
  ASSUME DispatchInv, DispatchInv', Calm, NEW c \in Calls,
         Dedupe(c) \/ Receipt(c) \/ TypeDirectly(c) \/ TypingFails(c) \/ ReadBeforeFailing(c)
  PROVE  Calm'
<1>1. CASE Dedupe(c)
  <2>1. \E r \in Calls : req' = [req EXCEPT ![c] = r]
    BY <1>1 DEF Dedupe, Equivalent
  <2>2. \A q \in Procs \ {c} : req'[q] = req[q]
    BY <2>1 DEF DispatchInv, TypeOK
  <2> QED BY <1>1, <2>2, QuietCall
          DEF Dedupe, QuietStep, Jump, Points, Busy, Executing, Done, texts
<1>2. CASE Receipt(c)
  BY <1>2, QuietCall DEF Receipt, QuietStep, Points, Busy, Executing, Done, texts
<1>3. CASE TypeDirectly(c)
  BY <1>3, QuietCall DEF TypeDirectly, QuietStep, Jump, Points, Busy, Executing, Done
<1>4. CASE TypingFails(c)
  BY <1>4, QuietCall DEF TypingFails, QuietStep, Jump, Points, Busy, Executing, Done, texts
<1>5. CASE ReadBeforeFailing(c)
  <2>1. Goto(c, Verdict(c)) \/ Goto(c, "failinglist")
    BY <1>5 DEF ReadBeforeFailing
  <2>2. "failinglist" \in Points \ Busy
    BY DEF Points, Busy, Executing
  <2>3. pc[c] \notin Busy
    BY <1>5 DEF ReadBeforeFailing, Busy, Executing
  <2> QED BY <1>5, <2>1, <2>2, <2>3, VerdictQuiet, QuietCall DEF ReadBeforeFailing, QuietStep, texts
<1> QED BY <1>1, <1>2, <1>3, <1>4, <1>5

LEMMA CalmMarking ==
  ASSUME DispatchInv, DispatchInv', Calm, NEW c \in Calls, MarkNotified(c)
  PROVE  Calm'
<1>1. /\ pc[c] = "marking" /\ pc[c] \notin Busy
      /\ UNCHANGED <<stores, engine, lock, copy, req, seen, result, lease, texts, faults>>
  BY DEF MarkNotified, Busy, Executing
<1>2. \/ Exec(c, "notify", req[c], "ok", "listing")
      \/ UNCHANGED cmd /\ \E to \in {"ok", "patching"} : Goto(c, to)
  BY DEF MarkNotified
<1>3. CASE UNCHANGED cmd /\ \E to \in {"ok", "patching"} : Goto(c, to)
  BY <1>1, <1>3, QuietCall DEF QuietStep, Points, Busy, Executing, Done, texts, engines
<1>4. CASE Exec(c, "notify", req[c], "ok", "listing")
  <2>1. c \in Procs /\ req[c] \in Calls /\ {"ok", "listing"} \subseteq Points
    BY <1>1, CallFacts DEF Points, Done
  <2>2. /\ pc'[c] = "loading" /\ cmd'[c].op = "notify" /\ cmd'[c].back = "ok"
        /\ \A q \in Procs \ {c} : pc'[q] = pc[q] /\ cmd'[q] = cmd[q]
    BY <1>4, <2>1, ExecTyped
  <2>3. Alone(c)
    BY <1>1, <2>2, ProcFacts DEF Alone
  <2>4. ~Holding(c) /\ ~Holding(c)'
    BY <1>1, <2>1, <2>2, Idle DEF Holding, Queuing, Concluding
  <2>5. ViewStep /\ LockStep(c)
    BY <1>1, <2>4 DEF ViewStep, LockStep, stores, Status
  <2>6. QueueOK(c)'
    BY <1>1, <2>2, <2>4, NothingQueued DEF QueueOK, Queuing, stores, Status
  <2> QED BY <1>1, <2>3, <2>5, <2>6, CalmCall DEF stores, texts
<1> QED BY <1>2, <1>3, <1>4

(* A call takes the lock in order to write a transition.                   *)
LEMMA CalmLocking ==
  ASSUME DispatchInv, DispatchInv', Calm, NEW c \in Calls, NEW list,
         pc[c] \notin Busy, Goto(c, "writing"), TakeLock(c, list, TRUE),
         UNCHANGED <<stores, engines, req, result, lease, typed>>
  PROVE  Calm'
<1>1. c \in Procs /\ pc'[c] = "writing" /\ \A q \in Procs \ {c} : pc'[q] = pc[q]
  BY Went, ProcFacts
<1>2. ~Holding(c) /\ Holding(c)'
  BY <1>1, Idle DEF Holding
<1>3. Alone(c)
  BY <1>1, ProcFacts DEF Alone, engines
<1>4. ViewStep /\ LockStep(c)
  BY <1>2 DEF ViewStep, LockStep, TakeLock, stores, Status
<1>5. QueueOK(c)'
  BY <1>1, <1>2, NothingQueued DEF QueueOK, Queuing, Executing, stores, Status
<1> QED BY <1>3, <1>4, <1>5, CalmCall DEF stores

LEMMA CalmTransition ==
  ASSUME DispatchInv, DispatchInv', Calm, NEW c \in Calls, NotifyInList(c) \/ FailInList(c)
  PROVE  Calm'
<1>1. /\ pc[c] \notin Busy /\ UNCHANGED <<stores, engines, req, result, lease, texts>>
  BY DEF NotifyInList, FailInList, Busy, Executing
<1>2. \/ \E list : TakeLock(c, list, TRUE) /\ Goto(c, "writing")
      \/ UNCHANGED <<lock, copy>> /\ \E to \in {Verdict(c), "ok", "patching"} : Goto(c, to)
  BY DEF NotifyInList, FailInList
<1>3. {Verdict(c), "ok", "patching"} \subseteq Points \ Busy
  BY VerdictQuiet DEF Points, Busy, Executing, Done
<1>4. CASE \E list : TakeLock(c, list, TRUE) /\ Goto(c, "writing")
  BY <1>1, <1>4, CalmLocking DEF texts
<1>5. CASE UNCHANGED <<lock, copy>> /\ \E to \in {Verdict(c), "ok", "patching"} : Goto(c, to)
  BY <1>1, <1>3, <1>5, QuietCall DEF QuietStep, texts
<1> QED BY <1>2, <1>4, <1>5

(* What the list shows at the moment of enqueueing is all there is: nobody *)
(* else is about to queue, since that takes the lock.                      *)
LEMMA CalmEnqueue ==
  ASSUME DispatchInv, DispatchInv', Calm, ~mishap', NEW c \in Calls, Enqueue(c)
  PROVE  Calm'
<1>1. /\ pc[c] = "idle" /\ req' = [req EXCEPT ![c] = c]
      /\ Exec(c, "queue", c, "queued", "unqueued")
      /\ UNCHANGED <<stores, engine, seen, result, lease, texts, faults>>
  BY DEF Enqueue
<1>2. /\ Equivalent(view, c) = {} /\ lock = NoProc /\ lock' = c /\ copy'.both = TRUE
  <2>1. PICK list \in {view, legacy} :
          Read(list) /\ Equivalent(list, c) = {} /\ TakeLock(c, list, TRUE)
    BY DEF Enqueue
  <2> QED BY <2>1, CalmRead DEF TakeLock
<1>3. c \in Procs /\ {"queued", "unqueued"} \subseteq Points
  BY ProcFacts DEF Points
<1>4. /\ pc'[c] = "loading" /\ cmd'[c].op = "queue"
      /\ \A q \in Procs \ {c} : pc'[q] = pc[q] /\ cmd'[q] = cmd[q]
  BY <1>1, <1>3, ExecTyped
<1>5. Alone(c)
  BY <1>1, <1>4, ProcFacts DEF Alone, DispatchInv, TypeOK
<1>6. Queuing(c)' /\ Holding(c)'
  BY <1>4 DEF Queuing, Holding, Executing
<1>7. ViewStep /\ LockStep(c)
  BY <1>1, <1>2, <1>6 DEF ViewStep, LockStep, stores, Status
<1>8. ASSUME NEW r \in Calls, log[r] = "pending" PROVE Key[r] # Key[c]
  <2>1. ~Holding(r)
    BY <1>2, ProcFacts DEF Calm, LockKept
  <2>2. Status(view, r) # "absent" /\ Later(Status(view, r), "pending")
    BY <1>8, <2>1, NothingQueued DEF Calm, ViewBehind
  <2>3. Status(view, r) = "pending"
    BY <2>2 DEF Later
  <2> QED BY <1>2, <2>3 DEF Equivalent, Status
<1>9. QueueOK(c)'
  BY <1>1, <1>2, <1>4, <1>6, <1>8 DEF QueueOK, stores
<1> QED BY <1>1, <1>5, <1>7, <1>9, CalmCall DEF stores, texts

LEMMA CalmReadBack ==
  ASSUME DispatchInv, DispatchInv', Calm, ~mishap', NEW c \in Calls, ReadBack(c)
  PROVE  Calm'
<1>1. /\ pc[c] = "queued" /\ UNCHANGED <<stores, engines, req, seen, result, lease, texts, faults>>
  BY DEF ReadBack
<1>2. Goto(c, AfterQueue(c)) /\ Unlock
  <2>1. PICK list \in {view, legacy} :
          /\ Read(list)
          /\ IF Status(list, c) # "absent"
             THEN Goto(c, AfterQueue(c)) /\ Unlock
             ELSE Goto(c, "unqueued") /\ UNCHANGED <<lock, copy>>
    BY DEF ReadBack
  <2>2. Status(view, c) # "absent"
    BY <1>1 DEF Calm, QueueOK
  <2> QED BY <2>1, <2>2, CalmRead
<1>3. /\ c \in Procs /\ pc'[c] = AfterQueue(c) /\ \A q \in Procs \ {c} : pc'[q] = pc[q]
      /\ AfterQueue(c) \notin Busy
  BY <1>2, Went, ProcFacts DEF AfterQueue, Busy, Executing
<1>4. Holding(c) /\ lock = c /\ ~Holding(c)'
  BY <1>1, <1>3, Idle DEF Holding, Calm, LockKept
<1>5. Alone(c) /\ ViewStep /\ LockStep(c)
  BY <1>1, <1>2, <1>3, <1>4, ProcFacts
     DEF Alone, engines, ViewStep, LockStep, Unlock, stores, Status
<1>6. QueueOK(c)'
  <2>1. Status(view, c) # "absent" /\ view' = view
    BY <1>1 DEF Calm, QueueOK, stores
  <2> QED BY <1>3, <2>1 DEF QueueOK, Queuing, Busy, Status
<1> QED BY <1>1, <1>5, <1>6, CalmCall DEF stores, texts

LEMMA CalmWriting ==
  ASSUME DispatchInv, DispatchInv', Calm, ~mishap', NEW c \in Calls,
         QueueInList(c) \/ WriteTransition(c)
  PROVE  Calm'
<1>1. PICK to, list :
        /\ pc[c] \in {"unqueued", "writing"} /\ Goto(c, to) /\ to \notin Busy
        /\ WriteList(list) /\ Unlock
  BY VerdictQuiet
     DEF QueueInList, WriteTransition, Jump, AfterQueue, Points, Busy, Executing, Done
<1>2. UNCHANGED <<log, engines, req, seen, result, lease, texts, faults>>
  BY DEF QueueInList, WriteTransition
<1>3. c \in Procs /\ pc'[c] = to /\ \A q \in Procs \ {c} : pc'[q] = pc[q]
  BY <1>1, Went, ProcFacts
<1>4. Holding(c) /\ lock = c /\ ~Holding(c)'
  BY <1>1, <1>3, Idle DEF Holding, Calm, LockKept
<1>5. /\ \A r \in Calls : Status(list, r) = log[r]
      /\ view' = IF copy.both THEN list ELSE view
      /\ ViewStep
  BY <1>1, <1>2, CalmWrite
<1>6. Alone(c) /\ LockStep(c)
  BY <1>1, <1>2, <1>3, <1>4, ProcFacts DEF Alone, engines, LockStep, Unlock
<1>7. log[c] = "pending" => Status(view', c) # "absent"
  <2>1. QueueOK(c) /\ ~Queuing(c)
    BY <1>1 DEF Calm, Queuing, Executing
  <2> QED BY <1>1, <1>5, <2>1 DEF QueueOK, Status
<1>8. QueueOK(c)'
  BY <1>1, <1>2, <1>3, <1>7 DEF QueueOK, Queuing, Busy, Status
<1> QED BY <1>2, <1>5, <1>6, <1>8, CalmCall DEF texts

LEMMA CalmCalls ==
  ASSUME DispatchInv, DispatchInv', Calm, ~mishap', NEW c \in Calls, Call(c)
  PROVE  Calm'
BY CalmWaiting, CalmMarking, CalmTransition, CalmEnqueue, CalmReadBack, CalmWriting DEF Call

-----------------------------------------------------------------------------
(* The engine.                                                             *)
LEMMA CalmExec ==
  ASSUME DispatchInv, DispatchInv', Calm, NEW p \in Procs, pc[p] \in Executing,
         LogStep(p), ViewStep,
         \A q \in Procs \ {p} : pc'[q] = pc[q] /\ cmd'[q] = cmd[q],
         UNCHANGED <<lock, copy, req, result, lease, typed>>,
         Holding(p)' <=> Holding(p),
         pc'[p] \notin {"idle", "claiming", "injecting"},
         p \in Calls => QueueOK(p)',
         p \in Hooks => (pc'[p] \in Executing => cmd'[p].fail = cmd'[p].back)
                        /\ (Concluding(p)' => Concluding(p))
  PROVE  Calm'
<1>1. Alone(p) /\ LockStep(p)
  BY ProcFacts DEF Alone, LockStep
<1>2. LeaseStep(p)
  BY DEF LeaseStep, Calm, LeaseKept, Executing
<1>3. TypeStep(p)
  BY DEF TypeStep
<1>4. ASSUME p \in Hooks PROVE HookOK(p)'
  <2>1. /\ HookOK(p) /\ req[p] \in Calls /\ pc[p] \notin {"idle", "claiming"}
        /\ Status(view, req[p]) # "absent"
    BY <1>4 DEF Calm, HookOK, DispatchInv, HookTrue, Executing
  <2>2. log \in Logs
    BY DEF DispatchInv, TypeOK
  <2>3. log'[req[p]] # "absent"
    <3>1. log[req[p]] # "absent"
      BY <2>1 DEF Calm, ViewBehind, Later
    <3> QED BY <2>1, <2>2, <3>1, LogMoves DEF LogStep
  <2>4. Status(view', req[p]) # "absent"
    BY <2>1, <2>3 DEF ViewStep
  <2> QED BY <1>4, <2>1, <2>4 DEF HookOK, Status
<1> QED BY <1>1, <1>2, <1>3, <1>4, CalmMove

(* Where a process goes on after its command, the lock is as it was.       *)
LEMMA Returns ==
  ASSUME DispatchInv, Calm, NEW p \in Procs, pc[p] \in Executing,
         NEW to \in {cmd[p].back, cmd[p].fail}, EndExec(p, to)
  PROVE  /\ pc'[p] = to /\ to \notin Executing \cup {"idle", "claiming", "injecting"}
         /\ \A q \in Procs \ {p} : pc'[q] = pc[q] /\ cmd'[q] = cmd[q]
         /\ Holding(p)' <=> Holding(p)
         /\ p \in Hooks => (Concluding(p)' => Concluding(p))
         /\ Queuing(p) => p \in Calls /\ cmd[p].back = "queued" /\ cmd[p].fail = "unqueued"
         /\ p \in Calls /\ ~Queuing(p) => to \in {"ok", "listing"}
<1>1. CmdTrue(p) /\ TypeOK
  BY DEF DispatchInv
<1>2. /\ pc'[p] = to /\ \A q \in Procs \ {p} : pc'[q] = pc[q] /\ cmd'[q] = cmd[q]
  BY <1>1 DEF EndExec, Goto, TypeOK
<1>3. CASE Queuing(p)
  <2>1. p \in Calls /\ cmd[p].back = "queued" /\ cmd[p].fail = "unqueued" /\ p \notin Hooks
    BY <1>1, <1>3, ProcFacts DEF CmdTrue, Queuing
  <2> QED BY <1>2, <1>3, <2>1 DEF Holding, Executing
<1>4. CASE ~Queuing(p) /\ p \in Calls
  <2>1. cmd[p].back = "ok" /\ cmd[p].fail = "listing" /\ p \notin Hooks
    BY <1>1, <1>4, ProcFacts DEF CmdTrue, Queuing
  <2> QED BY <1>2, <1>4, <2>1 DEF Holding, Concluding, Queuing, Executing
<1>5. CASE p \in Hooks
  <2>1. /\ cmd[p].fail = cmd[p].back /\ cmd[p].back \in {"injected", "concluding"}
        /\ p \notin Calls /\ ~Queuing(p)
    BY <1>1, <1>5, ProcFacts DEF CmdTrue, Queuing, Calm, HookOK, Executing
  <2> QED BY <1>2, <1>5, <2>1 DEF Holding, Concluding, Queuing, Executing
<1> QED BY <1>3, <1>4, <1>5 DEF Procs

LEMMA CalmEnding ==
  ASSUME DispatchInv, DispatchInv', Calm, ~mishap', NEW p \in Procs, ExecFails(p) \/ Refuse(p)
  PROVE  Calm'
<1>1. /\ pc[p] \in Executing /\ EndExec(p, cmd[p].fail)
      /\ UNCHANGED <<log, lock, copy, req, seen, result, lease, texts>>
      /\ view' \in {view, ListOf(log)}
  <2>1. CASE Refuse(p)
    BY <2>1 DEF Refuse, Executing, stores
  <2>2. CASE ExecFails(p)
    <3>1. /\ log' = log /\ (view' = view \/ engine[p] = log) /\ Interrupted(p)
      BY <2>2 DEF ExecFails, Note
    <3>2. view' = view \/ view' = ListOf(engine[p])
      BY <3>1 DEF Interrupted, LoseLog, CutView, RewriteView, stores
    <3> QED BY <2>2, <3>1, <3>2 DEF ExecFails, Executing
  <2> QED BY <2>1, <2>2
<1>2. /\ pc'[p] = cmd[p].fail
      /\ pc'[p] \notin Executing \cup {"idle", "claiming", "injecting"}
      /\ \A q \in Procs \ {p} : pc'[q] = pc[q] /\ cmd'[q] = cmd[q]
      /\ Holding(p)' <=> Holding(p)
      /\ p \in Hooks => (Concluding(p)' => Concluding(p))
      /\ Queuing(p) => p \in Calls /\ cmd[p].fail = "unqueued"
      /\ p \in Calls /\ ~Queuing(p) => cmd[p].fail \in {"ok", "listing"}
  BY <1>1, Returns
<1>a. \A r \in Calls : Status(view', r) \in {Status(view, r), log[r]}
  BY <1>1 DEF ListOf, Status
<1>3. LogStep(p) /\ ViewStep
  BY <1>1, <1>a, SameLog DEF ViewStep
<1>4. ASSUME p \in Calls PROVE QueueOK(p)'
  <2>1. QueueOK(p) /\ pc[p] # "unqueued"
    BY <1>1, <1>4 DEF Calm, Executing
  <2>2. ~Queuing(p)'
    BY <1>2 DEF Queuing
  <2>3. log'[p] = "pending" /\ Status(view', p) = "absent" => Status(view, p) = "absent"
    BY <1>1, <1>4, <1>a
  <2>4. pc'[p] = "unqueued" => Queuing(p)
    BY <1>2, <1>4
  <2>5. pc'[p] # "queued"
    BY <1>2, <1>4
  <2> QED BY <1>1, <1>2, <1>4, <2>1, <2>2, <2>3, <2>4, <2>5 DEF QueueOK, Status
<1> QED BY <1>1, <1>2, <1>3, <1>4, CalmExec DEF texts

LEMMA CalmLoad ==
  ASSUME DispatchInv, DispatchInv', Calm, NEW p \in Procs, Load(p)
  PROVE  Calm'
<1>1. /\ pc[p] = "loading" /\ Goto(p, "loaded")
      /\ UNCHANGED <<stores, cmd, lock, copy, req, seen, result, lease, texts, faults, mishap>>
  BY DEF Load, Jump
<1>2. pc'[p] = "loaded" /\ \A q \in Procs \ {p} : pc'[q] = pc[q]
  BY <1>1, Went
<1>3. /\ Queuing(p)' <=> Queuing(p)
      /\ Concluding(p)' <=> Concluding(p)
      /\ Holding(p)' <=> Holding(p)
  BY <1>1, <1>2 DEF Queuing, Concluding, Holding, Executing
<1>4. LogStep(p) /\ ViewStep
  BY <1>1, SameLog DEF stores, ViewStep, Status
<1>5. p \in Calls => QueueOK(p)'
  BY <1>1, <1>2, <1>3 DEF Calm, QueueOK, stores, Status
<1>6. p \in Hooks => cmd'[p].fail = cmd'[p].back
  BY <1>1 DEF Calm, HookOK, Executing
<1> QED BY <1>1, <1>2, <1>3, <1>4, <1>5, <1>6, CalmExec DEF Executing, texts

LEMMA CalmPersist ==
  ASSUME DispatchInv, DispatchInv', Calm, ~mishap', NEW p \in Procs, Persist(p)
  PROVE  Calm'
<1>1. /\ pc[p] = "loaded" /\ Goto(p, "regenerating") /\ Accepts(engine[p], cmd[p])
      /\ log' = Processed(engine[p], cmd[p])
      /\ engine[p] = log
      /\ UNCHANGED <<view, legacy, cmd, lock, copy, req, seen, result, lease, texts, faults>>
  BY DEF Persist, Jump, Note
<1>2. pc'[p] = "regenerating" /\ \A q \in Procs \ {p} : pc'[q] = pc[q]
  BY <1>1, Went
<1>3. /\ Queuing(p)' <=> Queuing(p)
      /\ Concluding(p)' <=> Concluding(p)
      /\ Holding(p)' <=> Holding(p)
  BY <1>1, <1>2 DEF Queuing, Concluding, Holding, Executing
<1>4. /\ log \in Logs /\ cmd[p].req \in Calls /\ CmdTrue(p)
      /\ cmd[p].op \in {"queue", "notify", "deliver", "fail"}
  BY <1>1, Resumed DEF DispatchInv, TypeOK, CommandOK, Executing
<1>5. log'[cmd[p].req] = Outcome[cmd[p].op] /\ \A r \in Calls \ {cmd[p].req} : log'[r] = log[r]
  BY <1>1, <1>4 DEF Processed, Logs
<1>6. Outcome[cmd[p].op] = "pending" => cmd[p].op = "queue"
  BY <1>4 DEF Outcome
<1>7. cmd[p].op = "queue" => cmd[p].req = p /\ log'[p] = "pending"
  BY <1>1, <1>4, <1>5 DEF Outcome, CmdTrue, Executing
<1>8. LogStep(p)
  <2>1. LegalChange(log, log')
    BY <1>1, PersistLives
  <2> QED BY <1>1, <1>5, <1>6, <1>7, <2>1 DEF LogStep, Queuing, Executing
<1>9. ViewStep
  BY <1>1 DEF ViewStep, Status
<1>10. ASSUME p \in Calls PROVE QueueOK(p)'
  <2>1. Queuing(p) => log'[p] # "absent"
    BY <1>7 DEF Queuing
  <2>2. log'[p] = "pending" /\ Status(view, p) = "absent" => Queuing(p)
    BY <1>1, <1>8, <1>10 DEF LogStep, Calm, QueueOK
  <2> QED BY <1>1, <1>2, <1>3, <1>10, <2>1, <2>2 DEF Calm, QueueOK, Status
<1>11. p \in Hooks => cmd'[p].fail = cmd'[p].back
  BY <1>1 DEF Calm, HookOK, Executing
<1> QED BY <1>1, <1>2, <1>3, <1>8, <1>9, <1>10, <1>11, CalmExec DEF Executing, texts

LEMMA CalmRegenerate ==
  ASSUME DispatchInv, DispatchInv', Calm, ~mishap', NEW p \in Procs, Regenerate(p)
  PROVE  Calm'
<1>1. /\ pc[p] = "regenerating" /\ pc[p] \in Executing /\ EndExec(p, cmd[p].back)
      /\ view' = ListOf(log)
      /\ UNCHANGED <<log, legacy, lock, copy, req, seen, result, lease, texts, faults>>
  BY DEF Regenerate, RewriteView, Note, Executing
<1>2. /\ pc'[p] = cmd[p].back
      /\ pc'[p] \notin Executing \cup {"idle", "claiming", "injecting"}
      /\ \A q \in Procs \ {p} : pc'[q] = pc[q] /\ cmd'[q] = cmd[q]
      /\ Holding(p)' <=> Holding(p)
      /\ p \in Hooks => (Concluding(p)' => Concluding(p))
      /\ Queuing(p) => p \in Calls /\ cmd[p].back = "queued"
      /\ p \in Calls /\ ~Queuing(p) => cmd[p].back \in {"ok", "listing"}
  BY <1>1, Returns
<1>3. \A r \in Calls : Status(view', r) = log[r]
  BY <1>1 DEF ListOf, Status
<1>4. LogStep(p) /\ ViewStep
  BY <1>1, <1>3, SameLog DEF ViewStep
<1>5. ASSUME p \in Calls PROVE QueueOK(p)'
  <2>1. QueueOK(p) /\ (Queuing(p) => log[p] # "absent")
    BY <1>1, <1>5 DEF Calm, QueueOK
  <2>2. ~Queuing(p)'
    BY <1>2 DEF Queuing
  <2> QED BY <1>1, <1>2, <1>3, <1>5, <2>1, <2>2 DEF QueueOK, Status
<1> QED BY <1>1, <1>2, <1>4, <1>5, CalmExec DEF texts

LEMMA CalmEngine ==
  ASSUME DispatchInv, DispatchInv', Calm, ~mishap', NEW p \in Procs, Engine(p)
  PROVE  Calm'
BY CalmEnding, CalmLoad, CalmPersist, CalmRegenerate DEF Engine

-----------------------------------------------------------------------------
(* The hooks.                                                              *)
LEMMA CalmHook ==
  ASSUME DispatchInv, DispatchInv', Calm, NEW h \in Hooks, Alone(h), log' = log, ViewStep,
         LockStep(h), LeaseStep(h), TypeStep(h), HookOK(h)'
  PROVE  Calm'
BY SameLog, CalmMove, ProcFacts

(* A hook keeps its lease while it stays with its request.                 *)
LEMMA SameLease ==
  ASSUME Calm, NEW h \in Hooks, pc[h] # "idle", pc'[h] # "idle", UNCHANGED <<req, lease>>
  PROVE  LeaseStep(h)
BY DEF Calm, LeaseKept, LeaseStep

LEMMA CalmClaim ==
  ASSUME DispatchInv, DispatchInv', Calm, ~mishap', NEW h \in Hooks, NEW r \in Calls, Claim(h, r)
  PROVE  Calm'
<1>1. /\ pc[h] = "idle" /\ Goto(h, "claiming") /\ lease[r] = NoProc
      /\ lease' = [lease EXCEPT ![r] = h] /\ req' = [req EXCEPT ![h] = r]
      /\ UNCHANGED <<stores, engines, seen, result, texts, faults>>
  BY DEF Claim, Jump
<1>2. /\ lock = NoProc /\ lock' = h /\ copy'.list = view /\ Status(view, r) = "pending"
  <2>1. PICK list \in {view, legacy} : HookReads(h, list, list) /\ Status(list, r) = "pending"
    BY DEF Claim
  <2>2. Read(list) /\ lock = NoProc /\ lock' = h /\ copy'.list = list
    BY <2>1 DEF HookReads, Read, TakeLock
  <2> QED BY <2>1, <2>2, CalmRead
<1>3. /\ h \in Procs /\ h \notin Calls /\ TypeOK /\ HookTrue(h) /\ result[h] # "confirmed"
      /\ pc'[h] = "claiming" /\ req'[h] = r
      /\ \A q \in Procs \ {h} : pc'[q] = pc[q] /\ req'[q] = req[q]
      /\ \A g \in Hooks : g # NoProc
  <2>1. h \in Procs /\ h \notin Calls /\ TypeOK /\ HookTrue(h) /\ \A g \in Hooks : g # NoProc
    BY HookFacts, ProcFacts
  <2>2. pc'[h] = "claiming" /\ \A q \in Procs \ {h} : pc'[q] = pc[q]
    BY <1>1, <2>1, Went
  <2> QED BY <1>1, <2>1, <2>2 DEF HookTrue, TypeOK
<1>4. Alone(h)
  BY <1>1, <1>3 DEF Alone, engines
<1>5. ViewStep /\ LockStep(h)
  BY <1>1, <1>2, <1>3 DEF ViewStep, LockStep, Holding, stores, Status
<1>6. LeaseStep(h)
  <2>1. lease'[r] = h /\ \A s \in Calls \ {r} : lease'[s] = lease[s]
    BY <1>1, <1>3 DEF TypeOK
  <2> QED BY <1>1, <1>3, <2>1 DEF LeaseStep, Calm, LeaseKept
<1>7. TypeStep(h)
  BY <1>1, <1>3 DEF TypeStep, texts
<1>8. log[r] = "pending" => typed[r] = 0
  <2>1. ~Handled(r)
    <3> SUFFICES ASSUME NEW g \in Hooks, req[g] = r, result[g] = "confirmed" PROVE FALSE
      BY DEF Handled
    <3>1. pc[g] # "idle"
      BY HookFacts DEF HookTrue
    <3> QED BY <1>1, <1>3, <3>1 DEF Calm, LeaseKept
  <2>2. typed[r] \in 0..2
    BY <1>3 DEF TypeOK
  <2> QED BY <2>1, <2>2 DEF Calm, TypedSettles
<1>9. HookOK(h)'
  BY <1>1, <1>2, <1>3, <1>8 DEF HookOK, Concluding, Executing, stores, texts, Status
<1> QED BY <1>1, <1>4, <1>5, <1>6, <1>7, <1>9, CalmHook DEF stores

LEMMA CalmClaims ==
  ASSUME DispatchInv, DispatchInv', Calm, ~mishap', NEW h \in Hooks, WriteClaims(h)
  PROVE  Calm'
<1>1. /\ pc[h] = "claiming" /\ Goto(h, "injecting") /\ WriteList(copy.list) /\ Unlock
      /\ UNCHANGED <<log, engines, req, seen, result, lease, texts, faults>>
  BY DEF WriteClaims, Jump
<1>2. h \in Procs /\ h \notin Calls /\ HookTrue(h) /\ req[h] \in Calls /\ HookOK(h)
  BY <1>1, HookFacts DEF HookTrue, Calm
<1>3. pc'[h] = "injecting" /\ \A q \in Procs \ {h} : pc'[q] = pc[q]
  BY <1>1, <1>2, Went
<1>4. (\A r \in Calls : Status(copy.list, r) = log[r]) /\ ViewStep
  BY <1>1, CalmWrite
<1>5. Holding(h) /\ lock = h /\ ~Holding(h)' /\ ~Concluding(h)'
  BY <1>1, <1>2, <1>3, Idle DEF Holding, Calm, LockKept, Busy, Executing
<1>6. Alone(h) /\ LockStep(h)
  BY <1>1, <1>3, <1>5, ProcFacts DEF Alone, engines, LockStep, Unlock
<1>7. LeaseStep(h) /\ TypeStep(h)
  BY <1>1, <1>2, <1>3, SameLease DEF TypeStep, texts
<1>8. typed[req[h]] = 0 /\ Status(view', req[h]) # "absent" /\ result[h] # "confirmed"
  BY <1>1, <1>2, <1>4 DEF HookOK, ViewStep
<1>9. HookOK(h)'
  BY <1>1, <1>3, <1>5, <1>8 DEF HookOK, Executing, texts, Status
<1> QED BY <1>1, <1>4, <1>6, <1>7, <1>9, CalmHook

(* The one step that types: nobody typed this request before.              *)
LEMMA CalmInject ==
  ASSUME DispatchInv, DispatchInv', Calm, NEW h \in Hooks, Inject(h)
  PROVE  Calm'
<1>1. pc[h] = "injecting" /\ UNCHANGED <<stores, engine, lock, copy, req, seen, lease, sent, faults>>
  BY DEF Inject
<1>2. /\ TypeOK /\ h \in Procs /\ h \notin Calls /\ HookTrue(h) /\ req[h] \in Calls /\ HookOK(h)
      /\ result[h] # "confirmed" /\ typed[req[h]] = 0 /\ Status(view, req[h]) # "absent"
  BY <1>1, HookFacts DEF HookTrue, Calm, HookOK
<1>3. PICK outcome \in {"confirmed", "unconfirmed", "refused"} :
        /\ result' = [result EXCEPT ![h] = outcome]
        /\ IF outcome = "confirmed"
           THEN /\ Exec(h, "deliver", req[h], "injected", "injected")
                /\ typed' = [typed EXCEPT ![req[h]] = IF @ < 2 THEN @ + 1 ELSE @]
           ELSE Goto(h, "injected") /\ UNCHANGED <<cmd, typed>>
  BY DEF Inject
<1>4. result'[h] = outcome /\ \A g \in Hooks \ {h} : result'[g] = result[g]
  BY <1>2, <1>3 DEF TypeOK
<1>5. /\ \A q \in Procs \ {h} : pc'[q] = pc[q] /\ cmd'[q] = cmd[q]
      /\ pc'[h] \in {"loading", "injected"} /\ ~Holding(h)' /\ ~Concluding(h)'
      /\ pc'[h] \in Executing => cmd'[h].fail = cmd'[h].back
  <2>1. CASE outcome = "confirmed"
    <3>1. "injected" \in Points
      BY DEF Points
    <3>2. /\ pc'[h] = "loading" /\ cmd'[h].op = "deliver" /\ cmd'[h].back = "injected"
          /\ cmd'[h].fail = "injected"
          /\ \A q \in Procs \ {h} : pc'[q] = pc[q] /\ cmd'[q] = cmd[q]
      BY <1>2, <1>3, <2>1, <3>1, ExecTyped
    <3> QED BY <3>2 DEF Holding, Concluding, Queuing
  <2>2. CASE outcome # "confirmed"
    <3>1. UNCHANGED cmd /\ pc'[h] = "injected" /\ \A q \in Procs \ {h} : pc'[q] = pc[q]
      BY <1>2, <1>3, <2>2, Went
    <3> QED BY <1>2, <3>1, Idle DEF Busy, Executing
  <2> QED BY <2>1, <2>2
<1>6. Alone(h)
  BY <1>1, <1>4, <1>5 DEF Alone
<1>7. ViewStep /\ LockStep(h)
  <2>1. ~Holding(h)
    BY <1>1, <1>2, Idle DEF Busy, Executing
  <2> QED BY <1>1, <1>5, <2>1 DEF ViewStep, LockStep, stores, Status
<1>8. LeaseStep(h)
  BY <1>1, <1>5, SameLease
<1>9. TypeStep(h)
  <2>1. typed \in [Calls -> 0..2]
    BY <1>2 DEF TypeOK
  <2>2. CASE outcome = "confirmed"
    <3>1. typed'[req[h]] = 1 /\ \A r \in Calls \ {req[h]} : typed'[r] = typed[r]
      BY <1>2, <1>3, <2>1, <2>2
    <3> QED BY <1>1, <1>2, <1>4, <2>2, <3>1 DEF TypeStep
  <2>3. CASE outcome # "confirmed"
    BY <1>2, <1>3, <2>3 DEF TypeStep
  <2> QED BY <2>2, <2>3
<1>10. HookOK(h)'
  <2>1. outcome # "confirmed" => typed'[req[h]] = 0
    BY <1>2, <1>3
  <2> QED BY <1>1, <1>2, <1>4, <1>5, <2>1 DEF HookOK, stores, Status
<1>11. log' = log
  BY <1>1 DEF stores
<1> QED BY <1>6, <1>7, <1>8, <1>9, <1>10, <1>11, CalmHook

LEMMA Forgotten ==
  ASSUME DispatchInv, Calm, NEW h \in Hooks, pc[h] # "idle", pc'[h] = "idle", Forget(h),
         UNCHANGED <<cmd, typed>>, \A q \in Procs \ {h} : pc'[q] = pc[q],
         result[h] = "confirmed" => log'[req[h]] \notin {"absent", "pending"}
  PROVE  Alone(h) /\ LeaseStep(h) /\ TypeStep(h) /\ HookOK(h)'
<1>1. TypeOK /\ h \in Procs /\ NoProc \notin Hooks
  BY HookFacts, ProcFacts
<1>2. Alone(h)
  BY <1>1 DEF Forget, Alone, TypeOK
<1>3. LeaseStep(h)
  BY <1>1 DEF Forget, LeaseStep, Calm, LeaseKept
<1>4. TypeStep(h) /\ HookOK(h)'
  BY DEF TypeStep, HookOK
<1> QED BY <1>2, <1>3, <1>4

LEMMA CalmLeaving ==
  ASSUME DispatchInv, DispatchInv', Calm, ~mishap', NEW h \in Hooks, LeaveSettled(h)
  PROVE  Calm'
<1>1. /\ pc[h] = "injected" /\ Goto(h, "idle") /\ Forget(h)
      /\ UNCHANGED <<stores, engines, lock, copy, seen, texts, faults>>
  BY DEF LeaveSettled, Jump
<1>2. Status(view, req[h]) # "pending"
  BY CalmRead DEF LeaveSettled
<1>3. h \in Procs /\ TypeOK /\ req[h] \in Calls /\ HookOK(h)
  BY <1>1, HookFacts DEF HookTrue, Calm
<1>4. pc'[h] = "idle" /\ \A q \in Procs \ {h} : pc'[q] = pc[q]
  BY <1>1, <1>3, Went
<1>5. log[req[h]] \notin {"absent", "pending"}
  <2>1. Status(view, req[h]) # "absent" /\ Later(Status(view, req[h]), log[req[h]])
    BY <1>1, <1>3 DEF HookOK, Calm, ViewBehind
  <2> QED BY <1>2, <2>1 DEF Later
<1>6. Alone(h) /\ LeaseStep(h) /\ TypeStep(h) /\ HookOK(h)'
  BY <1>1, <1>4, <1>5, Forgotten DEF engines, stores, texts
<1>7. ~Holding(h) /\ ~Holding(h)'
  BY <1>1, <1>3, <1>4, Idle DEF Busy, Executing
<1>8. ViewStep /\ LockStep(h) /\ log' = log
  BY <1>1, <1>7 DEF ViewStep, LockStep, stores, Status
<1> QED BY <1>6, <1>8, CalmHook

LEMMA CalmFinalize ==
  ASSUME DispatchInv, DispatchInv', Calm, ~mishap', NEW h \in Hooks, Finalize(h)
  PROVE  Calm'
<1>1. pc[h] = "injected" /\ UNCHANGED <<stores, engine, req, seen, result, lease, texts, faults>>
  BY DEF Finalize
<1>2. /\ TypeOK /\ h \in Procs /\ h \notin Calls /\ req[h] \in Calls /\ HookOK(h)
      /\ result[h] # "confirmed" => typed[req[h]] = 0
      /\ view \in Lists
  BY <1>1, HookFacts DEF HookTrue, Calm, HookOK, TypeOK
<1> DEFINE next == Attempted(view, req[h], result[h])
<1>3. /\ Status(view, req[h]) = "pending"
      /\ lock = NoProc /\ lock' = h /\ copy'.list = next
      /\ \/ Goto(h, "concluding") /\ UNCHANGED cmd
         \/ \E op \in {"notify", "fail"} : Exec(h, op, req[h], "concluding", "concluding")
  <2>1. PICK list \in {view, legacy} :
          /\ Status(list, req[h]) = "pending"
          /\ LET new == Attempted(list, req[h], result[h]) IN
             /\ HookReads(h, list, new)
             /\ CASE Status(new, req[h]) = "pending" -> Goto(h, "concluding") /\ UNCHANGED cmd
                  [] Status(new, req[h]) = "notified" ->
                       Exec(h, "notify", req[h], "concluding", "concluding")
                  [] OTHER -> Exec(h, "fail", req[h], "concluding", "concluding")
    BY DEF Finalize
  <2>2. /\ Read(list) /\ lock = NoProc /\ lock' = h
        /\ copy'.list = Attempted(list, req[h], result[h])
    BY <2>1 DEF HookReads, Read, TakeLock
  <2>3. list = view
    BY <2>2, CalmRead
  <2> QED BY <2>1, <2>2, <2>3
<1>4. result[h] = "confirmed" => Status(next, req[h]) = "notified"
  BY <1>2 DEF Attempted, Lists, Status
<1> HIDE DEF next
<1>5. /\ \A q \in Procs \ {h} : pc'[q] = pc[q] /\ cmd'[q] = cmd[q]
      /\ pc'[h] \in {"loading", "concluding"} /\ Holding(h)'
      /\ pc'[h] \in Executing => cmd'[h].fail = cmd'[h].back
  <2>1. CASE Goto(h, "concluding") /\ UNCHANGED cmd
    BY <1>2, <2>1, Went DEF Holding, Concluding, Executing
  <2>2. CASE \E op \in {"notify", "fail"} : Exec(h, op, req[h], "concluding", "concluding")
    <3>1. "concluding" \in Points
      BY DEF Points
    <3>2. /\ pc'[h] = "loading" /\ cmd'[h].back = "concluding" /\ cmd'[h].fail = "concluding"
          /\ \A q \in Procs \ {h} : pc'[q] = pc[q] /\ cmd'[q] = cmd[q]
      BY <1>2, <2>2, <3>1, ExecTyped
    <3> QED BY <3>2 DEF Holding, Concluding, Executing
  <2> QED BY <1>3, <2>1, <2>2
<1>6. Alone(h)
  BY <1>1, <1>5, ProcFacts DEF Alone
<1>7. ViewStep /\ LockStep(h) /\ log' = log
  BY <1>1, <1>3, <1>5 DEF ViewStep, LockStep, stores, Status
<1>8. LeaseStep(h) /\ TypeStep(h)
  BY <1>1, <1>2, <1>5, SameLease DEF TypeStep, texts
<1>9. HookOK(h)'
  BY <1>1, <1>2, <1>3, <1>4, <1>5 DEF HookOK, stores, texts, Status
<1> QED BY <1>6, <1>7, <1>8, <1>9, CalmHook

LEMMA CalmConclude ==
  ASSUME DispatchInv, DispatchInv', Calm, ~mishap', NEW h \in Hooks, Conclude(h)
  PROVE  Calm'
<1>1. /\ pc[h] = "concluding" /\ Goto(h, "idle") /\ WriteList(copy.list) /\ Unlock /\ Forget(h)
      /\ UNCHANGED <<log, engines, seen, texts, faults>>
  BY DEF Conclude, Jump
<1>2. h \in Procs /\ TypeOK /\ req[h] \in Calls /\ HookOK(h)
  BY <1>1, HookFacts DEF HookTrue, Calm
<1>3. pc'[h] = "idle" /\ \A q \in Procs \ {h} : pc'[q] = pc[q]
  BY <1>1, <1>2, Went
<1>4. (\A r \in Calls : Status(copy.list, r) = log[r]) /\ ViewStep
  BY <1>1, CalmWrite
<1>5. result[h] = "confirmed" => log'[req[h]] \notin {"absent", "pending"}
  BY <1>1, <1>2, <1>4 DEF HookOK, Concluding
<1>6. Alone(h) /\ LeaseStep(h) /\ TypeStep(h) /\ HookOK(h)'
  BY <1>1, <1>3, <1>5, Forgotten DEF engines, texts
<1>7. Holding(h) /\ lock = h /\ ~Holding(h)'
  BY <1>1, <1>2, <1>3, Idle DEF Holding, Concluding, Calm, LockKept, Busy, Executing
<1>8. LockStep(h)
  BY <1>1, <1>7 DEF LockStep, Unlock
<1> QED BY <1>1, <1>4, <1>6, <1>8, CalmHook

-----------------------------------------------------------------------------
(* Nothing is left behind where nothing was killed.                        *)
LEMMA MishapStays ==
  ASSUME [Next]_vars, mishap
  PROVE  mishap'
<1>1. ASSUME NEW p \in Procs, Engine(p) \/ Kill(p) PROVE mishap'
  BY <1>1 DEF Engine, Kill, ExecFails, Load, Refuse, Persist, Regenerate, Note
<1>2. ASSUME NEW c \in Calls, Call(c) PROVE mishap'
  BY <1>2 DEF Call, Dedupe, Enqueue, ReadBack, QueueInList, Receipt, TypeDirectly, TypingFails,
       MarkNotified, NotifyInList, ReadBeforeFailing, FailInList, WriteTransition,
       Read, ReadWhole, ReadTorn, WriteList, Note
<1>3. ASSUME NEW h \in Hooks, Hook(h) \/ \E r \in Calls : Claim(h, r) PROVE mishap'
  BY <1>3 DEF Hook, WriteClaims, Inject, LeaveSettled, Finalize, Conclude, Claim,
       HookReads, Read, ReadWhole, ReadTorn, WriteList, Note
<1>4. RecoverLock \/ (\E r \in Calls : RecoverLease(r)) \/ Finished \/ UNCHANGED vars => mishap'
  BY DEF RecoverLock, RecoverLease, Finished, vars
<1> QED BY <1>1, <1>2, <1>3, <1>4 DEF Next

LEMMA CalmStep ==
  ASSUME DispatchInv, DispatchInv', CalmInv, [Next]_vars
  PROVE  CalmInv'
<1> SUFFICES ASSUME ~mishap' PROVE Calm'
  BY DEF CalmInv
<1>1. Calm
  BY MishapStays DEF CalmInv
<1>2. ASSUME NEW p \in Procs, Engine(p) PROVE Calm'
  BY <1>1, <1>2, CalmEngine
<1>3. ASSUME NEW p \in Procs, Kill(p) PROVE FALSE
  BY <1>3 DEF Kill
<1>4. ASSUME NEW c \in Calls, Call(c) PROVE Calm'
  BY <1>1, <1>4, CalmCalls
<1>5. ASSUME NEW h \in Hooks, Hook(h) PROVE Calm'
  BY <1>1, <1>5, CalmClaims, CalmInject, CalmLeaving, CalmFinalize, CalmConclude DEF Hook
<1>6. ASSUME NEW h \in Hooks, NEW r \in Calls, Claim(h, r) PROVE Calm'
  BY <1>1, <1>6, CalmClaim
<1>7. ASSUME RecoverLock PROVE FALSE
  <2>1. lock \in Procs /\ pc[lock] \in {"idle", "dead"}
    BY <1>7 DEF RecoverLock, DispatchInv, TypeOK
  <2>2. Holding(lock)
    BY <1>1, <2>1 DEF Calm, LockKept
  <2> QED BY <2>1, <2>2, Idle DEF Busy, Executing
<1>8. ASSUME NEW r \in Calls, RecoverLease(r) PROVE FALSE
  <2>1. lease[r] \in Hooks /\ req[lease[r]] # r
    BY <1>8 DEF RecoverLease, DispatchInv, TypeOK
  <2> QED BY <1>1, <2>1 DEF Calm, LeaseKept
<1>9. CASE Finished \/ UNCHANGED vars
  <2>1. UNCHANGED vars
    BY <1>9 DEF Finished
  <2> QED BY <1>1, <2>1
          DEF vars, Calm, LockKept, LeaseKept, ViewBehind, TypedSettles, OnePending, QueueOK,
              HookOK, Handled, Holding, Queuing, Concluding, Status
<1> QED BY <1>2, <1>3, <1>4, <1>5, <1>6, <1>7, <1>8, <1>9 DEF Next

LEMMA CalmInit == Init => CalmInv
<1> SUFFICES ASSUME Init PROVE Calm
  BY DEF CalmInv
<1>1. \A p \in Procs : pc[p] = "idle" /\ p # NoProc
  BY ProcFacts DEF Init
<1>2. \A p \in Procs : ~Holding(p) /\ ~Queuing(p)
  BY <1>1 DEF Holding, Queuing, Concluding, Executing
<1>3. LockKept /\ LeaseKept
  BY <1>1, <1>2, ProcFacts DEF Init, LockKept, LeaseKept
<1>4. ViewBehind /\ TypedSettles /\ OnePending
  BY DEF Init, ViewBehind, TypedSettles, OnePending, Later, ListOf, EmptyLog, Status
<1>5. (\A c \in Calls : QueueOK(c)) /\ \A h \in Hooks : HookOK(h)
  BY <1>1, <1>2, ProcFacts DEF Init, QueueOK, HookOK, EmptyLog
<1> QED BY <1>3, <1>4, <1>5 DEF Calm

LEMMA CalmInvariant == Spec => [](DispatchInv /\ CalmInv)
<1>1. Init => DispatchInv /\ CalmInv
  BY DispatchInit, CalmInit
<1>2. DispatchInv /\ CalmInv /\ [Next]_vars => (DispatchInv /\ CalmInv)'
  BY DispatchStep, CalmStep
<1> QED BY <1>1, <1>2, PTL DEF Spec

(* No two pending requests stand for the same instruction in the engine's  *)
(* log (queueInboxInstruction's deduplication), until a mishap.            *)
THEOREM OneRequestPerKey == Spec => []OnePendingPerKey
<1>1. CalmInv => OnePendingPerKey
  BY DEF CalmInv, Calm, OnePending, OnePendingPerKey
<1> QED BY <1>1, CalmInvariant, PTL

(* A hook never types an instruction that a hook has typed before          *)
(* (drainPendingTeamDispatch), until a mishap.                             *)
THEOREM NothingTypedTwice == Spec => []TypedOnce
<1>1. ASSUME DispatchInv, CalmInv PROVE TypedOnce
  <2> SUFFICES ASSUME ~mishap, NEW r \in Calls PROVE typed[r] <= 1
    BY DEF TypedOnce
  <2>1. typed[r] \in 0..2 /\ (typed[r] > 0 => typed[r] = 1)
    BY <1>1 DEF DispatchInv, TypeOK, CalmInv, Calm, TypedSettles
  <2> QED BY <2>1
<1> QED BY <1>1, CalmInvariant, PTL

(* Who changes dispatch.json.                                              *)
LEMMA ViewChanges ==
  ASSUME DispatchInv, [Next]_vars
  PROVE  \/ view' = view
         \/ mishap' \/ view' = ListOf(log)
         \/ log' = log /\ \E list : WriteList(list)
<1>1. ASSUME NEW p \in Procs, Engine(p) \/ Kill(p)
      PROVE  view' = view \/ mishap' \/ view' = ListOf(log)
  <2>1. CASE Load(p) \/ Refuse(p) \/ Persist(p)
    BY <2>1 DEF Load, Refuse, Persist, stores
  <2>2. CASE Regenerate(p)
    BY <2>2 DEF Regenerate, RewriteView, Note
  <2>3. CASE ExecFails(p)
    <3>1. Interrupted(p) /\ (mishap' \/ view' = view \/ engine[p] = log)
      BY <2>3 DEF ExecFails, Note
    <3> QED BY <3>1 DEF Interrupted, LoseLog, CutView, RewriteView, stores
  <2>4. CASE Kill(p)
    BY <2>4 DEF Kill
  <2> QED BY <1>1, <2>1, <2>2, <2>3, <2>4 DEF Engine
<1>2. ASSUME NEW c \in Calls, Call(c)
      PROVE  view' = view \/ (log' = log /\ \E list : WriteList(list))
  BY <1>2 DEF Call, Dedupe, Enqueue, ReadBack, QueueInList, Receipt, TypeDirectly, TypingFails,
       MarkNotified, NotifyInList, ReadBeforeFailing, FailInList, WriteTransition, stores
<1>3. ASSUME NEW h \in Hooks, Hook(h) \/ \E r \in Calls : Claim(h, r)
      PROVE  view' = view \/ (log' = log /\ \E list : WriteList(list))
  BY <1>3 DEF Hook, WriteClaims, Inject, LeaveSettled, Finalize, Conclude, Claim, stores
<1>4. RecoverLock \/ (\E r \in Calls : RecoverLease(r)) \/ Finished \/ UNCHANGED vars => view' = view
  BY DEF RecoverLock, RecoverLease, Finished, vars, stores
<1> QED BY <1>1, <1>2, <1>3, <1>4 DEF Next

LEMMA FailedStep ==
  ASSUME DispatchInv, CalmInv, [Next]_vars, ~mishap'
  PROVE  FailedStays
<1> SUFFICES ASSUME NEW r \in Calls, Status(view, r) = "failed"
             PROVE  Status(view', r) = "failed"
  BY DEF FailedStays
<1>1. Calm
  BY MishapStays DEF CalmInv
<1>2. log[r] = "failed"
  BY <1>1 DEF Calm, ViewBehind, Later
<1>3. CASE view' = view
  BY <1>3
<1>4. CASE view' = ListOf(log)
  BY <1>2, <1>4 DEF ListOf, Status
<1>5. ASSUME NEW list, WriteList(list), log' = log PROVE Status(view', r) = "failed"
  <2>1. ViewStep
    BY <1>5, CalmWrite
  <2> QED BY <1>2, <1>5, <2>1 DEF ViewStep
<1> QED BY <1>3, <1>4, <1>5, ViewChanges

(* dispatch.json takes back no failure ("`failed` is a terminal state",    *)
(* transitionDispatchRequest), until a mishap.                             *)
THEOREM FailureIsFinal == Spec => FailedUnlessMishap
<1>1. DispatchInv /\ CalmInv /\ [Next]_vars => [FailedStays \/ mishap']_<<view, mishap>>
  BY FailedStep
<1> QED BY <1>1, CalmInvariant, PTL DEF Spec, FailedUnlessMishap
=============================================================================
