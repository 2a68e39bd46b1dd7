------------------------------ MODULE Dispatch ------------------------------
(***************************************************************************)
(* How an instruction reaches a worker: dispatchCriticalInboxInstruction   *)
(* queues a request and waits for the hook to type it into the worker's    *)
(* pane, and falls back to typing it directly; drainPendingTeamDispatch,   *)
(* run by a hook, claims pending requests and types them; every change of  *)
(* status is a command to the Rust engine or an edit of the JSON list.     *)
(*                                                                         *)
(* The team's dispatch lock is held by one process at a time (Mutex).      *)
(* The engine's load and persist have no lock in common, and its commands  *)
(* are also sent by processes that do not hold the dispatch lock. It       *)
(* rewrites its files in place: when it is killed, they may be cut off.    *)
(***************************************************************************)
EXTENDS RequestStore, FiniteSets

CONSTANTS
  Hooks,       \* runs of the notify hook
  NoProc,      \* nobody
  Direct,      \* calls with transport_direct or prompt_stdin
  MaxFaults    \* bound: killed processes and failures of the binary

Procs == Calls \cup Hooks

ASSUME DispatchAssumption ==
  /\ Calls \cap Hooks = {}
  /\ NoProc \notin Procs
  /\ Direct \subseteq Calls
  /\ MaxFaults \in Nat

VARIABLES
  pc,
  log,      \* events.json
  view,     \* dispatch.json
  legacy,   \* requests.json
  cut,      \* dispatch.json was left cut off and cannot be parsed
  engine,   \* engine[p]: the log as the engine p runs has it
  cmd,      \* cmd[p]: the command p runs, and where it goes on
  lock,     \* the dispatch lock
  copy,     \* the list the lock's holder has read, with its changes, and
            \* whether it will write both files
  req,      \* req[p]: the request a call waits for or a hook has claimed
  seen,     \* seen[c]: the status call c last read
  result,   \* result[h]: what became of the hook's injection
  lease,    \* lease[r]: the hook that may type r
  typed,    \* typed[r]: confirmed injections of r by hooks, counted up to 2
  sent,     \* requests whose text was typed by a call
  faults,
  mishap    \* something happened that the stores do not survive

vars == <<pc, log, view, legacy, cut, engine, cmd, lock, copy, req, seen, result,
          lease, typed, sent, faults, mishap>>
stores == <<log, view, legacy, cut>>
texts == <<typed, sent>>
engines == <<engine, cmd>>

NoCmd == [op |-> "none"]
NoReq == NoProc

Goto(p, to) == pc' = [pc EXCEPT ![p] = to]
Jump(p, from, to) == pc[p] = from /\ Goto(p, to)
Note(happened) == mishap' = (mishap \/ happened)

Status(list, r) == list[r].status

(* fs::write truncates before it writes. Whoever reads dispatch.json       *)
(* between the two, or after an engine was killed there, cannot parse it   *)
(* and takes requests.json instead.                                        *)
Torn == cut \/ \E p \in Procs : pc[p] = "regenerating"

ReadTorn(list) == Torn /\ list = legacy /\ Note(legacy # view)
ReadWhole(list) == ~cut /\ list = view /\ UNCHANGED mishap
Read(list) == ReadWhole(list) \/ ReadTorn(list)

NoCopy == [list |-> ListOf(EmptyLog), both |-> TRUE]

(* writeDispatchRequests and its twin in the hook write both files, but a  *)
(* hook that had to read requests.json writes no other. They are renamed   *)
(* into place, which also replaces a file that was cut off.                *)
WriteList(list) ==
  /\ legacy' = list
  /\ view' = IF copy.both THEN list ELSE view
  /\ cut' = (cut /\ ~copy.both)
  /\ Note(\E r \in Calls : Status(list, r) # log[r])

-----------------------------------------------------------------------------
Init ==
  /\ pc = [p \in Procs |-> "idle"]
  /\ log = EmptyLog
  /\ view = ListOf(EmptyLog)
  /\ legacy = ListOf(EmptyLog)
  /\ cut = FALSE
  /\ engine = [p \in Procs |-> EmptyLog]
  /\ cmd = [p \in Procs |-> NoCmd]
  /\ lock = NoProc
  /\ copy = NoCopy
  /\ req = [p \in Procs |-> NoReq]
  /\ seen = [c \in Calls |-> "absent"]
  /\ result = [h \in Hooks |-> "none"]
  /\ lease = [r \in Calls |-> NoProc]
  /\ typed = [r \in Calls |-> 0]
  /\ sent = {}
  /\ faults = 0
  /\ mishap = FALSE

-----------------------------------------------------------------------------
(* omx-runtime exec: load, process and persist, regenerate the views.      *)
Exec(p, op, r, back, fail) ==
  /\ Goto(p, "loading")
  /\ cmd' = [cmd EXCEPT ![p] =
       [op |-> op, req |-> r, back |-> back, fail |-> fail]]

EndExec(p, to) ==
  /\ Goto(p, to)
  /\ cmd' = [cmd EXCEPT ![p] = NoCmd]
  /\ engine' = [engine EXCEPT ![p] = EmptyLog]

(* persist is cut off: whoever loads an events.json that cannot be parsed  *)
(* starts with a new engine, so for every reader the log is empty.         *)
LoseLog(p) ==
  /\ pc[p] = "loaded"
  /\ Accepts(engine[p], cmd[p])
  /\ log' = EmptyLog
  /\ UNCHANGED <<view, legacy, cut>>

(* write_compatibility_view is cut off, within dispatch.json.              *)
CutView(p) ==
  /\ pc[p] = "regenerating"
  /\ cut' = TRUE
  /\ UNCHANGED <<log, view, legacy>>

RewriteView(p) ==
  /\ pc[p] = "regenerating"
  /\ view' = ListOf(engine[p])
  /\ cut' = FALSE
  /\ UNCHANGED <<log, legacy>>

(* What the engine of p leaves when it is killed at an arbitrary point.    *)
Interrupted(p) ==
  UNCHANGED stores \/ LoseLog(p) \/ CutView(p) \/ RewriteView(p)

(* The binary is missing, or is killed by its time limit at any point.     *)
ExecFails(p) ==
  /\ pc[p] \in {"loading", "loaded", "regenerating"}
  /\ faults < MaxFaults
  /\ faults' = faults + 1
  /\ Interrupted(p)
  /\ Note(log' # log \/ cut' \/ (view' # view /\ engine[p] # log))
  /\ EndExec(p, cmd[p].fail)
  /\ UNCHANGED <<lock, copy, req, seen, result, lease, texts>>

Load(p) ==
  /\ Jump(p, "loading", "loaded")
  /\ engine' = [engine EXCEPT ![p] = log]
  /\ UNCHANGED <<stores, cmd, lock, copy, req, seen, result, lease, texts, faults, mishap>>

(* process() refuses the command: exit code 1, nothing persisted.          *)
Refuse(p) ==
  /\ pc[p] = "loaded"
  /\ ~Accepts(engine[p], cmd[p])
  /\ EndExec(p, cmd[p].fail)
  /\ UNCHANGED <<stores, lock, copy, req, seen, result, lease, texts, faults, mishap>>

Persist(p) ==
  /\ Jump(p, "loaded", "regenerating")
  /\ Accepts(engine[p], cmd[p])
  /\ log' = Processed(engine[p], cmd[p])
  /\ engine' = [engine EXCEPT ![p] = log']
  /\ Note(engine[p] # log)
  /\ UNCHANGED <<view, legacy, cut, cmd, lock, copy, req, seen, result, lease, texts, faults>>

Regenerate(p) ==
  /\ RewriteView(p)
  /\ Note(engine[p] # log)
  /\ EndExec(p, cmd[p].back)
  /\ UNCHANGED <<lock, copy, req, seen, result, lease, texts, faults>>

Engine(p) == ExecFails(p) \/ Load(p) \/ Refuse(p) \/ Persist(p) \/ Regenerate(p)

-----------------------------------------------------------------------------
(* A process that holds the lock works on the list it has read, writes it  *)
(* and lets go.                                                            *)
TakeLock(p, list, both) ==
  /\ lock = NoProc
  /\ lock' = p
  /\ copy' = [list |-> list, both |-> both]
Unlock == lock' = NoProc /\ copy' = NoCopy

(* A call: queueInboxInstruction, then the wait for the receipt.           *)

AfterQueue(c) == IF c \in Direct THEN "falling" ELSE "waiting"

(* An equivalent request is pending. A call with direct transport ends     *)
(* there; a hook-preferred one waits for the other's receipt.              *)
Dedupe(c) ==
  /\ lock = NoProc
  /\ \E list \in {view, legacy} :
       /\ Read(list)
       /\ \E r \in Equivalent(list, c) : req' = [req EXCEPT ![c] = r]
  /\ Jump(c, "idle", IF c \in Direct THEN "notok" ELSE "waiting")
  /\ UNCHANGED <<stores, engines, lock, copy, seen, result, lease, texts, faults>>

Enqueue(c) ==
  /\ pc[c] = "idle"
  /\ \E list \in {view, legacy} :
       /\ Read(list)
       /\ Equivalent(list, c) = {}
       /\ TakeLock(c, list, TRUE)
  /\ req' = [req EXCEPT ![c] = c]
  /\ Exec(c, "queue", c, "queued", "unqueued")
  /\ UNCHANGED <<stores, engine, seen, result, lease, texts, faults>>

(* The engine has it: the request is read back.                            *)
ReadBack(c) ==
  /\ pc[c] = "queued"
  /\ \E list \in {view, legacy} :
       /\ Read(list)
       /\ IF Status(list, c) # "absent"
          THEN Goto(c, AfterQueue(c)) /\ Unlock
          ELSE Goto(c, "unqueued") /\ UNCHANGED <<lock, copy>>
  /\ UNCHANGED <<stores, engines, req, seen, result, lease, texts, faults>>

(* The engine failed, or the request is not there: it is added to the list *)
(* that was read before.                                                   *)
QueueInList(c) ==
  /\ Jump(c, "unqueued", AfterQueue(c))
  /\ WriteList(WithPending(copy.list, c))
  /\ Unlock
  /\ UNCHANGED <<log, engines, req, seen, result, lease, texts, faults>>

(* Fault: no deadline.                                                     *)
ReceiptNoDeadline(c) ==
  /\ pc[c] = "waiting"
  /\ \E list \in {view, legacy} :
       /\ Read(list)
       /\ CASE Status(list, req[c]) \in {"notified", "delivered"} -> Goto(c, "ok")
            [] Status(list, req[c]) = "failed" -> Goto(c, "rescuing")
            [] OTHER -> Goto(c, "waiting")
  /\ UNCHANGED <<stores, engines, lock, copy, req, seen, result, lease, texts, faults>>

(* waitForDispatchReceipt: a settled status, or the deadline.              *)
Receipt(c) ==
  /\ pc[c] = "waiting"
  /\ \E list \in {view, legacy} :
       /\ Read(list)
       /\ LET status == Status(list, req[c]) IN
          \/ status = "delivered" /\ Goto(c, "ok")
          \/ status = "notified" /\ Goto(c, "ok")
          \/ status = "notified" /\ Goto(c, "falling") \* no startup evidence
          \/ status = "failed" /\ Goto(c, "rescuing")
          \/ status \in {"pending", "absent"} /\ Goto(c, "falling")
  /\ UNCHANGED <<stores, engines, lock, copy, req, seen, result, lease, texts, faults>>

(* notifyWorkerOutcome types the text. It may fail, or leave no evidence   *)
(* of a started worker where that is required, which counts as failing.    *)
TypeDirectly(c) ==
  /\ \/ Jump(c, "falling", "marking") \/ Jump(c, "rescuing", "patching")
  /\ sent' = sent \cup {c}
  /\ UNCHANGED <<stores, engines, lock, copy, req, seen, result, lease, typed, faults, mishap>>

(* Fault: the outcome of the notifier is not looked at.                    *)
TypingFailsUnseen(c) ==
  /\ \/ Jump(c, "falling", "marking") \/ Jump(c, "rescuing", "patching")
  /\ UNCHANGED <<stores, engines, lock, copy, req, seen, result, lease, texts, faults, mishap>>

TypingFails(c) ==
  /\ \/ Jump(c, "falling", "failing") /\ UNCHANGED seen
     \/ Jump(c, "rescuing", "failinglist") /\ seen' = [seen EXCEPT ![c] = "failed"]
  /\ UNCHANGED <<stores, engines, lock, copy, req, result, lease, texts, faults, mishap>>

(* markDispatchRequestNotified: reads without the lock, and asks the       *)
(* engine. A failed or lost request is not marked.                         *)
MarkNotified(c) ==
  /\ pc[c] = "marking"
  /\ \E list \in {view, legacy} :
       /\ Read(list)
       /\ CASE Status(list, req[c]) = "pending" ->
                 Exec(c, "notify", req[c], "ok", "listing")
            [] Status(list, req[c]) \in {"notified", "delivered"} ->
                 Goto(c, "ok") /\ UNCHANGED cmd
            [] OTHER -> Goto(c, IF c \in Direct THEN "ok" ELSE "patching") /\ UNCHANGED cmd
  /\ UNCHANGED <<stores, engine, lock, copy, req, seen, result, lease, texts, faults>>

(* The engine refused or is gone: transitionDispatchRequest instead.       *)
NotifyInList(c) ==
  /\ pc[c] = "listing"
  /\ \E list \in {view, legacy} :
       /\ Read(list)
       /\ IF Transitions(list, req[c], "pending", "notified")
          THEN TakeLock(c, Moved(list, req[c], "notified"), TRUE) /\ Goto(c, "writing")
          ELSE /\ lock = NoProc
               /\ Goto(c, IF c \in Direct THEN "ok" ELSE "patching")
               /\ UNCHANGED <<lock, copy>>
  /\ UNCHANGED <<stores, engines, req, seen, result, lease, texts, faults>>

(* The text was typed although the request had failed, or was not typed:   *)
(* the status is read, and the request put to failed unless it is already. *)
Verdict(c) == IF c \in sent THEN "ok" ELSE "notok"

ReadBeforeFailing(c) ==
  /\ pc[c] \in {"failing", "patching"}
  /\ \E list \in {view, legacy} :
       /\ Read(list)
       /\ LET status == Status(list, req[c])
              settled == IF pc[c] = "patching" THEN {"absent"}
                         ELSE IF c \in Direct THEN Statuses \ {"pending"}
                         ELSE {"absent", "failed"}
          IN IF status \in settled
             THEN Goto(c, Verdict(c)) /\ UNCHANGED seen
             ELSE Goto(c, "failinglist") /\ seen' = [seen EXCEPT ![c] = status]
  /\ UNCHANGED <<stores, engines, lock, copy, req, result, lease, texts, faults>>

FailInList(c) ==
  /\ pc[c] = "failinglist"
  /\ \E list \in {view, legacy} :
       /\ Read(list)
       /\ IF Transitions(list, req[c], seen[c], "failed")
          THEN TakeLock(c, Moved(list, req[c], "failed"), TRUE) /\ Goto(c, "writing")
          ELSE lock = NoProc /\ Goto(c, Verdict(c)) /\ UNCHANGED <<lock, copy>>
  /\ seen' = [seen EXCEPT ![c] = "absent"]
  /\ UNCHANGED <<stores, engines, req, result, lease, texts, faults>>

WriteTransition(c) ==
  /\ Jump(c, "writing", Verdict(c))
  /\ WriteList(copy.list)
  /\ Unlock
  /\ UNCHANGED <<log, engines, req, seen, result, lease, texts, faults>>

Call(c) ==
  \/ Dedupe(c) \/ Enqueue(c) \/ ReadBack(c) \/ QueueInList(c) \/ Receipt(c)
  \/ TypeDirectly(c) \/ TypingFails(c) \/ MarkNotified(c) \/ NotifyInList(c)
  \/ ReadBeforeFailing(c) \/ FailInList(c) \/ WriteTransition(c)

-----------------------------------------------------------------------------
(* A hook: drainPendingTeamDispatch. It takes up to five requests at a     *)
(* time and then handles them one after the other, as so many hooks with   *)
(* one request each.                                                       *)

(* The hook takes the lock, reads list and will write next.                *)
HookReads(h, list, next) ==
  \/ ReadWhole(list) /\ TakeLock(h, next, TRUE)
  \/ ReadTorn(list) /\ TakeLock(h, next, FALSE)

(* A pending request whose lease nobody has. It may also be passed over    *)
(* for a cooldown. Noting the cooldowns makes the hook write the list back.*)
Claim(h, r) ==
  /\ Jump(h, "idle", "claiming")
  /\ lease[r] = NoProc
  /\ r \notin Direct
  /\ \E list \in {view, legacy} :
       /\ HookReads(h, list, list)
       /\ Status(list, r) = "pending"
  /\ lease' = [lease EXCEPT ![r] = h]
  /\ req' = [req EXCEPT ![h] = r]
  /\ UNCHANGED <<stores, engines, seen, result, texts, faults>>

WriteClaims(h) ==
  /\ Jump(h, "claiming", "injecting")
  /\ WriteList(copy.list)
  /\ Unlock
  /\ UNCHANGED <<log, engines, req, seen, result, lease, texts, faults>>

(* injectDispatchRequest, without any lock. A confirmed injection asks the *)
(* engine to mark the request delivered, whatever comes of that.           *)
Inject(h) ==
  /\ pc[h] = "injecting"
  /\ \E outcome \in {"confirmed", "unconfirmed", "refused"} :
       /\ result' = [result EXCEPT ![h] = outcome]
       /\ IF outcome = "confirmed"
          THEN /\ Exec(h, "deliver", req[h], "injected", "injected")
               /\ typed' = [typed EXCEPT ![req[h]] = IF @ < 2 THEN @ + 1 ELSE @]
          ELSE Goto(h, "injected") /\ UNCHANGED <<cmd, typed>>
  /\ UNCHANGED <<stores, engine, lock, copy, req, seen, lease, sent, faults, mishap>>

Forget(h) ==
  /\ lease' = [r \in Calls |-> IF lease[r] = h /\ r = req[h] THEN NoProc ELSE lease[r]]
  /\ req' = [req EXCEPT ![h] = NoReq]
  /\ result' = [result EXCEPT ![h] = "none"]

(* finalizeClaimedDispatchRequest: under the lock, read again; a request   *)
(* that is not pending any more is left alone.                             *)
LeaveSettled(h) ==
  /\ lock = NoProc
  /\ Jump(h, "injected", "idle")
  /\ \E list \in {view, legacy} : Read(list) /\ Status(list, req[h]) # "pending"
  /\ Forget(h)
  /\ UNCHANGED <<stores, engines, lock, copy, seen, texts, faults>>

(* Otherwise the attempt is counted, and a settled status is also sent to  *)
(* the engine, whatever comes of that.                                     *)
Finalize(h) ==
  /\ pc[h] = "injected"
  /\ \E list \in {view, legacy} :
       /\ Status(list, req[h]) = "pending"
       /\ LET next == Attempted(list, req[h], result[h]) IN
          /\ HookReads(h, list, next)
          /\ CASE Status(next, req[h]) = "pending" -> Goto(h, "concluding") /\ UNCHANGED cmd
               [] Status(next, req[h]) = "notified" ->
                    Exec(h, "notify", req[h], "concluding", "concluding")
               [] OTHER -> Exec(h, "fail", req[h], "concluding", "concluding")
  /\ UNCHANGED <<stores, engine, req, seen, result, lease, texts, faults>>

(* Fault: the list is not written, since the engine was asked.             *)
ConcludeUnwritten(h) ==
  /\ Jump(h, "concluding", "idle")
  /\ Unlock
  /\ Forget(h)
  /\ UNCHANGED <<stores, engines, seen, texts, faults, mishap>>

Conclude(h) ==
  /\ Jump(h, "concluding", "idle")
  /\ WriteList(copy.list)
  /\ Unlock
  /\ Forget(h)
  /\ UNCHANGED <<log, engines, seen, texts, faults>>

Hook(h) ==
  \/ WriteClaims(h) \/ Inject(h) \/ LeaveSettled(h) \/ Finalize(h) \/ Conclude(h)

-----------------------------------------------------------------------------
Done == {"ok", "notok", "dead"}

(* A call or a hook is killed between two steps, and its engine with it.   *)
(* The hook runs again.                                                    *)
Kill(p) ==
  /\ pc[p] \notin Done \cup {"idle"}
  /\ faults < MaxFaults
  /\ faults' = faults + 1
  /\ EndExec(p, IF p \in Hooks THEN "idle" ELSE "dead")
  /\ IF p \in Hooks
     THEN req' = [req EXCEPT ![p] = NoReq] /\ result' = [result EXCEPT ![p] = "none"]
     ELSE UNCHANGED <<req, result>>
  /\ Interrupted(p)
  /\ mishap' = TRUE
  /\ UNCHANGED <<lock, copy, seen, lease, texts>>

(* The lock of a killed process and the lease of a killed hook grow stale. *)
RecoverLock ==
  /\ lock # NoProc
  /\ pc[lock] \in {"idle", "dead"}
  /\ Unlock
  /\ UNCHANGED <<pc, stores, engines, req, seen, result, lease, texts, faults, mishap>>

RecoverLease(r) ==
  /\ lease[r] # NoProc
  /\ req[lease[r]] # r
  /\ lease' = [lease EXCEPT ![r] = NoProc]
  /\ UNCHANGED <<pc, stores, engines, lock, copy, req, seen, result, texts, faults, mishap>>

Finished ==
  /\ \A c \in Calls : pc[c] \in Done
  /\ \A h \in Hooks : pc[h] = "idle"
  /\ UNCHANGED vars

Next ==
  \/ \E p \in Procs : Engine(p) \/ Kill(p)
  \/ \E c \in Calls : Call(c)
  \/ \E h \in Hooks : Hook(h) \/ (\E r \in Calls : Claim(h, r))
  \/ RecoverLock
  \/ \E r \in Calls : RecoverLease(r)
  \/ Finished

Spec == Init /\ [][Next]_vars

(* Whoever is not killed goes on. The hook comes back to every pending      *)
(* request, since cooldowns end; what is left behind grows stale.          *)
Fairness ==
  /\ \A c \in Calls : WF_vars((Engine(c) \/ Call(c)) /\ pc[c] # "idle")
  /\ \A h \in Hooks : WF_vars(Engine(h) \/ Hook(h) \/ \E r \in Calls : Claim(h, r))
  /\ WF_vars(RecoverLock \/ \E r \in Calls : RecoverLease(r))

FairSpec == Spec /\ Fairness

-----------------------------------------------------------------------------
Points ==
  {"idle", "loading", "loaded", "regenerating", "queued", "unqueued", "waiting",
   "falling", "rescuing", "marking", "listing", "failing", "patching",
   "failinglist", "writing", "claiming", "injecting", "injected", "concluding"}
  \cup Done

CommandOK(c) ==
  \/ c = NoCmd
  \/ /\ c.op \in {"queue", "notify", "deliver", "fail"} /\ c.req \in Calls
     /\ c.back \in Points /\ c.fail \in Points

TypeOK ==
  /\ pc \in [Procs -> Points]
  /\ log \in Logs /\ engine \in [Procs -> Logs]
  /\ view \in Lists /\ legacy \in Lists /\ cut \in BOOLEAN
  /\ copy \in [list : Lists, both : BOOLEAN]
  /\ DOMAIN cmd = Procs /\ \A p \in Procs : CommandOK(cmd[p])
  /\ lock \in Procs \cup {NoProc}
  /\ req \in [Procs -> Calls \cup {NoReq}]
  /\ seen \in [Calls -> Statuses]
  /\ result \in [Hooks -> {"none", "confirmed", "unconfirmed", "refused"}]
  /\ lease \in [Calls -> Hooks \cup {NoProc}]
  /\ typed \in [Calls -> 0..2]
  /\ sent \subseteq Calls
  /\ mishap \in BOOLEAN

(* A call that reports success, and a request that is notified or          *)
(* delivered in any store, stand for a text that somebody typed.           *)
WasTyped(r) == typed[r] > 0 \/ \E c \in sent : req[c] = r
Informed == {"notified", "delivered"}
NotifiedWasTyped ==
  /\ \A r \in Calls :
       (log[r] \in Informed \/ Status(view, r) \in Informed \/ Status(legacy, r) \in Informed)
         => WasTyped(r)
  /\ \A c \in Calls : pc[c] = "ok" => WasTyped(req[c])

(* The engine's log follows the life of a request, and forgets none, but   *)
(* for commands that overlap, and for an engine that is killed as it       *)
(* writes: then events.json is lost as a whole, and never in part.         *)
Overlap(p) == pc[p] = "loaded" /\ engine[p] # log
LogLost(p) == pc[p] = "loaded" /\ faults' = faults + 1 /\ log' = EmptyLog
LogLifecycle ==
  [][LegalChange(log, log') \/ \E p \in Procs : Overlap(p) \/ LogLost(p)]_vars

(* No two requests stand for the same instruction at the same time.        *)
OnePendingPerKey ==
  ~mishap =>
    \A r, s \in Calls : log[r] = "pending" /\ log[s] = "pending" /\ Key[r] = Key[s] => r = s

(* The hook types a confirmed instruction a second time only after a       *)
(* mishap: a kill, a file that an engine left cut off, a torn read, stores *)
(* that disagree, overlapping commands.                                    *)
TypedOnce == ~mishap => \A r \in Calls : typed[r] <= 1

(* A failed request stays failed in dispatch.json ("`failed` is a terminal *)
(* state", dispatch.ts), unless it failed in the list and not in the log,  *)
(* commands overlapped, or an engine was killed as it wrote the log.       *)
FailedStays == \A r \in Calls : Status(view, r) = "failed" => Status(view', r) = "failed"
FailedUnlessMishap == [][FailedStays \/ mishap']_<<view, mishap>>

(* Whoever waits is answered, whatever becomes of the hook, of the other   *)
(* call whose request it waits for, and of the lock's holder.              *)
CallsReturn == \A c \in Calls : pc[c] # "idle" ~> pc[c] \in Done

(* A request that hooks may type does not stay pending, even when the call *)
(* that queued it is killed: injections confirm it or use up its attempts, *)
(* in the list that readers see when dispatch.json is cut off, too.        *)
Shown == IF cut THEN legacy ELSE view
PendingSettles ==
  \A r \in Calls \ Direct : Status(Shown, r) = "pending" ~> Status(Shown, r) # "pending"
=============================================================================
