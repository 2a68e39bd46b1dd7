--------------------------- MODULE PhaseController ---------------------------
(***************************************************************************)
(* The phase of a team, phase.json.  Every monitorTeam poll derives a      *)
(* target phase from the tasks it listed, reads phase.json, walks the      *)
(* persisted phase towards the target through the legal transitions of     *)
(* orchestrator.ts, and writes the file back.  Polls of different          *)
(* processes overlap, nothing is locked, and a Stop hook that saw the MCP  *)
(* transport die writes 'failed' into the same file in the same way.       *)
(***************************************************************************)
EXTENDS Naturals, Sequences

CONSTANTS
  Monitors,     \* monitorTeam polls that may overlap
  MaxFix,       \* max_fix_attempts
  PromptMode,   \* worker_launch_mode is 'prompt': dead workers are a stall
  MaxRounds,    \* bound: times new work appears
  MaxStalls,    \* bound: times all workers die
  MaxHooks      \* bound: transport failures

ASSUME PhaseAssumption ==
  /\ MaxFix \in Nat \ {0}
  /\ PromptMode \in BOOLEAN
  /\ MaxRounds \in Nat /\ MaxStalls \in Nat /\ MaxHooks \in Nat

VARIABLES
  work,    \* what the task files say
  dead,    \* no worker process is alive
  rounds, stalls, hooks,
  file,    \* phase.json
  pc,      \* where each poll is
  target,  \* the phase it inferred
  sawOpen, \* history: it listed an unfinished task
  base,    \* phase.json as it read it
  hook     \* phase.json as the hook read it, in a set of at most one

vars == <<work, dead, rounds, stalls, hooks, file, pc, target, sawOpen, base, hook>>

Phases == {"team-plan", "team-prd", "team-exec", "team-verify", "team-fix"}
TerminalPhases == {"complete", "failed"}
AnyPhase == Phases \cup TerminalPhases
Reasons == {"none", "step", "limit", "tasks_reopened", "mcp_transport_dead"}

(* Of the list of transitions only the reason of the last one is kept.     *)
PhaseState == [phase : AnyPhase, attempts : 0..MaxFix, reason : Reasons]

(* What initTeamState writes before any task exists.                       *)
FirstPhase == [phase |-> "team-exec", attempts |-> 0, reason |-> "none"]

(* open: some task is pending or in progress; failed: some task failed;    *)
(* unverified: some completed code task has no verification evidence.      *)
Work == [open : BOOLEAN, failed : BOOLEAN, unverified : BOOLEAN]

-----------------------------------------------------------------------------
(* inferPhaseTargetFromTaskCounts, and the dead-worker stall of the poll.  *)
Infer(w, stall) ==
  CASE stall /\ w.open -> "failed"
    [] w.open /\ ~stall -> "team-exec"
    [] ~w.open /\ w.failed -> "team-fix"
    [] ~w.open /\ ~w.failed /\ w.unverified -> "team-verify"
    [] ~w.open /\ ~w.failed /\ ~w.unverified -> "complete"

(* TRANSITIONS *)
Allowed == [p \in Phases |->
  CASE p = "team-plan" -> {"team-prd"}
    [] p = "team-prd" -> {"team-exec"}
    [] p = "team-exec" -> {"team-verify"}
    [] p = "team-verify" -> {"team-fix", "complete", "failed"}
    [] p = "team-fix" -> {"team-exec", "team-verify", "complete", "failed"}]

(* The phases between `from` and the end of verification.                  *)
Ahead(from) ==
  CASE from = "team-plan" -> <<"team-prd", "team-exec", "team-verify">>
    [] from = "team-prd" -> <<"team-exec", "team-verify">>
    [] from = "team-exec" -> <<"team-verify">>
    [] from = "team-verify" -> <<>>
    [] from = "team-fix" -> <<>>

(* Fault: the phase jumps to its target.                                   *)
PathJumps(from, to) == <<to>>

(* Fault: verification and fixing never lead to a terminal phase.          *)
PathNeverEnds(from, to) ==
  IF to \in TerminalPhases THEN Ahead(from) ELSE Append(Ahead(from), to)

(* buildTransitionPath, for different phases of which `from` is not        *)
(* terminal.  There is no way from verification back to execution.         *)
Path(from, to) ==
  CASE to = "team-verify" ->
         IF from = "team-fix" THEN <<"team-exec", "team-verify">>
         ELSE Ahead(from)
    [] to = "team-exec" ->
         IF from = "team-fix" THEN <<"team-exec">>
         ELSE SubSeq(Ahead(from), 1, Len(Ahead(from)) - 1)
    [] OTHER -> Append(Ahead(from), to)

(* Fault: the limit is compared with the attempts made before this one.    *)
StepLateLimit(s, to) ==
  [phase |-> to,
   attempts |-> IF to = "team-fix" THEN s.attempts + 1 ELSE s.attempts,
   reason |-> "step"]

(* transitionPhase.                                                        *)
Step(s, to) ==
  IF to = "team-fix" /\ s.attempts + 1 > MaxFix
    THEN [s EXCEPT !.phase = "failed", !.reason = "limit"]
    ELSE [phase |-> to,
          attempts |-> IF to = "team-fix" THEN s.attempts + 1 ELSE s.attempts,
          reason |-> "step"]

(* One turn of the walk, which stays where it is in a terminal phase.      *)
Onward(s, to) == IF s.phase \in TerminalPhases \cup {to} THEN s ELSE Step(s, to)

(* A path has at most four phases.                                         *)
Walk(s, path) ==
  LET After(st, i) == IF i <= Len(path) THEN Onward(st, path[i]) ELSE st
  IN  After(After(After(After(s, 1), 2), 3), 4)

(* Fault: a terminal phase is final.                                       *)
ReconcileFinal(s, to) ==
  CASE s.phase = to \/ s.phase \in TerminalPhases -> s
    [] OTHER -> Walk(s, Path(s.phase, to))

(* reconcilePhaseStateForMonitor.                                          *)
Reconcile(s, to) ==
  CASE s.phase = to -> s
    [] s.phase # to /\ s.phase \in TerminalPhases ->
         IF to \in TerminalPhases THEN s
         ELSE [phase |-> to, attempts |-> 0, reason |-> "tasks_reopened"]
    [] OTHER -> Walk(s, Path(s.phase, to))

-----------------------------------------------------------------------------
Init ==
  /\ work = [open |-> TRUE, failed |-> FALSE, unverified |-> FALSE]
  /\ dead = FALSE
  /\ rounds = 0 /\ stalls = 0 /\ hooks = 0
  /\ file = FirstPhase
  /\ pc = [m \in Monitors |-> "idle"]
  /\ target = [m \in Monitors |-> "team-exec"]
  /\ sawOpen = [m \in Monitors |-> FALSE]
  /\ base = [m \in Monitors |-> FirstPhase]
  /\ hook = {}

pollVars == <<pc, target, sawOpen, base>>

(* createTask, or an expired claim taken back.                             *)
NewWork ==
  /\ rounds < MaxRounds
  /\ rounds' = rounds + 1
  /\ work' = [work EXCEPT !.open = TRUE]
  /\ UNCHANGED <<dead, stalls, hooks, file, pollVars, hook>>

(* The last open task ends.  A failed task stays failed (TaskLedger), and  *)
(* so does the result of a completed one.                                  *)
WorkEnds ==
  /\ work.open /\ ~dead
  /\ \E f, u \in BOOLEAN :
       work' = [open |-> FALSE, failed |-> work.failed \/ f,
                unverified |-> work.unverified \/ u]
  /\ UNCHANGED <<dead, rounds, stalls, hooks, file, pollVars, hook>>

(* updateTask clears requires_code_change.                                 *)
EvidenceWaived ==
  /\ work.unverified
  /\ work' = [work EXCEPT !.unverified = FALSE]
  /\ UNCHANGED <<dead, rounds, stalls, hooks, file, pollVars, hook>>

WorkersDie ==
  /\ ~dead
  /\ stalls < MaxStalls
  /\ stalls' = stalls + 1
  /\ dead' = TRUE
  /\ UNCHANGED <<work, rounds, hooks, file, pollVars, hook>>

(* scaleUp starts fresh workers.                                           *)
WorkersReturn ==
  /\ dead
  /\ dead' = FALSE
  /\ UNCHANGED <<work, rounds, stalls, hooks, file, pollVars, hook>>

(* listTasks and the scan of the workers.                                  *)
Inspect(m) ==
  /\ pc[m] = "idle"
  /\ target' = [target EXCEPT ![m] = Infer(work, PromptMode /\ dead)]
  /\ sawOpen' = [sawOpen EXCEPT ![m] = work.open]
  /\ pc' = [pc EXCEPT ![m] = "inferred"]
  /\ UNCHANGED <<work, dead, rounds, stalls, hooks, file, base, hook>>

ReadPhase(m) ==
  /\ pc[m] = "inferred"
  /\ base' = [base EXCEPT ![m] = file]
  /\ pc' = [pc EXCEPT ![m] = "writing"]
  /\ UNCHANGED <<work, dead, rounds, stalls, hooks, file, target, sawOpen, hook>>

WritePhase(m) ==
  /\ pc[m] = "writing"
  /\ file' = Reconcile(base[m], target[m])
  /\ pc' = [pc EXCEPT ![m] = "idle"]
  /\ target' = [target EXCEPT ![m] = "team-exec"]
  /\ sawOpen' = [sawOpen EXCEPT ![m] = FALSE]
  /\ base' = [base EXCEPT ![m] = FirstPhase]
  /\ UNCHANGED <<work, dead, rounds, stalls, hooks, hook>>

(* markTeamTransportFailure reads a phase that is not terminal ...         *)
HookReads ==
  /\ hook = {}
  /\ hooks < MaxHooks
  /\ file.phase \notin TerminalPhases
  /\ hooks' = hooks + 1
  /\ hook' = {file}
  /\ UNCHANGED <<work, dead, rounds, stalls, file, pollVars>>

(* ... and writes it back as failed.                                       *)
HookWrites ==
  /\ \E s \in hook :
       file' = [s EXCEPT !.phase = "failed", !.reason = "mcp_transport_dead"]
  /\ hook' = {}
  /\ UNCHANGED <<work, dead, rounds, stalls, hooks, pollVars>>

Poll(m) == Inspect(m) \/ ReadPhase(m) \/ WritePhase(m)
Team == NewWork \/ WorkEnds \/ EvidenceWaived \/ WorkersDie \/ WorkersReturn

Next == (\E m \in Monitors : Poll(m)) \/ Team \/ HookReads \/ HookWrites

Spec == Init /\ [][Next]_vars

(* Polls are repeated; a hook that began ends.                             *)
FairSpec == Spec /\ WF_vars(HookWrites) /\ \A m \in Monitors : WF_vars(Poll(m))

-----------------------------------------------------------------------------
(* Types; the fix attempts stay within their limit in the file and in      *)
(* every copy of it in flight.                                             *)
TypeOK ==
  /\ work \in Work
  /\ dead \in BOOLEAN
  /\ rounds \in Nat /\ stalls \in Nat /\ hooks \in Nat
  /\ file \in PhaseState
  /\ pc \in [Monitors -> {"idle", "inferred", "writing"}]
  /\ target \in [Monitors -> AnyPhase]
  /\ sawOpen \in [Monitors -> BOOLEAN]
  /\ base \in [Monitors -> PhaseState]
  /\ hook \subseteq PhaseState

(* A poll never throws: whatever phase it reads and whatever target it     *)
(* inferred, with any other writer in between, each step of the path it    *)
(* builds is one transitionPhase allows (it throws on any other).          *)
PathsLegal ==
  \A m \in Monitors :
    LET from == base[m].phase
        path == Path(from, target[m])
    IN  (pc[m] = "writing" /\ from \in Phases /\ from # target[m]) =>
          \A i \in 1..Len(path) :
            path[i] \in Allowed[IF i = 1 THEN from ELSE path[i - 1]]

(* When all tasks are completed and verified for good, the team's phase    *)
(* becomes terminal for good, however the writers of phase.json overlapped *)
(* before.                                                                 *)
CompletesWhenDone ==
  <>[](~work.open /\ ~work.failed /\ ~work.unverified)
    => <>[](file.phase \in TerminalPhases)

(* When there is work and there are workers for good, the phase does not   *)
(* stay terminal.                                                          *)
ReopensForWork ==
  <>[](work.open /\ ~dead) => <>[](file.phase \notin TerminalPhases)

(* orchestrator.test.ts: the fix loop is bounded and transitions to        *)
(* failed, and phase-controller.test.ts: a terminal phase is re-opened     *)
(* when tasks become non-terminal again.  So a poll that listed no         *)
(* unfinished task does not take the team out of the phase failed.         *)
FailedStays ==
  [][\A m \in Monitors :
       (pc[m] = "writing" /\ pc'[m] = "idle" /\ file.phase = "failed"
          /\ ~sawOpen[m]) => file'.phase = "failed"]_vars
=============================================================================
