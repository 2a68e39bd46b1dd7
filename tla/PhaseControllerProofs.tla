----------------------- MODULE PhaseControllerProofs -----------------------
(***************************************************************************)
(* Phases, for any number of overlapping polls, any limit of fix attempts  *)
(* and any number of stalls, hooks and rounds of work.                     *)
(*                                                                         *)
(* TypeOK alone does not bound the paths a poll may have to build: what is *)
(* added is the range of the inferred targets.  With it the paths are      *)
(* finitely many, each legal, and a walk along any of them keeps the limit *)
(* of attempts.                                                            *)
(***************************************************************************)
EXTENDS PhaseController, TLAPS

(* The phases inferPhaseTargetFromTaskCounts and the stall can return.     *)
Targets == {"team-exec", "team-verify", "team-fix", "complete", "failed"}

TargetsOK == target \in [Monitors -> Targets]

IInv == TypeOK /\ TargetsOK

-----------------------------------------------------------------------------
(* No two cases of the inference overlap and none is missing.              *)
LEMMA InferRange ==
  ASSUME NEW w \in Work, NEW stall \in BOOLEAN
  PROVE  Infer(w, stall) \in Targets
<1>1. w.open \in BOOLEAN /\ w.failed \in BOOLEAN /\ w.unverified \in BOOLEAN
  BY DEF Work
<1> QED BY <1>1 DEF Infer, Targets

(* The phases ahead of each phase.                                         *)
LEMMA AheadIs ==
  /\ Ahead("team-plan") = <<"team-prd", "team-exec", "team-verify">>
  /\ Ahead("team-prd") = <<"team-exec", "team-verify">>
  /\ Ahead("team-exec") = <<"team-verify">>
  /\ Ahead("team-verify") = <<>>
  /\ Ahead("team-fix") = <<>>
  BY DEF Ahead

(* Paths are compared entry by entry.                                      *)
Reads(path, a) == Len(path) = Len(a) /\ \A i \in 1..Len(a) : path[i] = a[i]

(* What appending and cutting off the last entry yield.                    *)
LEMMA AppendReads ==
  \A a, b, c, d :
    /\ Reads(Append(<<>>, a), <<a>>)
    /\ Reads(Append(<<a>>, b), <<a, b>>)
    /\ Reads(Append(<<a, b>>, c), <<a, b, c>>)
    /\ Reads(Append(<<a, b, c>>, d), <<a, b, c, d>>)
<1> TAKE a, b, c, d
<1>1. Reads(Append(<<>>, a), <<a>>)
  BY DEF Reads
<1>2. Reads(Append(<<a>>, b), <<a, b>>)
  BY DEF Reads
<1>3. Reads(Append(<<a, b>>, c), <<a, b, c>>)
  BY DEF Reads
<1>4. Reads(Append(<<a, b, c>>, d), <<a, b, c, d>>)
  BY DEF Reads
<1> QED BY <1>1, <1>2, <1>3, <1>4

LEMMA CutReads ==
  \A a, b, c :
    /\ Reads(SubSeq(<<>>, 1, Len(<<>>) - 1), <<>>)
    /\ Reads(SubSeq(<<a>>, 1, Len(<<a>>) - 1), <<>>)
    /\ Reads(SubSeq(<<a, b>>, 1, Len(<<a, b>>) - 1), <<a>>)
    /\ Reads(SubSeq(<<a, b, c>>, 1, Len(<<a, b, c>>) - 1), <<a, b>>)
<1> TAKE a, b, c
<1>0. Reads(SubSeq(<<>>, 1, Len(<<>>) - 1), <<>>)
  BY DEF Reads
<1>1. Reads(SubSeq(<<a>>, 1, Len(<<a>>) - 1), <<>>)
  BY DEF Reads
<1>2. Reads(SubSeq(<<a, b>>, 1, Len(<<a, b>>) - 1), <<a>>)
  BY DEF Reads
<1>3. Reads(SubSeq(<<a, b, c>>, 1, Len(<<a, b, c>>) - 1), <<a, b>>)
  BY DEF Reads
<1> QED BY <1>0, <1>1, <1>2, <1>3

(* The table of buildTransitionPath.                                       *)
LEMMA PathToVerify ==
  /\ Path("team-plan", "team-verify") = <<"team-prd", "team-exec", "team-verify">>
  /\ Path("team-prd", "team-verify") = <<"team-exec", "team-verify">>
  /\ Path("team-exec", "team-verify") = <<"team-verify">>
  /\ Path("team-fix", "team-verify") = <<"team-exec", "team-verify">>
  BY AheadIs DEF Path

LEMMA PathToExec ==
  /\ Reads(Path("team-plan", "team-exec"), <<"team-prd", "team-exec">>)
  /\ Reads(Path("team-prd", "team-exec"), <<"team-exec">>)
  /\ Reads(Path("team-verify", "team-exec"), <<>>)
  /\ Path("team-fix", "team-exec") = <<"team-exec">>
<1>1. \A from \in Phases \ {"team-fix"} :
        Path(from, "team-exec") = SubSeq(Ahead(from), 1, Len(Ahead(from)) - 1)
  BY DEF Path
<1>2. Path("team-fix", "team-exec") = <<"team-exec">>
  BY DEF Path
<1> QED BY <1>1, <1>2, AheadIs, CutReads DEF Phases

LEMMA PathToEnd ==
  ASSUME NEW to \in {"team-fix", "complete", "failed"}
  PROVE  /\ Reads(Path("team-plan", to),
                  <<"team-prd", "team-exec", "team-verify", to>>)
         /\ Reads(Path("team-prd", to), <<"team-exec", "team-verify", to>>)
         /\ Reads(Path("team-exec", to), <<"team-verify", to>>)
         /\ Reads(Path("team-verify", to), <<to>>)
         /\ Reads(Path("team-fix", to), <<to>>)
<1>1. \A from \in Phases : Path(from, to) = Append(Ahead(from), to)
  BY DEF Path
<1> QED BY <1>1, AheadIs, AppendReads DEF Phases

(* Every step of a path is a transition of the table TRANSITIONS, and the  *)
(* entries are phases.                                                     *)
Legal(from, path) ==
  \A i \in 1..Len(path) :
    /\ path[i] \in AnyPhase
    /\ path[i] \in Allowed[IF i = 1 THEN from ELSE path[i - 1]]

LEMMA PathLegal ==
  ASSUME NEW from \in Phases, NEW to \in Targets, from # to
  PROVE  /\ Len(Path(from, to)) \in 0..4
         /\ Legal(from, Path(from, to))
<1>1. /\ Allowed["team-plan"] = {"team-prd"}
      /\ Allowed["team-prd"] = {"team-exec"}
      /\ Allowed["team-exec"] = {"team-verify"}
      /\ Allowed["team-verify"] = {"team-fix", "complete", "failed"}
      /\ Allowed["team-fix"] = {"team-exec", "team-verify", "complete", "failed"}
  BY DEF Allowed, Phases
<1>2. CASE to = "team-verify"
  BY <1>1, <1>2, PathToVerify DEF Legal, Phases, AnyPhase, TerminalPhases
<1>3. CASE to = "team-exec"
  BY <1>1, <1>3, PathToExec DEF Reads, Legal, Phases, AnyPhase, TerminalPhases
<1>4. CASE to \in {"team-fix", "complete", "failed"}
  <2> DEFINE path == Path(from, to)
  <2>0. path = Path(from, to)
    OBVIOUS
  <2> HIDE DEF path
  <2>1. CASE from = "team-plan"
    <3>1. Len(path) = 4
      BY <1>4, <2>0, <2>1, PathToEnd DEF Reads
    <3>2. path[1] = "team-prd" /\ path[2] = "team-exec"
      BY <1>4, <2>0, <2>1, PathToEnd DEF Reads
    <3>3. path[3] = "team-verify" /\ path[4] = to
      BY <1>4, <2>0, <2>1, PathToEnd DEF Reads
    <3>4. \A i \in 1..4 : i = 1 \/ i = 2 \/ i = 3 \/ i = 4
      OBVIOUS
    <3>5. Legal(from, path)
      BY <1>1, <1>4, <2>1, <3>1, <3>2, <3>3, <3>4
      DEF Legal, AnyPhase, TerminalPhases, Phases
    <3> QED BY <2>0, <3>1, <3>5
  <2>2. CASE from = "team-prd"
    <3>1. Len(path) = 3
      BY <1>4, <2>0, <2>2, PathToEnd DEF Reads
    <3>2. path[1] = "team-exec" /\ path[2] = "team-verify" /\ path[3] = to
      BY <1>4, <2>0, <2>2, PathToEnd DEF Reads
    <3>3. \A i \in 1..3 : i = 1 \/ i = 2 \/ i = 3
      OBVIOUS
    <3>4. Legal(from, path)
      BY <1>1, <1>4, <2>2, <3>1, <3>2, <3>3
      DEF Legal, AnyPhase, TerminalPhases, Phases
    <3> QED BY <2>0, <3>1, <3>4
  <2>3. CASE from \in {"team-exec", "team-verify", "team-fix"}
    BY <1>1, <1>4, <2>3, PathToEnd
    DEF Reads, Legal, AnyPhase, TerminalPhases, Phases
  <2> QED BY <2>1, <2>2, <2>3 DEF Phases
<1> QED BY <1>2, <1>3, <1>4 DEF Targets

-----------------------------------------------------------------------------
(* A transition counts an attempt only below the limit.                    *)
LEMMA StepState ==
  ASSUME NEW s \in PhaseState, NEW to \in AnyPhase
  PROVE  Step(s, to) \in PhaseState
<1>1. /\ s.phase \in AnyPhase /\ s.attempts \in 0..MaxFix /\ s.reason \in Reasons
      /\ s = [phase |-> s.phase, attempts |-> s.attempts, reason |-> s.reason]
  BY DEF PhaseState
<1>2. "failed" \in AnyPhase /\ {"step", "limit"} \subseteq Reasons
  BY DEF AnyPhase, TerminalPhases, Reasons
<1>3. CASE to = "team-fix" /\ s.attempts + 1 > MaxFix
  BY <1>1, <1>2, <1>3 DEF Step, PhaseState
<1>4. CASE ~(to = "team-fix" /\ s.attempts + 1 > MaxFix)
  <2>1. (IF to = "team-fix" THEN s.attempts + 1 ELSE s.attempts) \in 0..MaxFix
    BY <1>1, <1>4, PhaseAssumption
  <2> QED BY <1>2, <1>4, <2>1 DEF Step, PhaseState
<1> QED BY <1>3, <1>4

(* A walk along phases leads to a state whose attempts are within the      *)
(* limit.                                                                  *)
LEMMA WalkState ==
  ASSUME NEW s \in PhaseState, NEW path,
         \A i \in 1..Len(path) : path[i] \in AnyPhase,
         Len(path) \in Nat
  PROVE  Walk(s, path) \in PhaseState
<1> DEFINE After(st, i) == IF i <= Len(path) THEN Onward(st, path[i]) ELSE st
<1>1. ASSUME NEW st \in PhaseState, NEW i \in 1..4
      PROVE  After(st, i) \in PhaseState
  BY <1>1, StepState DEF Onward
<1>2. Walk(s, path) = After(After(After(After(s, 1), 2), 3), 4)
  BY DEF Walk
<1> HIDE DEF After
<1> QED BY <1>1, <1>2

(* Whatever was read and inferred, what is written back is well formed.    *)
LEMMA ReconcileState ==
  ASSUME NEW s \in PhaseState, NEW to \in Targets
  PROVE  Reconcile(s, to) \in PhaseState
<1>1. s.phase \in AnyPhase /\ Targets \subseteq AnyPhase
  BY DEF PhaseState, Targets, AnyPhase, Phases, TerminalPhases
<1>2. CASE s.phase = to
  BY <1>2 DEF Reconcile
<1>3. CASE s.phase # to /\ s.phase \in TerminalPhases
  <2>1. [phase |-> to, attempts |-> 0, reason |-> "tasks_reopened"] \in PhaseState
    BY <1>1, PhaseAssumption DEF PhaseState, Reasons
  <2> QED BY <1>3, <2>1 DEF Reconcile
<1>4. CASE s.phase # to /\ s.phase \notin TerminalPhases
  <2>1. s.phase \in Phases
    BY <1>1, <1>4 DEF AnyPhase
  <2>2. Len(Path(s.phase, to)) \in Nat
    BY <1>4, <2>1, PathLegal
  <2>3. \A i \in 1..Len(Path(s.phase, to)) : Path(s.phase, to)[i] \in AnyPhase
    BY <1>4, <2>1, PathLegal DEF Legal
  <2>4. Walk(s, Path(s.phase, to)) \in PhaseState
    BY <2>2, <2>3, WalkState
  <2> QED BY <1>4, <2>4 DEF Reconcile
<1> QED BY <1>2, <1>3, <1>4

(* Where a walk along a path ends: at its last phase, or in 'failed' when  *)
(* that is a fix and no attempt is left.                                   *)
Ended(s, to, end) ==
  IF to = "team-fix" /\ s.attempts + 1 > MaxFix
    THEN end.phase = "failed" /\ end.attempts = s.attempts
    ELSE /\ end.phase = to
         /\ end.attempts = IF to = "team-fix" THEN s.attempts + 1 ELSE s.attempts

LEMMA WalkEnds ==
  ASSUME NEW s \in PhaseState, NEW to \in Targets,
         s.phase \in Phases, s.phase # to,
         ~(s.phase = "team-verify" /\ to = "team-exec")
  PROVE  Ended(s, to, Walk(s, Path(s.phase, to)))
<1> DEFINE path == Path(s.phase, to)
           After(st, i) == IF i <= Len(path) THEN Onward(st, path[i]) ELSE st
           OnWay(st) == /\ st \in PhaseState
                        /\ st.phase \in Phases /\ st.phase # to
                        /\ st.attempts = s.attempts
<1>1. Walk(s, path) = After(After(After(After(s, 1), 2), 3), 4)
  BY DEF Walk
<1>2. \E n \in 1..4 :
        /\ Len(path) = n
        /\ path[n] = to
        /\ \A i \in 1..(n - 1) :
             path[i] \in {"team-prd", "team-exec", "team-verify"} /\ path[i] # to
  <2>1. CASE to = "team-verify"
    BY <2>1, PathToVerify DEF Phases
  <2>2. CASE to = "team-exec"
    BY <2>2, PathToExec DEF Phases, Reads
  <2>3. CASE to \in {"team-fix", "complete", "failed"}
    BY <2>3, PathToEnd DEF Phases, Reads
  <2> QED BY <2>1, <2>2, <2>3 DEF Targets
<1>3. PICK n \in 1..4 :
        /\ Len(path) = n
        /\ path[n] = to
        /\ \A i \in 1..(n - 1) :
             path[i] \in {"team-prd", "team-exec", "team-verify"} /\ path[i] # to
  BY <1>2
<1> HIDE DEF path
<1>4. ASSUME NEW st, OnWay(st), NEW i \in 1..(n - 1)
      PROVE  OnWay(After(st, i))
  <2>1. After(st, i) = Onward(st, path[i])
    BY <1>3
  <2>2. Onward(st, path[i]) = st \/ Onward(st, path[i]) = Step(st, path[i])
    BY DEF Onward
  <2>3. path[i] # "team-fix" /\ path[i] \in Phases /\ path[i] # to
    BY <1>3 DEF Phases
  <2>4. Step(st, path[i])
          = [phase |-> path[i], attempts |-> st.attempts, reason |-> "step"]
    BY <2>3 DEF Step
  <2>5. Step(st, path[i]) \in PhaseState
    BY <1>4, <2>3, StepState DEF AnyPhase
  <2> QED BY <1>4, <2>1, <2>2, <2>3, <2>4, <2>5
<1>5. ASSUME NEW st, OnWay(st)
      PROVE  Ended(s, to, After(st, n))
  <2>1. st.phase \notin TerminalPhases \cup {to}
    BY <1>5 DEF Phases, TerminalPhases
  <2>2. After(st, n) = Step(st, to)
    BY <1>3, <2>1 DEF Onward
  <2>3. CASE to = "team-fix" /\ s.attempts + 1 > MaxFix
    <3>1. Step(st, to) = [st EXCEPT !.phase = "failed", !.reason = "limit"]
      BY <1>5, <2>3 DEF Step
    <3>2. /\ [st EXCEPT !.phase = "failed", !.reason = "limit"].phase = "failed"
          /\ [st EXCEPT !.phase = "failed", !.reason = "limit"].attempts = st.attempts
      BY <1>5 DEF PhaseState
    <3> QED BY <1>5, <2>2, <2>3, <3>1, <3>2 DEF Ended
  <2>4. CASE ~(to = "team-fix" /\ s.attempts + 1 > MaxFix)
    BY <1>5, <2>2, <2>4 DEF Step, Ended
  <2> QED BY <2>3, <2>4
<1>6. ASSUME NEW st, NEW i \in (n + 1)..4
      PROVE  After(st, i) = st
  BY <1>3, <1>6
<1>7. OnWay(s)
  OBVIOUS
<1>8. n = 1 \/ n = 2 \/ n = 3 \/ n = 4
  OBVIOUS
<1> HIDE DEF After, OnWay
<1>9. CASE n = 1
  BY <1>1, <1>5, <1>6, <1>7, <1>9 DEF path
<1>10. CASE n = 2
  BY <1>1, <1>4, <1>5, <1>6, <1>7, <1>10 DEF path
<1>11. CASE n = 3
  BY <1>1, <1>4, <1>5, <1>6, <1>7, <1>11 DEF path
<1>12. CASE n = 4
  BY <1>1, <1>4, <1>5, <1>6, <1>7, <1>12 DEF path
<1> QED BY <1>8, <1>9, <1>10, <1>11, <1>12

(* What one poll makes of the phase it read, for any limit: it reaches the *)
(* phase it inferred, ends in 'failed' when that is one fix too many,      *)
(* reopens a terminal phase with no attempt counted, and otherwise leaves  *)
(* everything as it is: one terminal phase is not replaced by another, and *)
(* a team in verification does not go back to execution.                   *)
Stays(s, to) ==
  \/ s.phase = to
  \/ s.phase \in TerminalPhases /\ to \in TerminalPhases
  \/ s.phase = "team-verify" /\ to = "team-exec"

THEOREM PollReaches ==
  ASSUME NEW s \in PhaseState, NEW to \in Targets
  PROVE  LET end == Reconcile(s, to)
         IN  IF Stays(s, to) THEN end = s
             ELSE IF s.phase \in TerminalPhases
               THEN end.phase = to /\ end.attempts = 0
               ELSE Ended(s, to, end)
<1>1. s.phase \in AnyPhase
  BY DEF PhaseState
<1>2. CASE s.phase = to
  BY <1>2 DEF Reconcile, Stays
<1>3. CASE s.phase # to /\ s.phase \in TerminalPhases
  BY <1>3 DEF Reconcile, Stays, TerminalPhases
<1>4. CASE s.phase # to /\ s.phase \notin TerminalPhases
  <2>1. s.phase \in Phases
    BY <1>1, <1>4 DEF AnyPhase
  <2>2. Reconcile(s, to) = Walk(s, Path(s.phase, to))
    BY <1>4 DEF Reconcile
  <2>3. CASE s.phase = "team-verify" /\ to = "team-exec"
    <3>1. Len(Path(s.phase, to)) = 0
      BY <2>3, PathToExec DEF Reads
    <3>2. Walk(s, Path(s.phase, to)) = s
      BY <3>1 DEF Walk
    <3> QED BY <2>2, <2>3, <3>2 DEF Stays
  <2>4. CASE ~(s.phase = "team-verify" /\ to = "team-exec")
    BY <1>4, <2>1, <2>2, <2>4, WalkEnds DEF Stays
  <2> QED BY <2>3, <2>4
<1> QED BY <1>2, <1>3, <1>4

-----------------------------------------------------------------------------
(* The invariant holds when the team has been created.                     *)
LEMMA InitInv == Init => IInv
<1> SUFFICES ASSUME Init PROVE IInv
  OBVIOUS
<1>1. FirstPhase \in PhaseState
  BY PhaseAssumption DEF FirstPhase, PhaseState, AnyPhase, Phases, Reasons
<1>2. TypeOK
  <2>1. work \in Work /\ rounds \in Nat /\ stalls \in Nat /\ hooks \in Nat
    BY DEF Init, Work
  <2>2. /\ pc \in [Monitors -> {"idle", "inferred", "writing"}]
        /\ target \in [Monitors -> AnyPhase]
        /\ sawOpen \in [Monitors -> BOOLEAN]
    BY DEF Init, AnyPhase, Phases
  <2>3. file \in PhaseState /\ base \in [Monitors -> PhaseState]
    BY <1>1 DEF Init
  <2>4. dead \in BOOLEAN /\ hook \subseteq PhaseState
    BY DEF Init
  <2> QED BY <2>1, <2>2, <2>3, <2>4 DEF TypeOK
<1>3. TargetsOK
  BY DEF Init, TargetsOK, Targets
<1> QED BY <1>2, <1>3 DEF IInv

(* Work and workers come and go without touching any phase.                *)
LEMMA TeamInv ==
  ASSUME IInv, Team
  PROVE  IInv'
<1> USE DEF IInv, TypeOK, TargetsOK, pollVars
<1>1. CASE NewWork
  <2>1. work' \in Work
    BY <1>1 DEF NewWork, Work
  <2>2. rounds' \in Nat
    BY <1>1 DEF NewWork
  <2> QED BY <1>1, <2>1, <2>2 DEF NewWork
<1>2. CASE WorkEnds
  <2>1. work' \in Work
    BY <1>2 DEF WorkEnds, Work
  <2> QED BY <1>2, <2>1 DEF WorkEnds
<1>3. CASE EvidenceWaived
  <2>1. work' \in Work
    BY <1>3 DEF EvidenceWaived, Work
  <2> QED BY <1>3, <2>1 DEF EvidenceWaived
<1>4. CASE WorkersDie
  BY <1>4 DEF WorkersDie
<1>5. CASE WorkersReturn
  BY <1>5 DEF WorkersReturn
<1> QED BY <1>1, <1>2, <1>3, <1>4, <1>5 DEF Team

(* A poll infers a target of the table, and writes what it made of the     *)
(* phase it read.                                                          *)
LEMMA PollInv ==
  ASSUME IInv, NEW m \in Monitors, Poll(m)
  PROVE  IInv'
<1> USE DEF IInv, TypeOK, TargetsOK
<1>1. Targets \subseteq AnyPhase
  BY DEF Targets, AnyPhase, Phases, TerminalPhases
<1>2. CASE Inspect(m)
  <2>1. Infer(work, PromptMode /\ dead) \in Targets
    BY InferRange, PhaseAssumption
  <2>2. work.open \in BOOLEAN
    BY DEF Work
  <2> QED BY <1>1, <1>2, <2>1, <2>2 DEF Inspect
<1>3. CASE ReadPhase(m)
  BY <1>3 DEF ReadPhase
<1>4. CASE WritePhase(m)
  <2>1. file' \in PhaseState
    BY <1>4, ReconcileState DEF WritePhase
  <2>2. FirstPhase \in PhaseState
    BY PhaseAssumption DEF FirstPhase, PhaseState, AnyPhase, Phases, Reasons
  <2> QED BY <1>1, <1>4, <2>1, <2>2 DEF WritePhase, Targets
<1> QED BY <1>2, <1>3, <1>4 DEF Poll

(* The hook copies the file, and writes its copy back with another phase.  *)
LEMMA HookInv ==
  ASSUME IInv, HookReads \/ HookWrites
  PROVE  IInv'
<1> USE DEF IInv, TypeOK, TargetsOK, pollVars
<1>1. CASE HookReads
  BY <1>1 DEF HookReads
<1>2. CASE HookWrites
  <2>1. PICK s \in hook :
          file' = [s EXCEPT !.phase = "failed", !.reason = "mcp_transport_dead"]
    BY <1>2 DEF HookWrites
  <2>2. file' \in PhaseState
    BY <2>1 DEF PhaseState, AnyPhase, TerminalPhases, Reasons
  <2> QED BY <1>2, <2>2 DEF HookWrites
<1> QED BY <1>1, <1>2

LEMMA NextInv == IInv /\ [Next]_vars => IInv'
<1> SUFFICES ASSUME IInv, [Next]_vars PROVE IInv'
  OBVIOUS
<1>1. CASE UNCHANGED vars
  BY <1>1 DEF IInv, TypeOK, TargetsOK, vars
<1>2. CASE Next
  BY <1>2, PollInv, TeamInv, HookInv DEF Next
<1> QED BY <1>1, <1>2

(* The invariant implies that no poll has an illegal path to walk.         *)
LEMMA InvPaths == IInv => PathsLegal
<1> SUFFICES ASSUME IInv, NEW m \in Monitors,
                    base[m].phase \in Phases, base[m].phase # target[m]
             PROVE  Legal(base[m].phase, Path(base[m].phase, target[m]))
  BY DEF PathsLegal, Legal
<1>1. target[m] \in Targets
  BY DEF IInv, TargetsOK
<1> QED BY <1>1, PathLegal

(* The phase file, the copies in flight and the inferred targets are well  *)
(* formed, and no fix attempt beyond the limit is ever recorded.           *)
THEOREM PhaseTypes == Spec => []TypeOK
<1>1. IInv => TypeOK
  BY DEF IInv
<1> QED BY InitInv, NextInv, <1>1, PTL DEF Spec

(* No poll ever throws on an illegal transition, whatever the other        *)
(* writers of phase.json did since it inferred its target.                 *)
THEOREM PollsNeverThrow == Spec => []PathsLegal
  BY InitInv, NextInv, InvPaths, PTL DEF Spec
=============================================================================
