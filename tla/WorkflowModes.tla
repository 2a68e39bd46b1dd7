---------------------------- MODULE WorkflowModes ----------------------------
(***************************************************************************)
(* The workflow modes of one session.  Every mode has a state file,        *)
(* <mode>-state.json; the modes that are active are also listed in         *)
(* skill-active-state.json, which exists twice, at the root and in the     *)
(* session.  A mode is started by startMode (modes/base.ts), by the state  *)
(* operation state_write, or by a keyword in a prompt                      *)
(* (recordSkillActivation); it makes progress and is cancelled by          *)
(* updateModeState, and state_clear removes it.  All of them run in        *)
(* processes of their own, with no lock between them, and any of them may  *)
(* be killed between two writes.                                           *)
(*                                                                         *)
(* Here are the entries of one session, seven of the nine modes (not       *)
(* autopilot, which supervises others, nor team, which a prompt starts     *)
(* outside the session), and prompts that ask for one of them or for a     *)
(* skill that is no mode (analyze, plan, code-review, wiki, ...), which    *)
(* has no state file but takes the lists over.                             *)
(***************************************************************************)
EXTENDS Naturals, FiniteSets

CONSTANTS
  Procs,      \* processes that run one operation at a time
  Does,       \* Does[p]: the operations p runs
  Modes,      \* the modes in use
  MaxOps,     \* bound: operations
  MaxKills    \* bound: killed processes

Tracked == {"deep-interview", "ralplan", "autoresearch", "ultragoal", "ralph",
            "ultrawork", "ultraqa"}

Plain == "plain"      \* the entry of a skill that is no mode
Listable == Modes \cup {Plain}

Starting == {"start", "write", "prompt"}
Ops == Starting \cup {"clear", "cancel", "update"}

(* What an operation may be about.                                         *)
About(op) == IF op = "prompt" THEN Listable ELSE Modes

ASSUME ModesAssumption ==
  /\ Modes \subseteq Tracked /\ Does \in [Procs -> SUBSET Ops]
  /\ MaxOps \in Nat /\ MaxKills \in Nat

VARIABLES
  active,     \* modes whose state file says active
  root,       \* what the skill-active-state.json of the root lists
  session,    \* what that of the session lists
  pc,
  call,       \* call[p]: what p was asked for, and what it has worked out
  alone,      \* alone[p]: no other operation ran during p's
  ops,        \* operations begun
  kills,
  disturbed,  \* history: two operations overlapped, or one was killed
  dropped,    \* history: modes a plain skill's prompt took off the session's list
  putBack,    \* history: a prompt listed at the root what it had completed
  late        \* history: an operation that was allowed to write was denied

vars == <<active, root, session, pc, call, alone, ops, kills, disturbed, dropped,
          putBack, late>>
history == <<alone, ops, kills, disturbed, dropped, putBack, late>>

-----------------------------------------------------------------------------
(* The rules of workflow-transition.ts.                                    *)

(* Modes that skill-active.ts keeps in the lists; ultragoal is not one.    *)
Canonical == Tracked \ {"ultragoal"}

Overlaps(a, b) == a = b \/ "ultrawork" \in {a, b}

AutoCompletes ==
  [m \in Tracked |->
     CASE m = "deep-interview" ->
            {"autoresearch", "ralph", "ultragoal", "ultrawork", "ralplan"}
       [] m = "ralplan" -> {"ultragoal", "ralph", "autoresearch"}
       [] m = "ultragoal" -> {"ultraqa"}
       [] OTHER -> {}]

(* This one needs the evidence of a finished interview.                    *)
Gated(source, requested) == source = "deep-interview" /\ requested = "ralplan"

(* What the start of a requested mode ends, and whether it is allowed;     *)
(* skills that are no modes do not count.                                  *)
Ends(current, requested) ==
  IF requested \in current THEN {}
  ELSE {m \in current \cap Tracked : requested \in AutoCompletes[m]}

Allowed(current, requested) ==
  \/ requested \in current
  \/ \A m \in (current \cap Tracked) \ Ends(current, requested) : Overlaps(m, requested)

-----------------------------------------------------------------------------
NoCall == [op |-> "none", want |-> "none", todo |-> {}, keep |-> {}, before |-> {},
           mode |-> "none", on |-> FALSE, root |-> {}, session |-> {}]

Init ==
  /\ active = {} /\ root = {} /\ session = {}
  /\ pc = [p \in Procs |-> "idle"]
  /\ call = [p \in Procs |-> NoCall]
  /\ alone = [p \in Procs |-> TRUE]
  /\ ops = 0 /\ kills = 0
  /\ disturbed = FALSE /\ dropped = {} /\ putBack = FALSE /\ late = FALSE

Goto(p, from, to) == pc[p] = from /\ pc' = [pc EXCEPT ![p] = to]

(* The operation is over, with or without an error.                        *)
Return(p) ==
  /\ pc' = [pc EXCEPT ![p] = "idle"]
  /\ call' = [call EXCEPT ![p] = NoCall]

(* writeFile empties a list before it fills it, and a list that cannot be  *)
(* parsed lists nothing.                                                   *)
Reads(list, p, writing) ==
  {list} \cup (IF \E q \in Procs \ {p} : pc[q] = writing THEN {{}} ELSE {})

Begin(p, op, m) ==
  /\ Goto(p, "idle", CASE op = "prompt" -> "peeking"
                       [] op \in {"start", "write"} -> "deciding"
                       [] op = "clear" -> "clearing"
                       [] OTHER -> "loading")
  /\ ops < MaxOps
  /\ ops' = ops + 1
  /\ call' = [call EXCEPT ![p] = [NoCall EXCEPT !.op = op, !.want = m]]
  /\ LET others == {q \in Procs \ {p} : pc[q] # "idle"} IN
       /\ alone' = [q \in Procs |-> IF q = p THEN others = {} ELSE
                                    IF q \in others THEN FALSE ELSE alone[q]]
       /\ disturbed' = (disturbed \/ others # {})
  /\ UNCHANGED <<active, root, session, kills, dropped, putBack, late>>

-----------------------------------------------------------------------------
(* A prompt reads the root's list before that of the session.              *)
Peek(p) ==
  /\ Goto(p, "peeking", "deciding")
  /\ \E before \in Reads(root, p, "rooting") : call' = [call EXCEPT ![p].before = before]
  /\ UNCHANGED <<active, root, session, history>>

(* A plain skill: no check, no file, and a list of that skill alone.       *)
Replace(p) ==
  /\ call[p].want = Plain
  /\ Goto(p, "deciding", "rooting")
  /\ call' = [call EXCEPT ![p].mode = Plain, ![p].on = TRUE,
                          ![p].root = call[p].before, ![p].session = {Plain}]
  /\ UNCHANGED <<active, root, session, history>>

(* Starting a mode: reconcileWorkflowTransition.                           *)

(* Fault: the root's list is read.                                         *)
BelievedRoot(p, listed) == root

(* For ralplan, state_write trusts the interview's file over a list that   *)
(* names no mode.                                                          *)
Believed(p, listed) ==
  IF call[p].op = "write" /\ call[p].want = "ralplan" /\ listed \cap Tracked = {}
  THEN active \cap {"deep-interview"}
  ELSE listed \cap Tracked

Decide(p) ==
  /\ pc[p] = "deciding" /\ call[p].want # Plain
  /\ \E listed \in Reads(session, p, "listing") :
       LET current == Believed(p, listed)
           want == call[p].want
           ended == Ends(current, want) IN
       IF Allowed(current, want)
       THEN /\ pc' = [pc EXCEPT ![p] = "completing"]
            /\ call' = [call EXCEPT
                 ![p].todo = ended,
                 ![p].keep = IF call[p].op = "prompt" THEN (current \ ended) \cup {want} ELSE {}]
       ELSE Return(p)
  /\ UNCHANGED <<active, root, session, history>>

(* The lists are brought up to date for mode m, or do not know it.         *)
Sync(p, m, otherwise) ==
  pc' = [pc EXCEPT ![p] = IF m \in Canonical THEN "reading" ELSE otherwise]

(* Fault: the mode is only taken off the lists.                            *)
CompleteListed(p) ==
  /\ pc[p] = "completing"
  /\ \E m \in call[p].todo :
       /\ Sync(p, m, "completing")
       /\ call' = [call EXCEPT ![p].todo = @ \ {m}, ![p].mode = m, ![p].on = FALSE]
  /\ UNCHANGED <<active, root, session, history>>

(* completeSourceModeState, for one source at a time.                      *)
Complete(p) ==
  /\ pc[p] = "completing"
  /\ \E m \in call[p].todo :
       \/ /\ m \in active \/ ~Gated(m, call[p].want)
          /\ active' = active \ {m}
          /\ Sync(p, m, "completing")
          /\ call' = [call EXCEPT ![p].todo = @ \ {m}, ![p].mode = m, ![p].on = FALSE]
       \/ Gated(m, call[p].want) /\ Return(p) /\ UNCHANGED active
  /\ UNCHANGED <<root, session, history>>

(* startMode and state_write write the file of the mode.                   *)
Activate(p) ==
  /\ pc[p] = "completing" /\ call[p].todo = {} /\ call[p].op # "prompt"
  /\ LET m == call[p].want IN
       /\ active' = active \cup {m}
       /\ IF m \in Canonical
          THEN /\ pc' = [pc EXCEPT ![p] = "reading"]
               /\ call' = [call EXCEPT ![p].mode = m, ![p].on = TRUE]
          ELSE Return(p)
  /\ UNCHANGED <<root, session, history>>

(* A prompt writes the files of all modes it is going to list, one after   *)
(* the other; the list of the root it puts back as it was.                 *)
Seed(p) ==
  /\ pc[p] \in {"completing", "seeding"}
  /\ call[p].todo = {} /\ call[p].op = "prompt"
  /\ \E m \in call[p].keep :
       /\ active' = active \cup {m}
       /\ pc' = [pc EXCEPT ![p] = IF call[p].keep = {m} THEN "rooting" ELSE "seeding"]
       /\ call' = [call EXCEPT
            ![p].keep = @ \ {m}, ![p].mode = call[p].want, ![p].on = TRUE,
            ![p].root = call[p].before,
            ![p].session = IF pc[p] = "completing" THEN call[p].keep ELSE @]
  /\ UNCHANGED <<root, session, history>>

(* persistDeepInterviewModeState: a prompt for anything else ends the      *)
(* interview, listed or not.                                               *)
Interview(p) ==
  /\ pc[p] = "interviewing"
  /\ active' = IF call[p].want = "deep-interview" THEN active \cup {"deep-interview"}
                ELSE active \ {"deep-interview"}
  /\ Return(p)
  /\ UNCHANGED <<root, session, history>>

-----------------------------------------------------------------------------
(* syncCanonicalSkillStateForMode.                                         *)

(* state_write tells it what the file of the mode says by now.             *)
ReadRoot(p) ==
  /\ Goto(p, "reading", "checking")
  /\ \E listed \in Reads(root, p, "rooting") :
       call' = [call EXCEPT ![p].root = listed,
                            ![p].on = IF call[p].op = "write" /\ call[p].mode = call[p].want
                                      THEN call[p].want \in active ELSE @]
  /\ UNCHANGED <<active, root, session, history>>

(* Fault: the list of the session keeps the mode that was switched off.    *)
ListKeeping(atRoot, inSession, m, on) == atRoot \cup inSession \cup {m}

(* Fault: a mode that is switched on is listed by itself.                  *)
ListReplacing(atRoot, inSession, m, on) ==
  IF on THEN {m} ELSE (atRoot \cup inSession) \ {m}

List(atRoot, inSession, m, on) ==
  ((atRoot \cup inSession) \ {m}) \cup (IF on THEN {m} ELSE {})

(* The root lists a mode only when it lists nothing else.                  *)
RootList(atRoot, inSession, m, on) ==
  IF atRoot \ {m} # {} THEN atRoot \ {m}
  ELSE IF on THEN (inSession \ atRoot) \cup {m} ELSE {}

Check(p) ==
  /\ pc[p] = "checking"
  /\ \E listed \in Reads(session, p, "listing") :
       LET m == call[p].mode
           on == call[p].on
           atRoot == call[p].root
           denied == on /\ ~Allowed(atRoot \cup listed, m) IN
       /\ late' = (late \/ denied)
       /\ IF denied THEN Return(p)
          ELSE /\ pc' = [pc EXCEPT ![p] = "rooting"]
               /\ call' = [call EXCEPT ![p].root = RootList(atRoot, listed, m, on),
                                       ![p].session = List(atRoot, listed, m, on)]
  /\ UNCHANGED <<active, root, session, alone, ops, kills, disturbed, dropped, putBack>>

(* A prompt leaves a root list alone that it did not find.                 *)
WriteRoot(p) ==
  /\ Goto(p, "rooting", "listing")
  /\ \/ root' = call[p].root
     \/ /\ call[p].op = "prompt" /\ call[p].mode = call[p].want /\ call[p].root = {}
        /\ UNCHANGED root
  /\ putBack' = (putBack \/ (call[p].op = "prompt" /\ ~(root' \subseteq root)))
  /\ UNCHANGED <<active, session, call, alone, ops, kills, disturbed, dropped, late>>

(* Fault: the interview is ended by every operation.                       *)
WriteSessionAnyOp(p) ==
  /\ Goto(p, "listing", "interviewing")
  /\ session' = call[p].session
  /\ UNCHANGED <<active, root, call, history>>

WriteSession(p) ==
  /\ pc[p] = "listing"
  /\ session' = call[p].session
  /\ IF call[p].mode # call[p].want
     THEN /\ pc' = [pc EXCEPT ![p] = "completing"]
          /\ call' = [call EXCEPT ![p].mode = "none", ![p].root = {}, ![p].session = {}]
     ELSE IF call[p].op = "prompt"
     THEN pc' = [pc EXCEPT ![p] = "interviewing"] /\ UNCHANGED call
     ELSE Return(p)
  /\ dropped' = IF call[p].want = Plain THEN dropped \cup (session \cap Modes) ELSE dropped
  /\ UNCHANGED <<active, root, alone, ops, kills, disturbed, putBack, late>>

-----------------------------------------------------------------------------
(* updateModeState: the file is read, and written with the change.  When   *)
(* the mode is not active, either there is a file or there is none.        *)
Load(p) ==
  /\ pc[p] = "loading"
  /\ LET m == call[p].want
         on == m \in active IN
       \/ /\ on \/ call[p].op = "update"
          /\ pc' = [pc EXCEPT ![p] = "storing"]
          /\ call' = [call EXCEPT ![p].mode = m, ![p].on = on /\ call[p].op = "update"]
       \/ ~on /\ Return(p)
  /\ UNCHANGED <<active, root, session, history>>

Store(p) ==
  /\ pc[p] = "storing"
  /\ LET m == call[p].want IN
       /\ active' = (active \ {m}) \cup (IF call[p].on THEN {m} ELSE {})
       /\ IF m \in Canonical
          THEN pc' = [pc EXCEPT ![p] = "reading"] /\ UNCHANGED call
          ELSE Return(p)
  /\ UNCHANGED <<root, session, history>>

(* state_clear removes the file.                                           *)
Clear(p) ==
  /\ pc[p] = "clearing"
  /\ LET m == call[p].want IN
       /\ active' = active \ {m}
       /\ IF m \in Canonical
          THEN /\ pc' = [pc EXCEPT ![p] = "reading"]
               /\ call' = [call EXCEPT ![p].mode = m]
          ELSE Return(p)
  /\ UNCHANGED <<root, session, history>>

(* A process killed while it writes a list leaves it unreadable.           *)
Kill(p) ==
  /\ pc[p] # "idle"
  /\ kills < MaxKills
  /\ kills' = kills + 1
  /\ disturbed' = TRUE
  /\ Return(p)
  /\ root' \in {root} \cup (IF pc[p] = "rooting" THEN {{}} ELSE {})
  /\ session' \in {session} \cup (IF pc[p] = "listing" THEN {{}} ELSE {})
  /\ UNCHANGED <<active, alone, ops, dropped, putBack, late>>

Step(p) ==
  \/ Peek(p) \/ Replace(p) \/ Decide(p) \/ Complete(p) \/ Activate(p) \/ Seed(p) \/ Interview(p)
  \/ ReadRoot(p) \/ Check(p) \/ WriteRoot(p) \/ WriteSession(p)
  \/ Load(p) \/ Store(p) \/ Clear(p)

Quiet == \A p \in Procs : pc[p] = "idle"
Finished == Quiet /\ ops = MaxOps /\ UNCHANGED vars

Next ==
  \/ \E p \in Procs :
       \/ \E op \in Does[p] : \E m \in About(op) : Begin(p, op, m)
       \/ Step(p)
       \/ Kill(p)
  \/ Finished

Spec == Init /\ [][Next]_vars

-----------------------------------------------------------------------------
Points == {"idle", "peeking", "deciding", "completing", "seeding", "reading", "checking",
           "rooting", "listing", "interviewing", "loading", "storing", "clearing"}
Call == [op : Ops \cup {"none"}, want : Listable \cup {"none"}, todo : SUBSET Modes,
         keep : SUBSET Modes, before : SUBSET Listable, mode : Listable \cup {"none"},
         on : BOOLEAN, root : SUBSET Listable, session : SUBSET Listable]

(* Types; and only a prompt is ever at its last step.                      *)
TypeOK ==
  /\ active \subseteq Modes /\ root \subseteq Listable /\ session \subseteq Listable
  /\ pc \in [Procs -> Points]
  /\ call \in [Procs -> Call]
  /\ alone \in [Procs -> BOOLEAN]
  /\ ops \in 0..MaxOps /\ kills \in 0..MaxKills
  /\ dropped \subseteq Modes
  /\ disturbed \in BOOLEAN /\ putBack \in BOOLEAN /\ late \in BOOLEAN
  /\ \A p \in Procs :
       /\ (pc[p] = "idle") <=> (call[p].op = "none")
       /\ pc[p] = "interviewing" => call[p].op = "prompt"

Active == active \cap Canonical
Compatible(modes) ==
  \A a, b \in modes \cap Canonical : Overlaps(a, b)

(* "Non-allowlisted transitions remain blocked" and "rollback to planning  *)
(* never auto-completes" (docs/STATE_MODEL.md): through whichever of the   *)
(* three entrances the modes are started, the active ones may overlap; at  *)
(* least while operations do not overlap, none is killed, and no prompt    *)
(* has put an old list back at the root or, being for a plain skill, taken *)
(* a mode off the list: then the checks no longer see what is active.      *)
ActiveCompatible ==
  Quiet /\ ~disturbed /\ ~putBack /\ dropped = {} =>
    Compatible(Active) /\ Compatible(session)

(* The lists are what decides what may start, although the files are what  *)
(* says what is active: an active mode is listed, even after a prompt has  *)
(* put an old list back, unless a start was denied when it had written the *)
(* file of its mode.  The one hole is the prompt of a plain skill: the     *)
(* modes that were listed run on, and the list no longer says so.          *)
ActiveListed ==
  Quiet /\ ~disturbed /\ ~late => Active \subseteq session \cup dropped

(* The second check, after the mode's file is written, never denies what   *)
(* the first one allowed ("Current state is unchanged", says the denial),  *)
(* unless operations overlapped, one was killed, or a prompt made the two  *)
(* lists differ: the first check reads the session's, the second both.     *)
DeniedInTime == late => disturbed \/ putBack \/ dropped # {}

(* "Clear incompatible workflow state yourself via `omx state clear`": an  *)
(* undisturbed state_clear or cancelMode leaves no trace of the mode,      *)
(* whatever overlapping and killed operations have left behind before.     *)
ClearHeals ==
  [][\A p \in Procs :
       LET m == call[p].want IN
       /\ pc[p] # "idle" /\ pc'[p] = "idle" /\ alone[p] /\ kills' = kills
       /\ m \in Canonical
       /\ call[p].op = "clear" \/ (call[p].op = "cancel" /\ pc[p] # "loading")
       => m \notin active' \cup root' \cup session']_vars

(* "Compatibility sync must not resurrect completed source modes"          *)
(* (docs/STATE_MODEL.md): a mode comes to be listed only for an operation  *)
(* that asks for it.                                                       *)
NoResurrection ==
  [][\A m \in session' \ session : \E p \in Procs : call[p].want = m]_vars
=============================================================================
