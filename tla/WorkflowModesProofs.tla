------------------------ MODULE WorkflowModesProofs ------------------------
(***************************************************************************)
(* For any processes, modes and interleavings: the types of WorkflowModes, *)
(* and what an undisturbed state_clear or cancelMode leaves behind.        *)
(***************************************************************************)
EXTENDS WorkflowModes, TLAPS

Syncing == {"reading", "checking", "rooting", "listing"}

(* An operation has a mode or a plain skill it is about; while the lists   *)
(* are brought up to date there is one they are brought up to date for.    *)
(* Nothing is decided, completed or activated for a plain skill.           *)
CallOK(p) ==
  LET c == call[p] IN
  /\ pc[p] # "idle" => c.want \in Listable
  /\ c.want = Plain =>
       /\ pc[p] \in {"peeking", "deciding", "rooting", "listing", "interviewing"}
       /\ c.op = "prompt"
       /\ pc[p] \in {"rooting", "listing"} => c.mode = Plain
  /\ c.want # Plain /\ pc[p] \in Syncing \cup {"storing"} => c.mode \in Modes

TypeInv == TypeOK /\ \A p \in Procs : CallOK(p)

(* What every step but the history and the lists has to keep, per process. *)
ProcOK(p) ==
  /\ pc[p] \in Points /\ call[p] \in Call
  /\ (pc[p] = "idle") <=> (call[p].op = "none")
  /\ pc[p] = "interviewing" => call[p].op = "prompt"
  /\ CallOK(p)

OnlyMoves(p) ==
  /\ \E l \in Points : pc' = [pc EXCEPT ![p] = l]
  /\ call' = call \/ \E c \in Call : call' = [call EXCEPT ![p] = c]

LEMMA NoCallTyped == NoCall \in Call /\ NoCall.op = "none" /\ NoCall.want # Plain
BY DEF NoCall, Call, Ops, Starting, Plain

LEMMA PlainIsNoMode == Plain \notin Tracked /\ Plain \notin Modes
BY ModesAssumption DEF Plain, Tracked

LEMMA TypeInit == Init => TypeInv
<1> SUFFICES ASSUME Init PROVE TypeInv
  OBVIOUS
<1>1. NoCall \in Call /\ NoCall.op = "none" /\ NoCall.want # Plain
  BY NoCallTyped
<1>2. /\ pc \in [Procs -> Points] /\ call \in [Procs -> Call]
      /\ \A p \in Procs : pc[p] = "idle" /\ call[p].op = "none" /\ call[p].want # Plain
  BY <1>1 DEF Init, Points
<1>3. /\ alone \in [Procs -> BOOLEAN]
      /\ ops \in 0..MaxOps /\ kills \in 0..MaxKills
  BY ModesAssumption DEF Init
<1> QED BY <1>2, <1>3 DEF Init, TypeInv, TypeOK, CallOK, Syncing

(* A step that moves p alone keeps the types when p itself is in order.    *)
LEMMA TypeMove ==
  ASSUME TypeInv, NEW p \in Procs, OnlyMoves(p), ProcOK(p)',
         active' \subseteq Modes, root' \subseteq Listable, session' \subseteq Listable,
         UNCHANGED <<alone, ops>>, kills' \in 0..MaxKills, dropped' \subseteq Modes,
         disturbed' \in BOOLEAN, putBack' \in BOOLEAN, late' \in BOOLEAN
  PROVE  TypeInv'
<1>1. /\ pc' \in [Procs -> Points] /\ call' \in [Procs -> Call]
      /\ \A q \in Procs \ {p} : pc'[q] = pc[q] /\ call'[q] = call[q]
  BY DEF TypeInv, TypeOK, OnlyMoves
<1>2. \A q \in Procs : ProcOK(q)'
  BY <1>1 DEF TypeInv, TypeOK, ProcOK, CallOK
<1> QED BY <1>1, <1>2 DEF TypeInv, TypeOK, ProcOK

(* Returning is in order for any process.                                  *)
LEMMA ReturnMoves ==
  ASSUME TypeInv, NEW p \in Procs, Return(p)
  PROVE  OnlyMoves(p) /\ ProcOK(p)' /\ pc'[p] = "idle"
BY NoCallTyped
DEF TypeInv, TypeOK, Return, OnlyMoves, ProcOK, CallOK, Points, Syncing

(* A process that goes on keeps its operation and what it is about.        *)
LEMMA CallMoves ==
  ASSUME TypeInv, NEW p \in Procs, NEW c \in Call, NEW l \in Points \ {"idle"},
         pc[p] # "idle", pc' = [pc EXCEPT ![p] = l], call' = [call EXCEPT ![p] = c],
         c.op = call[p].op, c.want = call[p].want, c.want \in Modes,
         l \in Syncing \cup {"storing"} => c.mode \in Modes,
         l = "interviewing" => c.op = "prompt"
  PROVE  OnlyMoves(p) /\ ProcOK(p)'
<1>1. pc'[p] = l /\ call'[p] = c
  BY DEF TypeInv, TypeOK
<1>2. c.want \in Listable /\ c.want # Plain
  BY PlainIsNoMode DEF Listable
<1> QED BY <1>1, <1>2 DEF TypeInv, TypeOK, OnlyMoves, ProcOK, CallOK

LEMMA PlainMoves ==
  ASSUME TypeInv, NEW p \in Procs, NEW c \in Call,
         NEW l \in {"deciding", "rooting", "listing", "interviewing"},
         pc[p] # "idle", pc' = [pc EXCEPT ![p] = l], call' = [call EXCEPT ![p] = c],
         c.op = "prompt", c.want = Plain,
         l \in {"rooting", "listing"} => c.mode = Plain
  PROVE  OnlyMoves(p) /\ ProcOK(p)'
<1>1. pc'[p] = l /\ call'[p] = c
  BY DEF TypeInv, TypeOK
<1>2. c.want \in Listable
  BY DEF Listable
<1> QED BY <1>1, <1>2 DEF TypeInv, TypeOK, OnlyMoves, ProcOK, CallOK, Points

(* Most steps are never taken for a plain skill.                           *)
LEMMA WantsMode ==
  ASSUME TypeInv, NEW p \in Procs, pc[p] # "idle",
         \/ call[p].want # Plain
         \/ pc[p] \in {"completing", "seeding", "reading", "checking", "loading",
                       "storing", "clearing"}
  PROVE  call[p].want \in Modes
BY DEF TypeInv, CallOK, Listable

-----------------------------------------------------------------------------
LEMMA FirstStep ==
  ASSUME NEW op \in Ops
  PROVE  LET first == CASE op = "prompt" -> "peeking"
                        [] op \in {"start", "write"} -> "deciding"
                        [] op = "clear" -> "clearing"
                        [] OTHER -> "loading" IN
         /\ op = "prompt" => first = "peeking"
         /\ op \in {"start", "write"} => first = "deciding"
         /\ op = "clear" => first = "clearing"
         /\ op \in {"cancel", "update"} => first = "loading"
<1>1. CASE op = "prompt"
  BY <1>1
<1>2. CASE op \in {"start", "write"}
  BY <1>2
<1>3. CASE op = "clear"
  BY <1>3
<1>4. CASE op \in {"cancel", "update"}
  BY <1>4
<1> QED BY <1>1, <1>2, <1>3, <1>4 DEF Ops, Starting

LEMMA TypeBegin ==
  ASSUME TypeInv, NEW p \in Procs, NEW op \in Does[p], NEW m \in About(op), Begin(p, op, m)
  PROVE  TypeInv'
<1> DEFINE c == [NoCall EXCEPT !.op = op, !.want = m]
<1>1. op \in Ops
  BY ModesAssumption
<1>2. c \in Call /\ c.op = op /\ c.want = m
  BY <1>1 DEF NoCall, Call, About, Listable
<1>3. PICK l \in {"peeking", "deciding", "clearing", "loading"} :
        pc' = [pc EXCEPT ![p] = l] /\ (op = "prompt" => l = "peeking")
  <2> DEFINE first == CASE op = "prompt" -> "peeking"
                        [] op \in {"start", "write"} -> "deciding"
                        [] op = "clear" -> "clearing"
                        [] OTHER -> "loading"
  <2>1. /\ first \in {"peeking", "deciding", "clearing", "loading"}
        /\ op = "prompt" => first = "peeking"
    <3>1. CASE op = "prompt"
      <4>1. first = "peeking"
        BY <3>1, FirstStep
      <4> QED BY <4>1
    <3>2. CASE op # "prompt"
      <4>1. first \in {"deciding", "clearing", "loading"}
        BY <3>2, <1>1, FirstStep DEF Ops
      <4> HIDE DEF first
      <4> QED BY <3>2, <4>1
    <3> QED BY <3>1, <3>2
  <2>2. pc' = [pc EXCEPT ![p] = first]
    BY DEF Begin, Goto
  <2> HIDE DEF first
  <2> QED BY <2>1, <2>2
<1>4. /\ call' = [call EXCEPT ![p] = c]
      /\ alone' \in [Procs -> BOOLEAN] /\ disturbed' \in BOOLEAN
      /\ UNCHANGED <<active, root, session, kills, dropped, putBack, late>>
  BY DEF Begin, TypeInv, TypeOK
<1>5. ops' \in 0..MaxOps
  BY ModesAssumption DEF Begin, TypeInv, TypeOK
<1> HIDE DEF c
<1>6. /\ pc' \in [Procs -> Points] /\ call' \in [Procs -> Call]
      /\ pc'[p] = l /\ call'[p] = c
      /\ \A q \in Procs \ {p} : pc'[q] = pc[q] /\ call'[q] = call[q]
  BY <1>2, <1>3, <1>4 DEF TypeInv, TypeOK, Points
<1>7. m \in Listable /\ (m = Plain => op = "prompt" /\ l = "peeking")
  BY <1>3, PlainIsNoMode DEF About, Listable
<1>8. \A q \in Procs : ProcOK(q)'
  BY <1>1, <1>2, <1>6, <1>7 DEF TypeInv, TypeOK, ProcOK, CallOK, Ops, Starting, Syncing
<1> QED BY <1>4, <1>5, <1>6, <1>8 DEF TypeInv, TypeOK, ProcOK

LEMMA TypePeek ==
  ASSUME TypeInv, NEW p \in Procs, Peek(p) \/ Replace(p)
  PROVE  TypeInv'
<1>1. call[p] \in Call /\ UNCHANGED <<active, root, session, history>>
  BY DEF Peek, Replace, TypeInv, TypeOK
<1>2. CASE Peek(p)
  <2>1. PICK before \in Reads(root, p, "rooting") : call' = [call EXCEPT ![p].before = before]
    BY <1>2 DEF Peek
  <2> DEFINE c == [call[p] EXCEPT !.before = before]
  <2>2. before \subseteq Listable
    BY DEF Reads, TypeInv, TypeOK
  <2>3. c \in Call /\ c.op = call[p].op /\ c.want = call[p].want
    BY <1>1, <2>2 DEF Call
  <2>4. /\ call' = [call EXCEPT ![p] = c]
        /\ pc[p] = "peeking" /\ pc' = [pc EXCEPT ![p] = "deciding"]
    BY <1>2, <2>1 DEF Peek, Goto, TypeInv, TypeOK
  <2> HIDE DEF c
  <2>5. CASE call[p].want = Plain
    <3>1. call[p].op = "prompt"
      BY <2>5 DEF TypeInv, CallOK
    <3> QED BY <1>1, <2>3, <2>4, <2>5, <3>1, PlainMoves, TypeMove DEF TypeInv, TypeOK, history
  <2>6. CASE call[p].want # Plain
    <3>1. OnlyMoves(p) /\ ProcOK(p)'
      BY <2>3, <2>4, <2>6, WantsMode, CallMoves DEF Points, Syncing
    <3> QED BY <1>1, <3>1, TypeMove DEF TypeInv, TypeOK, history
  <2> QED BY <2>5, <2>6
<1>3. CASE Replace(p)
  <2> DEFINE c == [call[p] EXCEPT !.mode = Plain, !.on = TRUE,
                                  !.root = call[p].before, !.session = {Plain}]
  <2>1. c \in Call /\ c.op = call[p].op /\ c.want = call[p].want /\ c.mode = Plain
    BY <1>1 DEF Call, Listable
  <2>2. /\ call' = [call EXCEPT ![p] = c] /\ call[p].want = Plain
        /\ pc[p] = "deciding" /\ pc' = [pc EXCEPT ![p] = "rooting"]
    BY <1>3 DEF Replace, Goto, TypeInv, TypeOK
  <2> HIDE DEF c
  <2>3. call[p].op = "prompt"
    BY <2>2 DEF TypeInv, CallOK
  <2>4. OnlyMoves(p) /\ ProcOK(p)'
    BY <2>1, <2>2, <2>3, PlainMoves
  <2> QED BY <1>1, <2>4, TypeMove DEF TypeInv, TypeOK, history
<1> QED BY <1>2, <1>3

LEMMA TypeDecide ==
  ASSUME TypeInv, NEW p \in Procs, Decide(p)
  PROVE  TypeInv'
<1>1. /\ pc[p] = "deciding" /\ call[p] \in Call /\ call[p].want \in Modes
      /\ UNCHANGED <<active, root, session, history>>
  BY WantsMode DEF Decide, TypeInv, TypeOK
<1> PICK listed \in Reads(session, p, "listing") :
      LET current == Believed(p, listed)
          want == call[p].want
          ended == Ends(current, want) IN
      IF Allowed(current, want)
      THEN /\ pc' = [pc EXCEPT ![p] = "completing"]
           /\ call' = [call EXCEPT
                ![p].todo = ended,
                ![p].keep = IF call[p].op = "prompt" THEN (current \ ended) \cup {want} ELSE {}]
      ELSE Return(p)
  BY DEF Decide
<1> DEFINE want == call[p].want
           current == Believed(p, listed)
           ended == Ends(current, want)
           keep == IF call[p].op = "prompt" THEN (current \ ended) \cup {want} ELSE {}
           c == [call[p] EXCEPT !.todo = ended, !.keep = keep]
<1>2. listed \subseteq Listable
  BY DEF Reads, TypeInv, TypeOK
<1>3. current \subseteq Modes /\ ended \subseteq current
  BY <1>2, PlainIsNoMode DEF Believed, Ends, TypeInv, TypeOK, Listable
<1>4. c \in Call /\ c.op = call[p].op /\ c.want = call[p].want
  BY <1>1, <1>2, <1>3 DEF Call
<1>5. \/ Return(p)
      \/ /\ pc' = [pc EXCEPT ![p] = "completing"]
         /\ call' = [call EXCEPT ![p] = c]
  BY DEF TypeInv, TypeOK
<1> HIDE DEF c
<1>6. OnlyMoves(p) /\ ProcOK(p)'
  BY <1>1, <1>4, <1>5, CallMoves, ReturnMoves DEF Points, Syncing
<1> QED BY <1>1, <1>6, TypeMove DEF TypeInv, TypeOK, history

LEMMA TypeComplete ==
  ASSUME TypeInv, NEW p \in Procs, Complete(p)
  PROVE  TypeInv'
<1>1. /\ pc[p] = "completing" /\ call[p] \in Call /\ call[p].want \in Modes
      /\ UNCHANGED <<root, session, history>>
  BY WantsMode DEF Complete, TypeInv, TypeOK
<1>2. active' \subseteq Modes
  BY DEF Complete, TypeInv, TypeOK
<1> PICK m \in call[p].todo :
      \/ /\ Sync(p, m, "completing")
         /\ call' = [call EXCEPT ![p].todo = @ \ {m}, ![p].mode = m, ![p].on = FALSE]
      \/ Return(p)
  BY DEF Complete
<1> DEFINE c == [call[p] EXCEPT !.todo = @ \ {m}, !.mode = m, !.on = FALSE]
<1>3. /\ c \in Call /\ c.op = call[p].op /\ c.want = call[p].want
      /\ c.mode = m /\ m \in Modes
  BY <1>1 DEF Call, Listable
<1>4. \/ Return(p)
      \/ /\ \E l \in {"reading", "completing"} : pc' = [pc EXCEPT ![p] = l]
         /\ call' = [call EXCEPT ![p] = c]
  BY DEF Sync, TypeInv, TypeOK
<1> HIDE DEF c
<1>5. OnlyMoves(p) /\ ProcOK(p)'
  BY <1>1, <1>3, <1>4, CallMoves, ReturnMoves DEF Points
<1> QED BY <1>1, <1>2, <1>5, TypeMove DEF TypeInv, TypeOK, history

LEMMA TypeActivate ==
  ASSUME TypeInv, NEW p \in Procs, Activate(p)
  PROVE  TypeInv'
<1> DEFINE c == [call[p] EXCEPT !.mode = call[p].want, !.on = TRUE]
<1>1. /\ pc[p] = "completing" /\ call[p] \in Call /\ call[p].want \in Modes
      /\ UNCHANGED <<root, session, history>>
  BY WantsMode DEF Activate, TypeInv, TypeOK
<1>2. active' \subseteq Modes
  BY <1>1 DEF Activate, TypeInv, TypeOK
<1>3. c \in Call /\ c.op = call[p].op /\ c.want = call[p].want /\ c.mode \in Modes
  BY <1>1 DEF Call
<1>4. \/ Return(p)
      \/ /\ pc' = [pc EXCEPT ![p] = "reading"]
         /\ call' = [call EXCEPT ![p] = c]
  BY DEF Activate, TypeInv, TypeOK
<1> HIDE DEF c
<1>5. OnlyMoves(p) /\ ProcOK(p)'
  BY <1>1, <1>3, <1>4, CallMoves, ReturnMoves DEF Points
<1> QED BY <1>1, <1>2, <1>5, TypeMove DEF TypeInv, TypeOK, history

LEMMA TypeSeed ==
  ASSUME TypeInv, NEW p \in Procs, Seed(p)
  PROVE  TypeInv'
<1>1. /\ pc[p] \in {"completing", "seeding"} /\ call[p] \in Call /\ call[p].want \in Modes
      /\ UNCHANGED <<root, session, history>>
  BY WantsMode DEF Seed, TypeInv, TypeOK
<1> PICK m \in call[p].keep :
      /\ active' = active \cup {m}
      /\ pc' = [pc EXCEPT ![p] = IF call[p].keep = {m} THEN "rooting" ELSE "seeding"]
      /\ call' = [call EXCEPT
           ![p].keep = @ \ {m}, ![p].mode = call[p].want, ![p].on = TRUE,
           ![p].root = call[p].before,
           ![p].session = IF pc[p] = "completing" THEN call[p].keep ELSE @]
  BY DEF Seed
<1> DEFINE list == IF pc[p] = "completing" THEN call[p].keep ELSE call[p].session
           c == [call[p] EXCEPT !.keep = call[p].keep \ {m}, !.mode = call[p].want,
                                !.on = TRUE, !.root = call[p].before, !.session = list]
           l == IF call[p].keep = {m} THEN "rooting" ELSE "seeding"
<1>2. active' \subseteq Modes /\ list \subseteq Listable
  BY <1>1 DEF TypeInv, TypeOK, Call, Listable
<1>3. call' = [call EXCEPT ![p] = c] /\ pc' = [pc EXCEPT ![p] = l]
  BY DEF TypeInv, TypeOK
<1> HIDE DEF list
<1>4. c \in Call /\ c.op = call[p].op /\ c.want = call[p].want /\ c.mode \in Modes
  BY <1>1, <1>2 DEF Call
<1>5. l \in {"rooting", "seeding"}
  OBVIOUS
<1> HIDE DEF c, l
<1>6. OnlyMoves(p) /\ ProcOK(p)'
  BY <1>1, <1>3, <1>4, <1>5, CallMoves DEF Points
<1> QED BY <1>1, <1>2, <1>6, TypeMove DEF TypeInv, TypeOK, history

LEMMA TypeInterview ==
  ASSUME TypeInv, NEW p \in Procs, Interview(p)
  PROVE  TypeInv'
<1>1. /\ Return(p) /\ UNCHANGED <<root, session, history>>
      /\ call[p].want \in Modes \cup {Plain}
  BY DEF Interview, TypeInv, CallOK, Listable
<1>2. active' \subseteq Modes
  BY <1>1 DEF Interview, TypeInv, TypeOK, Plain
<1> QED BY <1>1, <1>2, ReturnMoves, TypeMove DEF TypeInv, TypeOK, history

LEMMA TypeReadRoot ==
  ASSUME TypeInv, NEW p \in Procs, ReadRoot(p)
  PROVE  TypeInv'
<1>1. /\ pc[p] = "reading" /\ call[p] \in Call /\ call[p].mode \in Modes
      /\ call[p].want \in Modes
      /\ UNCHANGED <<active, root, session, history>>
      /\ pc' = [pc EXCEPT ![p] = "checking"]
  BY WantsMode, PlainIsNoMode DEF ReadRoot, Goto, TypeInv, TypeOK, CallOK, Syncing
<1> PICK listed \in Reads(root, p, "rooting") :
      call' = [call EXCEPT ![p].root = listed,
                           ![p].on = IF call[p].op = "write" /\ call[p].mode = call[p].want
                                     THEN call[p].want \in active ELSE @]
  BY DEF ReadRoot
<1> DEFINE on == IF call[p].op = "write" /\ call[p].mode = call[p].want
                 THEN call[p].want \in active ELSE call[p].on
           c == [call[p] EXCEPT !.root = listed, !.on = on]
<1>2. listed \subseteq Listable /\ on \in BOOLEAN
  BY <1>1 DEF Reads, TypeInv, TypeOK, Call
<1>3. call' = [call EXCEPT ![p] = c]
  BY DEF TypeInv, TypeOK
<1> HIDE DEF on
<1>4. c \in Call /\ c.op = call[p].op /\ c.want = call[p].want /\ c.mode \in Modes
  BY <1>1, <1>2 DEF Call
<1> HIDE DEF c
<1>5. OnlyMoves(p) /\ ProcOK(p)'
  BY <1>1, <1>3, <1>4, CallMoves DEF Points
<1> QED BY <1>1, <1>5, TypeMove DEF TypeInv, TypeOK, history

LEMMA TypeCheck ==
  ASSUME TypeInv, NEW p \in Procs, Check(p)
  PROVE  TypeInv'
<1>1. /\ pc[p] = "checking" /\ call[p] \in Call /\ call[p].mode \in Modes
      /\ call[p].want \in Modes
      /\ UNCHANGED <<active, root, session, alone, ops, kills, disturbed, dropped, putBack>>
  BY WantsMode, PlainIsNoMode DEF Check, TypeInv, TypeOK, CallOK, Syncing
<1> PICK listed \in Reads(session, p, "listing") :
      \/ Return(p)
      \/ /\ pc' = [pc EXCEPT ![p] = "rooting"]
         /\ call' = [call EXCEPT
              ![p].root = RootList(call[p].root, listed, call[p].mode, call[p].on),
              ![p].session = List(call[p].root, listed, call[p].mode, call[p].on)]
  BY DEF Check
<1> DEFINE atRoot == RootList(call[p].root, listed, call[p].mode, call[p].on)
           all == List(call[p].root, listed, call[p].mode, call[p].on)
           c == [call[p] EXCEPT !.root = atRoot, !.session = all]
<1>2. late' \in BOOLEAN
  BY DEF Check, TypeInv, TypeOK
<1>3. atRoot \subseteq Listable /\ all \subseteq Listable
  BY <1>1 DEF Listable, Reads, RootList, List, TypeInv, TypeOK, Call
<1>4. Return(p) \/ /\ pc' = [pc EXCEPT ![p] = "rooting"]
                   /\ call' = [call EXCEPT ![p] = c]
  BY DEF TypeInv, TypeOK
<1> HIDE DEF atRoot, all
<1>5. c \in Call /\ c.op = call[p].op /\ c.want = call[p].want /\ c.mode \in Modes
  BY <1>1, <1>3 DEF Call
<1> HIDE DEF c
<1>6. OnlyMoves(p) /\ ProcOK(p)'
  BY <1>1, <1>4, <1>5, CallMoves, ReturnMoves DEF Points
<1> QED BY <1>1, <1>2, <1>6, TypeMove DEF TypeInv, TypeOK

LEMMA TypeWriteRoot ==
  ASSUME TypeInv, NEW p \in Procs, WriteRoot(p)
  PROVE  TypeInv'
<1>1. /\ pc[p] = "rooting" /\ call[p] \in Call
      /\ UNCHANGED <<active, session, call, alone, ops, kills, disturbed, dropped, late>>
      /\ pc' = [pc EXCEPT ![p] = "listing"]
  BY DEF WriteRoot, Goto, TypeInv, TypeOK
<1>2. root' \subseteq Listable /\ putBack' \in BOOLEAN
  BY <1>1 DEF WriteRoot, TypeInv, TypeOK, Call
<1>3. call' = [call EXCEPT ![p] = call[p]]
  BY <1>1 DEF TypeInv, TypeOK
<1>4. OnlyMoves(p) /\ ProcOK(p)'
  <2>1. CASE call[p].want = Plain
    <3>1. call[p].op = "prompt" /\ call[p].mode = Plain
      BY <1>1, <2>1 DEF TypeInv, CallOK
    <3> QED BY <1>1, <1>3, <2>1, <3>1, PlainMoves
  <2>2. CASE call[p].want # Plain
    <3>1. call[p].want \in Modes /\ call[p].mode \in Modes
      BY <1>1, <2>2, WantsMode DEF TypeInv, CallOK, Syncing
    <3> QED BY <1>1, <1>3, <3>1, CallMoves DEF Points
  <2> QED BY <2>1, <2>2
<1> QED BY <1>1, <1>2, <1>4, TypeMove DEF TypeInv, TypeOK

LEMMA TypeWriteSession ==
  ASSUME TypeInv, NEW p \in Procs, WriteSession(p)
  PROVE  TypeInv'
<1>1. /\ pc[p] = "listing" /\ call[p] \in Call
      /\ session' \subseteq Listable /\ dropped' \subseteq Modes
      /\ UNCHANGED <<active, root, alone, ops, kills, disturbed, putBack, late>>
  BY DEF WriteSession, TypeInv, TypeOK, Call
<1>2. CASE call[p].mode # call[p].want
  <2> DEFINE c == [call[p] EXCEPT !.mode = "none", !.root = {}, !.session = {}]
  <2>1. c \in Call /\ c.op = call[p].op /\ c.want = call[p].want
    BY <1>1 DEF Call
  <2>2. pc' = [pc EXCEPT ![p] = "completing"] /\ call' = [call EXCEPT ![p] = c]
    BY <1>2 DEF WriteSession, TypeInv, TypeOK
  <2> HIDE DEF c
  <2>3. call[p].want \in Modes
    <3>1. call[p].want # Plain
      BY <1>1, <1>2 DEF TypeInv, CallOK
    <3> QED BY <1>1, <3>1, WantsMode
  <2>4. OnlyMoves(p) /\ ProcOK(p)'
    BY <1>1, <2>1, <2>2, <2>3, CallMoves DEF Points, Syncing
  <2> QED BY <1>1, <2>4, TypeMove DEF TypeInv, TypeOK
<1>3. CASE call[p].mode = call[p].want /\ call[p].op = "prompt"
  <2>1. /\ pc' = [pc EXCEPT ![p] = "interviewing"]
        /\ call' = [call EXCEPT ![p] = call[p]]
    BY <1>3 DEF WriteSession, TypeInv, TypeOK
  <2>2. OnlyMoves(p) /\ ProcOK(p)'
    <3>1. CASE call[p].want = Plain
      BY <1>1, <1>3, <2>1, <3>1, PlainMoves
    <3>2. CASE call[p].want # Plain
      BY <1>1, <1>3, <2>1, <3>2, WantsMode, CallMoves DEF Points, Syncing
    <3> QED BY <3>1, <3>2
  <2> QED BY <1>1, <2>2, TypeMove DEF TypeInv, TypeOK
<1>4. CASE call[p].mode = call[p].want /\ call[p].op # "prompt"
  <2>1. Return(p)
    BY <1>4 DEF WriteSession
  <2> QED BY <1>1, <2>1, ReturnMoves, TypeMove DEF TypeInv, TypeOK
<1> QED BY <1>2, <1>3, <1>4

LEMMA TypeUpdate ==
  ASSUME TypeInv, NEW p \in Procs, Load(p) \/ Store(p)
  PROVE  TypeInv'
<1>1. /\ pc[p] \in {"loading", "storing"} /\ call[p] \in Call /\ call[p].want \in Modes
      /\ UNCHANGED <<root, session, history>>
  BY WantsMode DEF Load, Store, TypeInv, TypeOK
<1>2. active' \subseteq Modes
  BY <1>1 DEF Load, Store, TypeInv, TypeOK
<1>3. CASE Return(p)
  BY <1>1, <1>2, <1>3, ReturnMoves, TypeMove DEF TypeInv, TypeOK, history
<1>4. CASE Load(p) /\ ~Return(p)
  <2> DEFINE on == call[p].want \in active /\ call[p].op = "update"
             c == [call[p] EXCEPT !.mode = call[p].want, !.on = on]
  <2>1. c \in Call /\ c.op = call[p].op /\ c.want = call[p].want /\ c.mode \in Modes
    BY <1>1 DEF Call, Listable
  <2>2. pc' = [pc EXCEPT ![p] = "storing"] /\ call' = [call EXCEPT ![p] = c]
    BY <1>4 DEF Load, TypeInv, TypeOK
  <2> HIDE DEF c
  <2>3. OnlyMoves(p) /\ ProcOK(p)'
    BY <1>1, <2>1, <2>2, CallMoves DEF Points
  <2> QED BY <1>1, <1>2, <2>3, TypeMove DEF TypeInv, TypeOK, history
<1>5. CASE Store(p) /\ ~Return(p)
  <2>1. /\ pc' = [pc EXCEPT ![p] = "reading"] /\ call' = [call EXCEPT ![p] = call[p]]
        /\ pc[p] = "storing"
    BY <1>5 DEF Store, TypeInv, TypeOK
  <2>2. call[p].mode \in Modes
    BY <1>1, <2>1, PlainIsNoMode DEF TypeInv, CallOK
  <2>3. OnlyMoves(p) /\ ProcOK(p)'
    BY <1>1, <2>1, <2>2, CallMoves DEF Points
  <2> QED BY <1>1, <1>2, <2>3, TypeMove DEF TypeInv, TypeOK, history
<1> QED BY <1>3, <1>4, <1>5

LEMMA TypeClear ==
  ASSUME TypeInv, NEW p \in Procs, Clear(p)
  PROVE  TypeInv'
<1> DEFINE c == [call[p] EXCEPT !.mode = call[p].want]
<1>1. /\ pc[p] = "clearing" /\ call[p] \in Call /\ call[p].want \in Modes
      /\ active' \subseteq Modes
      /\ UNCHANGED <<root, session, history>>
  BY WantsMode DEF Clear, TypeInv, TypeOK
<1>2. c \in Call /\ c.op = call[p].op /\ c.want = call[p].want /\ c.mode \in Modes
  BY <1>1 DEF Call, Listable
<1>3. \/ Return(p)
      \/ pc' = [pc EXCEPT ![p] = "reading"] /\ call' = [call EXCEPT ![p] = c]
  BY DEF Clear, TypeInv, TypeOK
<1> HIDE DEF c
<1>4. OnlyMoves(p) /\ ProcOK(p)'
  BY <1>1, <1>2, <1>3, CallMoves, ReturnMoves DEF Points
<1> QED BY <1>1, <1>4, TypeMove DEF TypeInv, TypeOK, history

LEMMA TypeKill ==
  ASSUME TypeInv, NEW p \in Procs, Kill(p)
  PROVE  TypeInv'
<1>1. /\ Return(p) /\ disturbed' \in BOOLEAN
      /\ UNCHANGED <<active, alone, ops, dropped, putBack, late>>
      /\ root' \subseteq Listable /\ session' \subseteq Listable
  BY DEF Kill, TypeInv, TypeOK
<1>2. kills' \in 0..MaxKills
  BY ModesAssumption DEF Kill, TypeInv, TypeOK
<1> QED BY <1>1, <1>2, ReturnMoves, TypeMove DEF TypeInv, TypeOK

LEMMA TypeStep == TypeInv /\ [Next]_vars => TypeInv'
<1> SUFFICES ASSUME TypeInv, [Next]_vars PROVE TypeInv'
  OBVIOUS
<1>1. CASE UNCHANGED vars
  BY <1>1 DEF vars, TypeInv, TypeOK, CallOK
<1>2. ASSUME NEW p \in Procs, NEW op \in Does[p], NEW m \in About(op), Begin(p, op, m)
      PROVE  TypeInv'
  BY <1>2, TypeBegin
<1>3. ASSUME NEW p \in Procs, Step(p) \/ Kill(p)
      PROVE  TypeInv'
  BY <1>3, TypePeek, TypeDecide, TypeComplete, TypeActivate, TypeSeed, TypeInterview,
     TypeReadRoot, TypeCheck, TypeWriteRoot, TypeWriteSession, TypeUpdate,
     TypeClear, TypeKill DEF Step
<1> QED BY <1>1, <1>2, <1>3 DEF Next, Finished

LEMMA TypeInvariant == Spec => []TypeInv
BY TypeInit, TypeStep, PTL DEF Spec

(* The types hold for any processes, modes and bounds, however the         *)
(* operations interleave and wherever they are killed; in particular only  *)
(* a prompt comes to the step that ends the interview.                     *)
THEOREM ModesTypes == Spec => []TypeOK
<1>1. TypeInv => TypeOK
  BY DEF TypeInv
<1> QED BY <1>1, TypeInvariant, PTL

-----------------------------------------------------------------------------
(* An undisturbed clear or cancel of a listed mode: how far it has come.   *)
Healing(p) ==
  /\ alone[p] /\ pc[p] # "idle"
  /\ call[p].op \in {"clear", "cancel"} /\ call[p].want \in Canonical

HealOK(p) ==
  LET m == call[p].want IN
  Healing(p) =>
    /\ pc[p] \in {"clearing", "loading", "storing"} \cup Syncing
    /\ pc[p] = "loading" => call[p].op = "cancel"
    /\ pc[p] # "loading" => call[p].on = FALSE
    /\ pc[p] \in {"storing"} \cup Syncing => call[p].mode = m
    /\ pc[p] \in Syncing => m \notin active
    /\ pc[p] \in {"rooting", "listing"} => m \notin call[p].root \cup call[p].session
    /\ pc[p] = "listing" => m \notin root

AloneOK ==
  \A p, q \in Procs : alone[p] /\ pc[p] # "idle" /\ q # p => pc[q] = "idle"

HealInv == TypeInv /\ AloneOK /\ \A p \in Procs : HealOK(p)

LEMMA HealInit == Init => HealInv
BY TypeInit DEF Init, HealInv, AloneOK, HealOK, Healing

LEMMA HealBegin ==
  ASSUME HealInv, NEW p \in Procs, NEW op \in Does[p], NEW m \in About(op), Begin(p, op, m)
  PROVE  AloneOK' /\ \A q \in Procs : HealOK(q)'
<1> DEFINE others == {q \in Procs \ {p} : pc[q] # "idle"}
           c == [NoCall EXCEPT !.op = op, !.want = m]
<1>1. /\ pc[p] = "idle" /\ op \in Ops /\ call' = [call EXCEPT ![p] = c]
      /\ alone' = [q \in Procs |-> IF q = p THEN others = {} ELSE
                                   IF q \in others THEN FALSE ELSE alone[q]]
      /\ pc \in [Procs -> Points] /\ call \in [Procs -> Call]
  BY ModesAssumption DEF Begin, Goto, HealInv, TypeInv, TypeOK
<1>2. \A q \in Procs \ {p} : pc'[q] = pc[q] /\ call'[q] = call[q]
  BY <1>1 DEF Begin, Goto
<1>3. AloneOK'
  <2> SUFFICES ASSUME NEW a \in Procs, NEW b \in Procs,
                      alone'[a], pc'[a] # "idle", b # a
               PROVE  pc'[b] = "idle"
    BY DEF AloneOK
  <2>1. a = p
    BY <1>1, <1>2
  <2>2. others = {}
    BY <1>1, <2>1
  <2> QED BY <1>2, <2>1, <2>2
<1>4. ASSUME NEW q \in Procs \ {p} PROVE HealOK(q)'
  <2>1. ~Healing(q)'
    BY <1>1, <1>2 DEF Healing
  <2> QED BY <2>1 DEF HealOK
<1>5. HealOK(p)'
  <2>1. call'[p] = c /\ c.op = op /\ c.want = m /\ c.on = FALSE
    BY <1>1 DEF NoCall
  <2> HIDE DEF c
  <2>2. CASE op = "clear"
    <3>1. pc'[p] = "clearing"
      BY <1>1, <2>2, FirstStep DEF Begin, Goto
    <3> QED BY <2>1, <2>2, <3>1 DEF HealOK, Healing, Syncing
  <2>3. CASE op = "cancel"
    <3>1. pc'[p] = "loading"
      BY <1>1, <2>3, FirstStep DEF Begin, Goto
    <3> QED BY <2>1, <2>3, <3>1 DEF HealOK, Healing, Syncing
  <2>4. CASE op \notin {"clear", "cancel"}
    BY <2>1, <2>4 DEF HealOK, Healing
  <2> QED BY <2>2, <2>3, <2>4
<1> QED BY <1>3, <1>4, <1>5

(* Steps and kills move one process.                                       *)
LEMMA StepMoves ==
  ASSUME TypeInv, NEW p \in Procs, Step(p) \/ Kill(p)
  PROVE  /\ pc[p] # "idle" /\ alone' = alone
         /\ \A q \in Procs \ {p} : pc'[q] = pc[q] /\ call'[q] = call[q]
<1> USE DEF TypeInv, TypeOK, Return, Goto, history
<1>0. CASE Peek(p) \/ Replace(p)
  BY <1>0 DEF Peek, Replace
<1>1. CASE Decide(p) \/ Complete(p) \/ Activate(p) \/ Seed(p)
  BY <1>1 DEF Decide, Complete, Activate, Seed, Sync
<1>2. CASE Interview(p) \/ ReadRoot(p) \/ Check(p) \/ WriteRoot(p)
  BY <1>2 DEF Interview, ReadRoot, Check, WriteRoot
<1>3. CASE WriteSession(p) \/ Load(p) \/ Store(p) \/ Clear(p) \/ Kill(p)
  BY <1>3 DEF WriteSession, Load, Store, Clear, Kill
<1> QED BY <1>0, <1>1, <1>2, <1>3 DEF Step

(* What a decision does to the process that takes it.                      *)
LEMMA DecideDoes ==
  ASSUME TypeInv, NEW p \in Procs, Decide(p)
  PROVE  /\ pc[p] = "deciding" /\ UNCHANGED <<active, root, session, history>>
         /\ call[p].want # Plain
         /\ \/ pc'[p] = "idle"
            \/ \E listed \in Reads(session, p, "listing") :
                 LET current == Believed(p, listed)
                     ended == Ends(current, call[p].want)
                     prompt == call[p].op = "prompt"
                 IN  /\ Allowed(current, call[p].want)
                     /\ pc'[p] = "completing"
                     /\ call'[p].op = call[p].op /\ call'[p].want = call[p].want
                     /\ call'[p].todo = ended
                     /\ prompt => call'[p].keep = (current \ ended) \cup {call[p].want}
<1>1. /\ pc[p] = "deciding" /\ call[p] \in Call /\ call[p].want # Plain
      /\ pc \in [Procs -> Points] /\ call \in [Procs -> Call]
      /\ UNCHANGED <<active, root, session, history>>
  BY DEF Decide, TypeInv, TypeOK
<1> PICK listed \in Reads(session, p, "listing") :
      LET current == Believed(p, listed)
          want == call[p].want
          ended == Ends(current, want) IN
      IF Allowed(current, want)
      THEN /\ pc' = [pc EXCEPT ![p] = "completing"]
           /\ call' = [call EXCEPT
                ![p].todo = ended,
                ![p].keep = IF call[p].op = "prompt" THEN (current \ ended) \cup {want} ELSE {}]
      ELSE Return(p)
  BY DEF Decide
<1> DEFINE current == Believed(p, listed)
           ended == Ends(current, call[p].want)
           keep == IF call[p].op = "prompt" THEN (current \ ended) \cup {call[p].want} ELSE {}
<1>2. CASE Return(p)
  BY <1>1, <1>2 DEF Return
<1>3. CASE ~Return(p)
  <2>1. /\ Allowed(current, call[p].want) /\ pc'[p] = "completing"
        /\ call'[p] = [call[p] EXCEPT !.todo = ended, !.keep = keep]
    BY <1>1, <1>3
  <2> HIDE DEF keep
  <2>2. /\ call'[p].op = call[p].op /\ call'[p].want = call[p].want
        /\ call'[p].todo = ended /\ call'[p].keep = keep
    BY <1>1, <2>1 DEF Call
  <2> QED BY <1>1, <2>1, <2>2 DEF keep
<1> QED BY <1>2, <1>3

(* A process keeps its operation and the mode it is about to the end.      *)
LEMMA CallKept ==
  ASSUME TypeInv, NEW p \in Procs, Step(p), pc'[p] # "idle"
  PROVE  call'[p].op = call[p].op /\ call'[p].want = call[p].want
<1>1. call \in [Procs -> Call] /\ pc \in [Procs -> Points] /\ call[p] \in Call
  BY DEF TypeInv, TypeOK
<1>2. ~Return(p)
  BY <1>1 DEF Return
<1> USE <1>1, <1>2 DEF Call
<1>3. CASE Decide(p)
  BY <1>3, DecideDoes
<1>10. CASE Peek(p) \/ Replace(p)
  BY <1>10 DEF Peek, Replace
<1>4. CASE Complete(p)
  BY <1>4 DEF Complete
<1>5. CASE Activate(p) \/ Interview(p)
  BY <1>5 DEF Activate, Interview
<1>9. CASE Seed(p)
  BY <1>9 DEF Seed
<1>6. CASE ReadRoot(p)
  BY <1>6 DEF ReadRoot
<1>7. CASE Check(p)
  BY <1>7 DEF Check
<1>8. CASE WriteRoot(p) \/ WriteSession(p) \/ Load(p) \/ Store(p) \/ Clear(p)
  BY <1>8 DEF WriteRoot, WriteSession, Load, Store, Clear
<1> QED BY <1>3, <1>4, <1>5, <1>6, <1>7, <1>8, <1>9, <1>10 DEF Step

(* What the steps of an undisturbed clear or cancel do: they go on to the  *)
(* next one, and the last leaves the mode nowhere.                         *)
LEMMA HealMoves ==
  ASSUME HealInv, NEW p \in Procs, Healing(p), Step(p)
  PROVE  /\ HealOK(p)'
         /\ pc'[p] = "idle" /\ (call[p].op = "clear" \/ pc[p] # "loading")
              => call[p].want \notin active' \cup root' \cup session'
<1> DEFINE m == call[p].want
<1>1. /\ pc \in [Procs -> Points] /\ call \in [Procs -> Call] /\ call[p] \in Call
      /\ HealOK(p)
  BY DEF HealInv, TypeInv, TypeOK
<1>2. /\ pc[p] \in {"clearing", "loading", "storing"} \cup Syncing
      /\ m \in Canonical /\ call[p].op \in {"clear", "cancel"}
  BY <1>1 DEF HealOK, Healing
<1>3. CASE Clear(p)
  <2>1. /\ pc[p] = "clearing" /\ pc' = [pc EXCEPT ![p] = "reading"]
        /\ call' = [call EXCEPT ![p] = [call[p] EXCEPT !.mode = m]]
        /\ active' = active \ {m}
    BY <1>1, <1>2, <1>3 DEF Clear
  <2>2. /\ call'[p].on = call[p].on /\ call'[p].mode = m /\ call'[p].want = m
        /\ pc'[p] = "reading"
    BY <1>1, <2>1 DEF Call
  <2> QED BY <1>1, <2>1, <2>2 DEF HealOK, Healing, Syncing
<1>4. CASE Load(p)
  <2>1. pc[p] = "loading" /\ call[p].op = "cancel"
    BY <1>1, <1>4 DEF Load, HealOK
  <2>2. CASE pc'[p] = "idle"
    BY <2>1, <2>2 DEF HealOK, Healing
  <2>3. CASE pc'[p] # "idle"
    <3>1. /\ pc' = [pc EXCEPT ![p] = "storing"]
          /\ call' = [call EXCEPT ![p] = [call[p] EXCEPT !.mode = m, !.on = FALSE]]
      BY <1>1, <1>4, <2>1, <2>3 DEF Load, Return
    <3>2. /\ call'[p].on = FALSE /\ call'[p].mode = m /\ call'[p].want = m
          /\ pc'[p] = "storing"
      BY <1>1, <3>1 DEF Call
    <3> QED BY <3>2 DEF HealOK, Healing, Syncing
  <2> QED BY <2>2, <2>3
<1>5. CASE Store(p)
  <2>1. /\ pc[p] = "storing" /\ pc'[p] = "reading" /\ call' = call
        /\ call[p].on = FALSE /\ call[p].mode = m
        /\ m \notin active'
    BY <1>1, <1>2, <1>5 DEF Store, HealOK
  <2> QED BY <2>1 DEF HealOK, Healing, Syncing
<1>6. CASE ReadRoot(p)
  <2>1. /\ pc[p] = "reading" /\ pc'[p] = "checking" /\ active' = active
        /\ call[p].on = FALSE /\ call[p].mode = m /\ m \notin active
    BY <1>1, <1>6 DEF ReadRoot, Goto, HealOK, Syncing
  <2> DEFINE on == IF call[p].op = "write" /\ call[p].mode = call[p].want
                   THEN call[p].want \in active ELSE call[p].on
  <2>2. PICK listed \in Reads(root, p, "rooting") :
          call' = [call EXCEPT ![p] = [call[p] EXCEPT !.root = listed, !.on = on]]
    BY <1>1, <1>6 DEF ReadRoot
  <2>3. on = FALSE
    BY <1>2, <2>1
  <2> HIDE DEF on
  <2>4. call'[p].on = FALSE /\ call'[p].mode = m /\ call'[p].want = m
    BY <1>1, <2>1, <2>2, <2>3 DEF Call
  <2> QED BY <2>1, <2>4 DEF HealOK, Healing, Syncing
<1>7. CASE Check(p)
  <2>1. /\ pc[p] = "checking" /\ active' = active
        /\ call[p].on = FALSE /\ call[p].mode = m /\ m \notin active
    BY <1>1, <1>7 DEF Check, HealOK, Syncing
  <2>2. PICK listed \in Reads(session, p, "listing") :
          /\ pc' = [pc EXCEPT ![p] = "rooting"]
          /\ call' = [call EXCEPT ![p] = [call[p] EXCEPT
               !.root = RootList(call[p].root, listed, m, FALSE),
               !.session = List(call[p].root, listed, m, FALSE)]]
    BY <1>1, <1>7, <2>1 DEF Check
  <2>3. /\ m \notin RootList(call[p].root, listed, m, FALSE)
        /\ m \notin List(call[p].root, listed, m, FALSE)
    BY DEF RootList, List
  <2>4. /\ call'[p].on = FALSE /\ call'[p].mode = m /\ call'[p].want = m
        /\ call'[p].root = RootList(call[p].root, listed, m, FALSE)
        /\ call'[p].session = List(call[p].root, listed, m, FALSE)
        /\ pc'[p] = "rooting"
    BY <1>1, <2>1, <2>2 DEF Call
  <2> QED BY <2>1, <2>3, <2>4 DEF HealOK, Healing, Syncing
<1>8. CASE WriteRoot(p)
  <2>1. /\ pc[p] = "rooting" /\ pc'[p] = "listing" /\ active' = active /\ call' = call
        /\ call[p].on = FALSE /\ call[p].mode = m /\ m \notin active
        /\ m \notin call[p].root \cup call[p].session
        /\ root' = call[p].root
    BY <1>1, <1>2, <1>8 DEF WriteRoot, Goto, HealOK, Syncing
  <2> QED BY <2>1 DEF HealOK, Healing, Syncing
<1>9. CASE WriteSession(p)
  <2>1. /\ pc[p] = "listing" /\ call[p].mode = m /\ m \notin active
        /\ m \notin call[p].session /\ m \notin root
    BY <1>1, <1>9 DEF WriteSession, HealOK, Syncing
  <2>2. /\ active' = active /\ root' = root /\ session' = call[p].session
        /\ pc'[p] = "idle"
    BY <1>1, <1>2, <1>9, <2>1 DEF WriteSession, Return
  <2> QED BY <2>1, <2>2 DEF HealOK, Healing
<1> QED
  BY <1>2, <1>3, <1>4, <1>5, <1>6, <1>7, <1>8, <1>9
  DEF Step, Peek, Replace, Decide, Complete, Activate, Seed, Interview, Goto, Syncing

LEMMA HealStep == HealInv /\ [Next]_vars => HealInv'
<1> SUFFICES ASSUME HealInv, [Next]_vars
             PROVE  AloneOK' /\ \A q \in Procs : HealOK(q)'
  BY TypeStep DEF HealInv
<1>1. CASE UNCHANGED vars
  BY <1>1 DEF vars, HealInv, AloneOK, HealOK, Healing
<1>2. ASSUME NEW p \in Procs, NEW op \in Does[p], NEW m \in About(op), Begin(p, op, m)
      PROVE  AloneOK' /\ \A q \in Procs : HealOK(q)'
  BY <1>2, HealBegin
<1>3. ASSUME NEW p \in Procs, Step(p) \/ Kill(p)
      PROVE  AloneOK' /\ \A q \in Procs : HealOK(q)'
  <2>1. /\ pc[p] # "idle" /\ alone' = alone /\ AloneOK /\ TypeInv
        /\ \A q \in Procs \ {p} : pc'[q] = pc[q] /\ call'[q] = call[q]
    BY <1>3, StepMoves DEF HealInv
  <2>2. AloneOK'
    BY <2>1 DEF AloneOK
  <2>3. ASSUME NEW q \in Procs \ {p} PROVE HealOK(q)'
    <3>1. ~Healing(q)'
      BY <2>1 DEF Healing, AloneOK
    <3> QED BY <3>1 DEF HealOK
  <2>4. HealOK(p)'
    <3>1. CASE Kill(p)
      <4>1. pc'[p] = "idle"
        BY <2>1, <3>1, ReturnMoves DEF Kill
      <4> QED BY <4>1 DEF HealOK, Healing
    <3>2. CASE Step(p) /\ Healing(p)
      BY <3>2, HealMoves
    <3>3. CASE Step(p) /\ ~Healing(p)
      <4>1. pc'[p] # "idle" => call'[p].op = call[p].op /\ call'[p].want = call[p].want
        BY <2>1, <3>3, CallKept
      <4>2. ~Healing(p)'
        BY <2>1, <3>3, <4>1 DEF Healing
      <4> QED BY <4>2 DEF HealOK
    <3> QED BY <1>3, <3>1, <3>2, <3>3
  <2> QED BY <2>2, <2>3, <2>4
<1> QED BY <1>1, <1>2, <1>3 DEF Next, Finished

(* Whatever overlapping and killed operations have left behind, a clear or *)
(* a cancel that runs alone removes every trace of its mode.               *)
THEOREM ClearsHeal == Spec => ClearHeals
<1> DEFINE Heals ==
      \A p \in Procs :
       LET m == call[p].want IN
       /\ pc[p] # "idle" /\ pc'[p] = "idle" /\ alone[p] /\ kills' = kills
       /\ m \in Canonical
       /\ call[p].op = "clear" \/ (call[p].op = "cancel" /\ pc[p] # "loading")
       => m \notin active' \cup root' \cup session'
<1>1. HealInv /\ [Next]_vars => [Heals]_vars
  <2> SUFFICES ASSUME HealInv, Next, NEW p \in Procs,
                      Healing(p), pc'[p] = "idle", kills' = kills,
                      call[p].op = "clear" \/ pc[p] # "loading"
               PROVE  call[p].want \notin active' \cup root' \cup session'
    BY DEF Healing
  <2>1. CASE \E q \in Procs : \E op \in Does[q] : \E m \in About(op) : Begin(q, op, m)
    BY <2>1 DEF Begin, Goto, Healing, HealInv, TypeInv, TypeOK, Points
  <2>2. CASE Finished
    BY <2>2 DEF Finished, vars, Healing
  <2>3. ASSUME NEW q \in Procs, Kill(q) PROVE FALSE
    BY <2>3, ModesAssumption DEF Kill, HealInv, TypeInv, TypeOK
  <2>4. ASSUME NEW q \in Procs, Step(q) PROVE q = p
    BY <2>4, StepMoves DEF HealInv, AloneOK, Healing
  <2> QED BY <2>1, <2>2, <2>3, <2>4, HealMoves DEF Next
<1>2. Spec => []HealInv
  BY HealInit, HealStep, PTL DEF Spec
<1> QED BY <1>1, <1>2, PTL DEF Spec, ClearHeals

-----------------------------------------------------------------------------
(* What each step of a start does to the process that takes it.            *)
LEMMA PeekDoes ==
  ASSUME TypeInv, NEW p \in Procs
  PROVE  /\ Peek(p) =>
              /\ pc[p] = "peeking" /\ pc'[p] = "deciding"
              /\ UNCHANGED <<active, root, session, history>>
              /\ call'[p].op = call[p].op /\ call'[p].want = call[p].want
              /\ call'[p].todo = call[p].todo
              /\ call'[p].before \in Reads(root, p, "rooting")
         /\ Replace(p) =>
              /\ pc[p] = "deciding" /\ pc'[p] = "rooting"
              /\ UNCHANGED <<active, root, session, history>>
              /\ call[p].want = Plain /\ call[p].op = "prompt"
              /\ call'[p].op = call[p].op /\ call'[p].want = call[p].want
              /\ call'[p].todo = call[p].todo /\ call'[p].mode = Plain
              /\ call'[p].root = call[p].before /\ call'[p].session = {Plain}
<1>1. /\ call[p] \in Call
      /\ pc \in [Procs -> Points] /\ call \in [Procs -> Call]
  BY DEF TypeInv, TypeOK
<1>2. ASSUME Peek(p)
      PROVE  /\ call'[p].op = call[p].op /\ call'[p].want = call[p].want
             /\ call'[p].todo = call[p].todo
             /\ call'[p].before \in Reads(root, p, "rooting")
  <2>1. PICK before \in Reads(root, p, "rooting") :
          call'[p] = [call[p] EXCEPT !.before = before]
    BY <1>1, <1>2 DEF Peek
  <2> QED BY <1>1, <2>1 DEF Call
<1>3. ASSUME Replace(p)
      PROVE  /\ call'[p].op = call[p].op /\ call'[p].want = call[p].want
             /\ call'[p].todo = call[p].todo /\ call'[p].mode = Plain
             /\ call'[p].root = call[p].before /\ call'[p].session = {Plain}
  <2>1. call'[p] = [call[p] EXCEPT !.mode = Plain, !.on = TRUE,
                                   !.root = call[p].before, !.session = {Plain}]
    BY <1>1, <1>3 DEF Replace
  <2> QED BY <1>1, <2>1 DEF Call
<1>4. Replace(p) => call[p].want = Plain /\ call[p].op = "prompt"
  BY DEF Replace, TypeInv, CallOK
<1>5. Peek(p) => /\ pc[p] = "peeking" /\ pc'[p] = "deciding"
                 /\ UNCHANGED <<active, root, session, history>>
  BY <1>1 DEF Peek, Goto
<1>6. Replace(p) => /\ pc[p] = "deciding" /\ pc'[p] = "rooting"
                    /\ UNCHANGED <<active, root, session, history>>
  BY <1>1 DEF Replace, Goto
<1> QED BY <1>2, <1>3, <1>4, <1>5, <1>6

(* The fields of the call that the steps after the decision work with.     *)
Goes(p) ==
  /\ call'[p].op = call[p].op /\ call'[p].want = call[p].want
  /\ call'[p].keep = call[p].keep /\ call'[p].before = call[p].before

LEMMA CompleteDoes ==
  ASSUME TypeInv, NEW p \in Procs, Complete(p)
  PROVE  /\ pc[p] = "completing" /\ UNCHANGED <<root, session, history>>
         /\ \/ pc'[p] = "idle" /\ active' = active
            \/ \E m \in call[p].todo :
                 /\ active' = active \ {m}
                 /\ pc'[p] = IF m \in Canonical THEN "reading" ELSE "completing"
                 /\ Goes(p)
                 /\ call'[p].todo = call[p].todo \ {m}
                 /\ call'[p].mode = m /\ call'[p].on = FALSE
<1>1. /\ pc[p] = "completing" /\ call[p] \in Call
      /\ pc \in [Procs -> Points] /\ call \in [Procs -> Call]
      /\ UNCHANGED <<root, session, history>>
  BY DEF Complete, TypeInv, TypeOK
<1> PICK m \in call[p].todo :
      \/ /\ active' = active \ {m}
         /\ Sync(p, m, "completing")
         /\ call' = [call EXCEPT ![p].todo = @ \ {m}, ![p].mode = m, ![p].on = FALSE]
      \/ Return(p) /\ UNCHANGED active
  BY DEF Complete
<1>2. CASE Return(p) /\ UNCHANGED active
  BY <1>1, <1>2 DEF Return
<1>3. CASE /\ active' = active \ {m}
           /\ Sync(p, m, "completing")
           /\ call' = [call EXCEPT ![p].todo = @ \ {m}, ![p].mode = m, ![p].on = FALSE]
  <2>1. call'[p] = [call[p] EXCEPT !.todo = @ \ {m}, !.mode = m, !.on = FALSE]
    BY <1>1, <1>3
  <2>2. /\ Goes(p) /\ call'[p].todo = call[p].todo \ {m}
        /\ call'[p].mode = m /\ call'[p].on = FALSE
    BY <1>1, <2>1 DEF Call, Goes
  <2>3. pc'[p] = IF m \in Canonical THEN "reading" ELSE "completing"
    BY <1>1, <1>3 DEF Sync
  <2> QED BY <1>1, <1>3, <2>2, <2>3
<1> QED BY <1>2, <1>3

LEMMA ActivateDoes ==
  ASSUME TypeInv, NEW p \in Procs, Activate(p)
  PROVE  LET m == call[p].want IN
         /\ pc[p] = "completing" /\ call[p].todo = {} /\ call[p].op # "prompt"
         /\ UNCHANGED <<root, session, history>> /\ active' = active \cup {m}
         /\ IF m \in Canonical
            THEN /\ pc'[p] = "reading" /\ Goes(p)
                 /\ call'[p].todo = {} /\ call'[p].mode = m /\ call'[p].on = TRUE
            ELSE pc'[p] = "idle"
<1>1. /\ call[p] \in Call
      /\ pc \in [Procs -> Points] /\ call \in [Procs -> Call]
  BY DEF TypeInv, TypeOK
<1>2. CASE call[p].want \in Canonical
  <2>1. call'[p] = [call[p] EXCEPT !.mode = call[p].want, !.on = TRUE]
    BY <1>1, <1>2 DEF Activate
  <2>2. /\ Goes(p) /\ call'[p].todo = call[p].todo
        /\ call'[p].mode = call[p].want /\ call'[p].on = TRUE
    BY <1>1, <2>1 DEF Call, Goes
  <2> QED BY <1>1, <1>2, <2>2 DEF Activate
<1>3. CASE call[p].want \notin Canonical
  BY <1>1, <1>3 DEF Activate, Return
<1> QED BY <1>2, <1>3

LEMMA SeedDoes ==
  ASSUME TypeInv, NEW p \in Procs, Seed(p)
  PROVE  /\ pc[p] \in {"completing", "seeding"}
         /\ call[p].todo = {} /\ call[p].op = "prompt"
         /\ UNCHANGED <<root, session, history>>
         /\ call'[p].op = call[p].op /\ call'[p].want = call[p].want
         /\ call'[p].todo = {} /\ call'[p].mode = call[p].want
         /\ call'[p].session = IF pc[p] = "completing" THEN call[p].keep
                               ELSE call[p].session
         /\ \E m \in call[p].keep :
              /\ active' = active \cup {m}
              /\ call'[p].keep = call[p].keep \ {m}
              /\ pc'[p] = IF call[p].keep = {m} THEN "rooting" ELSE "seeding"
<1>1. /\ call[p] \in Call
      /\ pc \in [Procs -> Points] /\ call \in [Procs -> Call]
  BY DEF TypeInv, TypeOK
<1> PICK m \in call[p].keep :
      /\ active' = active \cup {m}
      /\ pc' = [pc EXCEPT ![p] = IF call[p].keep = {m} THEN "rooting" ELSE "seeding"]
      /\ call' = [call EXCEPT
           ![p].keep = @ \ {m}, ![p].mode = call[p].want, ![p].on = TRUE,
           ![p].root = call[p].before,
           ![p].session = IF pc[p] = "completing" THEN call[p].keep ELSE @]
  BY DEF Seed
<1> DEFINE list == IF pc[p] = "completing" THEN call[p].keep ELSE call[p].session
<1>2. call'[p] = [call[p] EXCEPT !.keep = call[p].keep \ {m}, !.mode = call[p].want,
                                 !.on = TRUE, !.root = call[p].before, !.session = list]
  BY <1>1
<1> HIDE DEF list
<1>3. /\ call'[p].op = call[p].op /\ call'[p].want = call[p].want
      /\ call'[p].todo = call[p].todo /\ call'[p].mode = call[p].want
      /\ call'[p].keep = call[p].keep \ {m} /\ call'[p].session = list
  BY <1>1, <1>2 DEF Call
<1>4. pc'[p] = IF call[p].keep = {m} THEN "rooting" ELSE "seeding"
  BY <1>1
<1> QED BY <1>3, <1>4 DEF Seed, list

(* And what the steps of bringing the lists up to date do.                 *)
LEMMA ReadRootDoes ==
  ASSUME TypeInv, NEW p \in Procs, ReadRoot(p)
  PROVE  /\ pc[p] = "reading" /\ pc'[p] = "checking"
         /\ UNCHANGED <<active, root, session, history>>
         /\ Goes(p) /\ call'[p].todo = call[p].todo /\ call'[p].mode = call[p].mode
         /\ call'[p].root \in Reads(root, p, "rooting")
         /\ call'[p].on = IF call[p].op = "write" /\ call[p].mode = call[p].want
                          THEN call[p].want \in active ELSE call[p].on
<1>1. /\ call[p] \in Call
      /\ pc \in [Procs -> Points] /\ call \in [Procs -> Call]
  BY DEF TypeInv, TypeOK
<1> DEFINE on == IF call[p].op = "write" /\ call[p].mode = call[p].want
                 THEN call[p].want \in active ELSE call[p].on
<1>2. PICK listed \in Reads(root, p, "rooting") :
        call'[p] = [call[p] EXCEPT !.root = listed, !.on = on]
  BY <1>1 DEF ReadRoot
<1> HIDE DEF on
<1>3. /\ Goes(p) /\ call'[p].todo = call[p].todo /\ call'[p].mode = call[p].mode
      /\ call'[p].root = listed /\ call'[p].on = on
  BY <1>1, <1>2 DEF Call, Goes
<1> QED BY <1>1, <1>3 DEF ReadRoot, Goto, on

LEMMA CheckDoes ==
  ASSUME TypeInv, NEW p \in Procs, Check(p)
  PROVE  LET m == call[p].mode
             on == call[p].on IN
         /\ pc[p] = "checking"
         /\ UNCHANGED <<active, root, session, alone, ops, kills, disturbed, dropped, putBack>>
         /\ \E listed \in Reads(session, p, "listing") :
              IF on /\ ~Allowed(call[p].root \cup listed, m)
              THEN pc'[p] = "idle" /\ late' = TRUE
              ELSE /\ pc'[p] = "rooting" /\ late' = late
                   /\ Goes(p) /\ call'[p].todo = call[p].todo
                   /\ call'[p].mode = m /\ call'[p].on = on
                   /\ call'[p].root = RootList(call[p].root, listed, m, on)
                   /\ call'[p].session = List(call[p].root, listed, m, on)
<1>1. /\ call[p] \in Call /\ late \in BOOLEAN
      /\ pc \in [Procs -> Points] /\ call \in [Procs -> Call]
  BY DEF TypeInv, TypeOK
<1> DEFINE m == call[p].mode
           on == call[p].on
<1> PICK listed \in Reads(session, p, "listing") :
      LET denied == on /\ ~Allowed(call[p].root \cup listed, m) IN
      /\ late' = (late \/ denied)
      /\ IF denied THEN Return(p)
         ELSE /\ pc' = [pc EXCEPT ![p] = "rooting"]
              /\ call' = [call EXCEPT
                   ![p].root = RootList(call[p].root, listed, m, on),
                   ![p].session = List(call[p].root, listed, m, on)]
  BY DEF Check
<1> DEFINE atRoot == RootList(call[p].root, listed, m, on)
           all == List(call[p].root, listed, m, on)
           denied == on /\ ~Allowed(call[p].root \cup listed, m)
<1>2. CASE denied
  BY <1>1, <1>2 DEF Return, Check
<1>3. CASE ~denied
  <2>1. /\ late' = late /\ pc'[p] = "rooting"
        /\ call'[p] = [call[p] EXCEPT !.root = atRoot, !.session = all]
    BY <1>1, <1>3
  <2> HIDE DEF atRoot, all
  <2>2. /\ Goes(p) /\ call'[p].todo = call[p].todo
        /\ call'[p].mode = m /\ call'[p].on = on
        /\ call'[p].root = atRoot /\ call'[p].session = all
    BY <1>1, <2>1 DEF Call, Goes
  <2> QED BY <1>1, <1>3, <2>1, <2>2 DEF Check, atRoot, all
<1> QED BY <1>2, <1>3

LEMMA WriteSessionDoes ==
  ASSUME TypeInv, NEW p \in Procs, WriteSession(p)
  PROVE  /\ pc[p] = "listing" /\ session' = call[p].session
         /\ UNCHANGED <<active, root, alone, ops, kills, disturbed, putBack, late>>
         /\ dropped' = IF call[p].want = Plain THEN dropped \cup (session \cap Modes)
                       ELSE dropped
         /\ IF call[p].mode # call[p].want
            THEN /\ pc'[p] = "completing" /\ Goes(p)
                 /\ call'[p].todo = call[p].todo
            ELSE IF call[p].op = "prompt"
            THEN pc'[p] = "interviewing" /\ call' = call
            ELSE pc'[p] = "idle"
<1>1. /\ call[p] \in Call
      /\ pc \in [Procs -> Points] /\ call \in [Procs -> Call]
  BY DEF TypeInv, TypeOK
<1>2. CASE call[p].mode # call[p].want
  <2>1. call'[p] = [call[p] EXCEPT !.mode = "none", !.root = {}, !.session = {}]
    BY <1>1, <1>2 DEF WriteSession
  <2>2. Goes(p) /\ call'[p].todo = call[p].todo
    BY <1>1, <2>1 DEF Call, Goes
  <2> QED BY <1>1, <1>2, <2>2 DEF WriteSession
<1>3. CASE call[p].mode = call[p].want
  BY <1>1, <1>3 DEF WriteSession, Return
<1> QED BY <1>2, <1>3

(* The steps of the operations that do not start anything.                 *)
LEMMA OtherDoes ==
  ASSUME TypeInv, NEW p \in Procs
  PROVE  /\ Load(p) =>
              /\ pc[p] = "loading" /\ UNCHANGED <<active, root, session, history>>
              /\ \/ pc'[p] = "idle"
                 \/ /\ pc'[p] = "storing" /\ Goes(p)
                    /\ call'[p].mode = call[p].want
                    /\ call'[p].on => call[p].want \in active
         /\ Store(p) =>
              /\ pc[p] = "storing" /\ UNCHANGED <<root, session, history>>
              /\ active' = (active \ {call[p].want})
                             \cup (IF call[p].on THEN {call[p].want} ELSE {})
              /\ IF call[p].want \in Canonical THEN pc'[p] = "reading" /\ call' = call
                 ELSE pc'[p] = "idle"
         /\ Clear(p) =>
              /\ pc[p] = "clearing" /\ UNCHANGED <<root, session, history>>
              /\ active' = active \ {call[p].want}
              /\ IF call[p].want \in Canonical
                 THEN /\ pc'[p] = "reading" /\ Goes(p)
                      /\ call'[p].mode = call[p].want /\ call'[p].on = call[p].on
                 ELSE pc'[p] = "idle"
<1>1. /\ call[p] \in Call
      /\ pc \in [Procs -> Points] /\ call \in [Procs -> Call]
  BY DEF TypeInv, TypeOK
<1>2. ASSUME Load(p), ~Return(p)
      PROVE  /\ pc'[p] = "storing" /\ Goes(p) /\ call'[p].mode = call[p].want
             /\ call'[p].on => call[p].want \in active
  <2> DEFINE on == call[p].want \in active /\ call[p].op = "update"
  <2>1. /\ pc'[p] = "storing"
        /\ call'[p] = [call[p] EXCEPT !.mode = call[p].want, !.on = on]
    BY <1>1, <1>2 DEF Load
  <2> HIDE DEF on
  <2>2. Goes(p) /\ call'[p].mode = call[p].want /\ call'[p].on = on
    BY <1>1, <2>1 DEF Call, Goes
  <2> QED BY <2>1, <2>2 DEF on
<1>3. Return(p) => pc'[p] = "idle"
  BY <1>1 DEF Return
<1>4. ASSUME Clear(p), call[p].want \in Canonical
      PROVE  /\ pc'[p] = "reading" /\ Goes(p)
             /\ call'[p].mode = call[p].want /\ call'[p].on = call[p].on
  <2>1. call'[p] = [call[p] EXCEPT !.mode = call[p].want]
    BY <1>1, <1>4 DEF Clear
  <2> QED BY <1>1, <1>4, <2>1 DEF Clear, Call, Goes
<1>5. Load(p) => pc[p] = "loading" /\ UNCHANGED <<active, root, session, history>>
  BY DEF Load
<1>6. Store(p) =>
        /\ pc[p] = "storing" /\ UNCHANGED <<root, session, history>>
        /\ active' = (active \ {call[p].want})
                       \cup (IF call[p].on THEN {call[p].want} ELSE {})
        /\ IF call[p].want \in Canonical THEN pc'[p] = "reading" /\ call' = call
           ELSE pc'[p] = "idle"
  BY <1>1, <1>3 DEF Store
<1>7. Clear(p) =>
        /\ pc[p] = "clearing" /\ UNCHANGED <<root, session, history>>
        /\ active' = active \ {call[p].want}
        /\ call[p].want \notin Canonical => pc'[p] = "idle"
  BY <1>3 DEF Clear
<1> QED BY <1>2, <1>3, <1>4, <1>5, <1>6, <1>7

LEMMA BeginDoes ==
  ASSUME TypeInv, NEW p \in Procs, NEW op \in Does[p], NEW m \in About(op), Begin(p, op, m)
  PROVE  /\ UNCHANGED <<active, root, session, kills, dropped, putBack, late>>
         /\ call'[p].op = op /\ call'[p].want = m /\ call'[p].on = FALSE
         /\ call'[p].todo = {}
         /\ m = Plain => op = "prompt"
         /\ \/ op = "prompt" /\ pc'[p] = "peeking"
            \/ op \in {"start", "write"} /\ pc'[p] = "deciding"
            \/ op = "clear" /\ pc'[p] = "clearing"
            \/ op \in {"cancel", "update"} /\ pc'[p] = "loading"
         /\ \A q \in Procs \ {p} : pc'[q] = pc[q] /\ call'[q] = call[q]
         /\ disturbed' = (disturbed \/ \E q \in Procs \ {p} : pc[q] # "idle")
         /\ pc[p] = "idle"
<1>1. /\ op \in Ops /\ pc[p] = "idle"
      /\ pc \in [Procs -> Points] /\ call \in [Procs -> Call]
  BY ModesAssumption DEF TypeInv, TypeOK, Begin, Goto
<1>2. call'[p] = [NoCall EXCEPT !.op = op, !.want = m]
  BY <1>1 DEF Begin
<1>3. /\ call'[p].op = op /\ call'[p].want = m /\ call'[p].on = FALSE
      /\ call'[p].todo = {}
  BY <1>2 DEF NoCall
<1>4. pc'[p] = CASE op = "prompt" -> "peeking"
                 [] op \in {"start", "write"} -> "deciding"
                 [] op = "clear" -> "clearing"
                 [] OTHER -> "loading"
  BY <1>1 DEF Begin, Goto
<1>5. /\ m = Plain => op = "prompt"
      /\ \/ op = "prompt" /\ pc'[p] = "peeking"
         \/ op \in {"start", "write"} /\ pc'[p] = "deciding"
         \/ op = "clear" /\ pc'[p] = "clearing"
         \/ op \in {"cancel", "update"} /\ pc'[p] = "loading"
  BY <1>1, <1>4, FirstStep, PlainIsNoMode DEF Ops, Starting, About
<1>6. \A q \in Procs \ {p} : pc'[q] = pc[q] /\ call'[q] = call[q]
  BY <1>1 DEF Begin, Goto
<1>7. disturbed' = (disturbed \/ \E q \in Procs \ {p} : pc[q] # "idle")
  BY DEF Begin
<1> QED BY <1>1, <1>3, <1>5, <1>6, <1>7 DEF Begin

-----------------------------------------------------------------------------
(* What a process in the middle of an operation knows about its own call,  *)
(* whatever the other processes do.                                        *)
Shape(p) ==
  LET c == call[p] IN
  /\ pc[p] \in {"peeking", "deciding", "completing", "interviewing"} => c.op \in Starting
  /\ pc[p] \in {"peeking", "deciding"} => c.todo = {}
  /\ pc[p] = "seeding" => c.op = "prompt" /\ c.mode = c.want
  /\ pc[p] \in {"clearing", "loading"} => c.on = FALSE /\ c.op \notin Starting
  /\ pc[p] = "storing" => c.mode = c.want /\ c.op \notin Starting
  /\ pc[p] \in {"reading", "checking"} => c.mode \in Canonical
  /\ pc[p] \in Syncing =>
       /\ c.mode # c.want => c.op \in Starting /\ c.on = FALSE
       /\ c.mode = c.want /\ c.op \in Starting => c.todo = {}
       /\ c.mode = c.want /\ c.op = "prompt" => pc[p] \in {"rooting", "listing"}
       /\ c.mode = c.want /\ c.op \in Starting /\ pc[p] = "reading" => c.on = TRUE
  /\ pc[p] \in {"completing"} \cup Syncing /\ c.op \in Starting =>
       \A m \in c.todo : c.want \in AutoCompletes[m]

ShapeInv == TypeInv /\ \A p \in Procs : Shape(p)

(* No mode ends itself.                                                    *)
LEMMA NoneEndsItself ==
  \A m \in Tracked : m \notin AutoCompletes[m]
<1> TAKE m \in Tracked
<1>1. CASE m = "deep-interview"
  BY <1>1 DEF AutoCompletes, Tracked
<1>2. CASE m = "ralplan"
  BY <1>2 DEF AutoCompletes, Tracked
<1>3. CASE m = "ultragoal"
  BY <1>3 DEF AutoCompletes, Tracked
<1>4. CASE m \notin {"deep-interview", "ralplan", "ultragoal"}
  BY <1>4 DEF AutoCompletes, Tracked
<1> QED BY <1>1, <1>2, <1>3, <1>4

LEMMA ShapeMoves ==
  ASSUME ShapeInv, NEW p \in Procs, Step(p)
  PROVE  Shape(p)'
<1>1. /\ TypeInv /\ Shape(p) /\ call[p] \in Call /\ call[p].todo \subseteq Modes
  BY DEF ShapeInv, TypeInv, TypeOK, Call
<1> USE <1>1 DEF Syncing
<1>14. CASE Peek(p)
  BY <1>14, PeekDoes DEF Shape
<1>15. CASE Replace(p)
  BY <1>15, PeekDoes DEF Shape, Starting
<1>2. CASE Decide(p)
  BY <1>2, DecideDoes DEF Shape, Ends
<1>3. CASE Complete(p)
  <2>1. CASE pc'[p] = "idle"
    BY <2>1 DEF Shape
  <2>2. CASE pc'[p] # "idle"
    <3>1. PICK m \in call[p].todo :
            /\ pc'[p] = IF m \in Canonical THEN "reading" ELSE "completing"
            /\ Goes(p)
            /\ call'[p].todo = call[p].todo \ {m}
            /\ call'[p].mode = m /\ call'[p].on = FALSE
      BY <1>3, <2>2, CompleteDoes
    <3>2. /\ call[p].op \in Starting
          /\ \A n \in call[p].todo : call[p].want \in AutoCompletes[n]
      BY <1>3, CompleteDoes DEF Shape
    <3>3. m # call[p].want
      BY <3>2, NoneEndsItself, ModesAssumption
    <3> QED BY <3>1, <3>2, <3>3 DEF Shape, Goes
  <2> QED BY <2>1, <2>2
<1>4. CASE Activate(p)
  BY <1>4, ActivateDoes DEF Shape, Goes
<1>5. CASE Seed(p)
  BY <1>5, SeedDoes DEF Shape
<1>6. CASE ReadRoot(p)
  BY <1>6, ReadRootDoes DEF Shape, Goes
<1>7. CASE Check(p)
  BY <1>7, CheckDoes DEF Shape, Goes
<1>8. CASE WriteRoot(p)
  <2>1. pc[p] = "rooting" /\ pc'[p] = "listing" /\ call' = call
    BY <1>8 DEF WriteRoot, Goto, TypeInv, TypeOK
  <2> QED BY <2>1 DEF Shape
<1>9. CASE WriteSession(p)
  BY <1>9, WriteSessionDoes DEF Shape, Goes, Starting
<1>10. CASE Interview(p)
  BY <1>10, ReturnMoves DEF Interview, Shape
<1>11. CASE Load(p)
  BY <1>11, OtherDoes DEF Shape, Goes
<1>12. CASE Store(p)
  BY <1>12, OtherDoes DEF Shape, Starting
<1>13. CASE Clear(p)
  BY <1>13, OtherDoes DEF Shape, Goes, Starting
<1> QED
  BY <1>2, <1>3, <1>4, <1>5, <1>6, <1>7, <1>8, <1>9, <1>10, <1>11, <1>12, <1>13,
     <1>14, <1>15
  DEF Step

LEMMA ShapeStep == ShapeInv /\ [Next]_vars => ShapeInv'
<1> SUFFICES ASSUME ShapeInv, [Next]_vars PROVE \A q \in Procs : Shape(q)'
  BY TypeStep DEF ShapeInv
<1>0. TypeInv
  BY DEF ShapeInv
<1>1. CASE UNCHANGED vars
  BY <1>1 DEF vars, ShapeInv, Shape
<1>2. ASSUME NEW p \in Procs, NEW op \in Does[p], NEW m \in About(op), Begin(p, op, m)
      PROVE  \A q \in Procs : Shape(q)'
  <2>1. Shape(p)'
    BY <1>0, <1>2, BeginDoes DEF Shape, Starting, Syncing
  <2>2. \A q \in Procs \ {p} : pc'[q] = pc[q] /\ call'[q] = call[q]
    BY <1>0, <1>2, BeginDoes
  <2>3. ASSUME NEW q \in Procs \ {p} PROVE Shape(q)'
    BY <2>2 DEF ShapeInv, Shape
  <2> QED BY <2>1, <2>3
<1>3. ASSUME NEW p \in Procs, Step(p) \/ Kill(p)
      PROVE  \A q \in Procs : Shape(q)'
  <2>1. \A q \in Procs \ {p} : pc'[q] = pc[q] /\ call'[q] = call[q]
    BY <1>0, <1>3, StepMoves
  <2>2. CASE Step(p)
    <3>1. Shape(p)'
      BY <2>2, ShapeMoves
    <3> QED BY <2>1, <3>1 DEF ShapeInv, Shape
  <2>3. CASE Kill(p)
    <3>1. pc'[p] = "idle"
      BY <1>0, <2>3, ReturnMoves DEF Kill
    <3>2. Shape(p)'
      BY <3>1 DEF Shape, Syncing
    <3> QED BY <2>1, <3>2 DEF ShapeInv, Shape
  <2> QED BY <1>3, <2>2, <2>3
<1> QED BY <1>1, <1>2, <1>3 DEF Next, Finished

LEMMA ShapeInit == Init => ShapeInv
  BY TypeInit DEF Init, ShapeInv, Shape, Syncing

-----------------------------------------------------------------------------
(* Active modes are listed, or a plain skill's prompt has dropped them.    *)
(* While one process at a time runs, an active mode that is not dropped is *)
(* in the session's list, or in the list that is about to be written       *)
(* there; a mode being switched on is the one exception, and one being     *)
(* switched off is off already.  A prompt replaces the list by one it      *)
(* worked out when it decided: every active mode is in that one, or has    *)
(* still to be ended; a plain skill's drops what is listed by then.        *)
ListedOK(p) ==
  LET c == call[p] IN
  /\ pc[p] \notin Syncing \cup {"seeding"} => Active \subseteq session \cup dropped
  /\ pc[p] \in {"reading", "checking"} =>
       IF c.on THEN c.mode \in active /\ Active \subseteq session \cup dropped \cup {c.mode}
       ELSE Active \subseteq (session \cup dropped) \ {c.mode}
  /\ pc[p] \in {"seeding", "rooting", "listing"} =>
       Active \subseteq dropped \cup (IF c.want = Plain THEN session ELSE c.session)
  /\ pc[p] = "storing" => (c.on => c.want \in active)
  /\ c.op = "prompt" =>
       /\ pc[p] = "completing" \/ (pc[p] \in Syncing /\ c.mode # c.want) =>
            c.want \in c.keep /\ Active \subseteq c.keep \cup c.todo \cup dropped
       /\ pc[p] = "seeding" => c.keep \subseteq c.session
       /\ pc[p] \in {"seeding", "rooting", "listing"} /\ c.mode = c.want =>
            c.want \in c.session
       /\ pc[p] = "interviewing" => c.want \in session

Serial == \A p, q \in Procs : p = q \/ pc[p] = "idle" \/ pc[q] = "idle"

ListedInv ==
  ~disturbed /\ ~late =>
    /\ Serial
    /\ Quiet => Active \subseteq session \cup dropped
    /\ \A p \in Procs : pc[p] # "idle" => ListedOK(p)

(* A process that runs alone reads no half-written list.                   *)
LEMMA ReadsWhole ==
  ASSUME TypeInv, Serial, NEW p \in Procs, pc[p] # "idle"
  PROVE  /\ Reads(session, p, "listing") = {session}
         /\ Reads(root, p, "rooting") = {root}
<1>1. \A q \in Procs \ {p} : pc[q] = "idle"
  BY DEF Serial
<1> QED BY <1>1 DEF Reads

LEMMA ListedMoves ==
  ASSUME ShapeInv, Serial, NEW p \in Procs, pc[p] # "idle", ListedOK(p), Step(p), ~late'
  PROVE  ListedOK(p)'
<1>1. /\ TypeInv /\ Shape(p) /\ call[p] \in Call
      /\ active \subseteq Modes
      /\ Reads(session, p, "listing") = {session}
      /\ Reads(root, p, "rooting") = {root}
  BY ReadsWhole DEF ShapeInv, TypeInv, TypeOK
<1> USE <1>1 DEF Syncing, Active
<1>14. CASE Peek(p)
  BY <1>14, PeekDoes DEF ListedOK, history
<1>15. CASE Replace(p)
  BY <1>15, PeekDoes DEF ListedOK, history
<1>2. CASE Decide(p)
  <2>0. /\ pc[p] = "deciding" /\ active' = active /\ session' = session
        /\ dropped' = dropped /\ Active \subseteq session \cup dropped
    BY <1>2, DecideDoes DEF ListedOK, history
  <2>1. CASE pc'[p] = "idle"
    BY <2>0, <2>1 DEF ListedOK
  <2>2. CASE pc'[p] # "idle"
    <3> DEFINE current == Believed(p, session)
               ended == Ends(current, call[p].want)
    <3>1. /\ pc'[p] = "completing"
          /\ call'[p].op = call[p].op /\ call'[p].want = call[p].want
          /\ call'[p].todo = ended
          /\ call[p].op = "prompt" => call'[p].keep = (current \ ended) \cup {call[p].want}
      BY <1>2, <2>2, DecideDoes
    <3>2. call[p].op = "prompt" => current = session \cap Tracked
      BY DEF Believed
    <3>3. Active \subseteq Tracked
      BY ModesAssumption
    <3> HIDE DEF current, ended
    <3>4. call[p].op = "prompt" =>
            /\ call'[p].want \in call'[p].keep
            /\ Active \subseteq call'[p].keep \cup call'[p].todo \cup dropped
      BY <2>0, <3>1, <3>2, <3>3
    <3> QED BY <2>0, <3>1, <3>4 DEF ListedOK
  <2> QED BY <2>1, <2>2
<1>3. CASE Complete(p)
  <2>0. /\ pc[p] = "completing" /\ session' = session /\ dropped' = dropped
        /\ Active \subseteq session \cup dropped
    BY <1>3, CompleteDoes DEF ListedOK, history
  <2>1. CASE pc'[p] = "idle"
    BY <1>3, <2>0, <2>1, CompleteDoes DEF ListedOK
  <2>2. CASE pc'[p] # "idle"
    <3>1. PICK m \in call[p].todo :
            /\ active' = active \ {m}
            /\ pc'[p] = IF m \in Canonical THEN "reading" ELSE "completing"
            /\ Goes(p)
            /\ call'[p].todo = call[p].todo \ {m}
            /\ call'[p].mode = m /\ call'[p].on = FALSE
      BY <1>3, <2>2, CompleteDoes
    <3> QED BY <2>0, <3>1 DEF ListedOK, Goes
  <2> QED BY <2>1, <2>2
<1>4. CASE Activate(p)
  <2>0. /\ pc[p] = "completing" /\ dropped' = dropped
        /\ Active \subseteq session \cup dropped
    BY <1>4, ActivateDoes DEF ListedOK, history
  <2> DEFINE m == call[p].want
  <2>1. active' = active \cup {m} /\ session' = session /\ call[p].op # "prompt"
    BY <1>4, ActivateDoes
  <2>2. CASE m \in Canonical
    <3>1. /\ pc'[p] = "reading" /\ call'[p].op = call[p].op
          /\ call'[p].mode = m /\ call'[p].on = TRUE
      BY <1>4, <2>2, ActivateDoes DEF Goes
    <3> QED BY <2>0, <2>1, <3>1 DEF ListedOK
  <2>3. CASE m \notin Canonical
    <3>1. pc'[p] = "idle"
      BY <1>4, <2>3, ActivateDoes
    <3> QED BY <2>0, <2>1, <2>3, <3>1 DEF ListedOK
  <2> QED BY <2>2, <2>3
<1>5. CASE Seed(p)
  <2>0. /\ pc[p] \in {"completing", "seeding"} /\ call[p].todo = {}
        /\ call[p].op = "prompt" /\ dropped' = dropped /\ call[p].want # Plain
    BY <1>5, SeedDoes, WantsMode, PlainIsNoMode DEF history
  <2> DEFINE list == IF pc[p] = "completing" THEN call[p].keep ELSE call[p].session
  <2>1. /\ Active \subseteq list \cup dropped /\ call[p].want \in list
        /\ call[p].keep \subseteq list
    <3>1. CASE pc[p] = "completing"
      BY <2>0, <3>1 DEF ListedOK
    <3>2. CASE pc[p] = "seeding"
      BY <2>0, <3>2 DEF ListedOK, Shape
    <3> QED BY <2>0, <3>1, <3>2
  <2>2. PICK m \in call[p].keep :
          /\ active' = active \cup {m}
          /\ call'[p].keep = call[p].keep \ {m}
          /\ pc'[p] = IF call[p].keep = {m} THEN "rooting" ELSE "seeding"
    BY <1>5, SeedDoes
  <2>3. /\ call'[p].op = "prompt" /\ call'[p].want = call[p].want
        /\ call'[p].mode = call[p].want /\ call'[p].session = list
    BY <1>5, SeedDoes
  <2> HIDE DEF list
  <2>4. Active' \subseteq list \cup dropped
    BY <2>1, <2>2
  <2> QED BY <2>0, <2>1, <2>2, <2>3, <2>4 DEF ListedOK
<1>6. CASE ReadRoot(p)
  <2>1. /\ pc[p] = "reading" /\ pc'[p] = "checking"
        /\ active' = active /\ session' = session /\ dropped' = dropped
        /\ Goes(p) /\ call'[p].todo = call[p].todo /\ call'[p].mode = call[p].mode
    BY <1>6, ReadRootDoes DEF history
  <2>2. call'[p].on = call[p].on
    BY <1>6, <2>1, ReadRootDoes DEF ListedOK, Shape, Starting, Call
  <2> QED BY <2>1, <2>2 DEF ListedOK, Goes
<1>7. CASE Check(p)
  <2>1. /\ pc[p] = "checking" /\ pc'[p] = "rooting"
        /\ active' = active /\ session' = session /\ dropped' = dropped
        /\ Goes(p) /\ call'[p].todo = call[p].todo /\ call'[p].mode = call[p].mode
        /\ call'[p].session = List(call[p].root, session, call[p].mode, call[p].on)
    BY <1>7, CheckDoes
  <2>2. Active \subseteq dropped \cup call'[p].session
    BY <2>1 DEF ListedOK, List
  <2>3. ~(call[p].mode = call[p].want /\ call[p].op = "prompt")
    BY <2>1 DEF Shape
  <2>4. call[p].want # Plain
    BY <2>1, WantsMode, PlainIsNoMode
  <2> QED BY <2>1, <2>2, <2>3, <2>4 DEF ListedOK, Goes
<1>8. CASE WriteRoot(p)
  <2>1. /\ pc[p] = "rooting" /\ pc'[p] = "listing" /\ call' = call
        /\ active' = active /\ session' = session /\ dropped' = dropped
    BY <1>8 DEF WriteRoot, Goto, TypeInv, TypeOK
  <2> QED BY <2>1 DEF ListedOK
<1>9. CASE WriteSession(p)
  <2>0. /\ pc[p] = "listing" /\ active' = active /\ session' = call[p].session
        /\ dropped' = IF call[p].want = Plain THEN dropped \cup (session \cap Modes)
                      ELSE dropped
    BY <1>9, WriteSessionDoes
  <2>1. Active \subseteq session' \cup dropped'
    BY <2>0 DEF ListedOK
  <2>2. CASE call[p].mode # call[p].want
    <3>1. /\ pc'[p] = "completing" /\ Goes(p) /\ call'[p].todo = call[p].todo
          /\ call[p].want # Plain
      BY <1>9, <2>0, <2>2, WriteSessionDoes DEF TypeInv, CallOK
    <3> QED BY <2>0, <2>1, <2>2, <3>1 DEF ListedOK, Goes
  <2>3. CASE call[p].mode = call[p].want
    <3>1. CASE call[p].op = "prompt"
      <4>1. /\ pc'[p] = "interviewing" /\ call' = call
            /\ call[p].want \in call[p].session
        BY <1>9, <2>0, <2>3, <3>1, WriteSessionDoes DEF ListedOK
      <4> QED BY <2>0, <2>1, <4>1 DEF ListedOK
    <3>2. CASE call[p].op # "prompt"
      <4>1. pc'[p] = "idle" /\ call'[p].op = "none"
        <5>1. Return(p)
          BY <1>9, <2>3, <3>2 DEF WriteSession
        <5>2. ProcOK(p)' /\ pc'[p] = "idle"
          BY <5>1, ReturnMoves
        <5> QED BY <5>2 DEF ProcOK
      <4> QED BY <2>0, <2>1, <4>1 DEF ListedOK
    <3> QED BY <3>1, <3>2
  <2> QED BY <2>2, <2>3
<1>10. CASE Interview(p)
  <2>1. /\ pc[p] = "interviewing" /\ call[p].op = "prompt"
        /\ pc'[p] = "idle" /\ session' = session /\ dropped' = dropped
    BY <1>10, ReturnMoves DEF Interview, TypeInv, TypeOK, history
  <2>2. Active' \subseteq session \cup dropped
    BY <1>10, <2>1 DEF Interview, ListedOK
  <2>3. call'[p].op = "none"
    BY <2>1, <1>10, NoCallTyped DEF Interview, Return, TypeInv, TypeOK
  <2> QED BY <2>1, <2>2, <2>3 DEF ListedOK
<1>11. CASE Load(p)
  <2>1. /\ active' = active /\ session' = session /\ pc[p] = "loading"
        /\ call[p].op # "prompt" /\ dropped' = dropped
    BY <1>11, OtherDoes DEF Shape, Starting, history
  <2> QED BY <1>11, <2>1, OtherDoes DEF ListedOK, Goes
<1>12. CASE Store(p)
  <2>1. /\ session' = session /\ pc[p] = "storing"
        /\ call[p].op # "prompt" /\ call[p].mode = call[p].want
        /\ dropped' = dropped
    BY <1>12, OtherDoes DEF Shape, Starting, history
  <2> QED BY <1>12, <2>1, OtherDoes DEF ListedOK
<1>13. CASE Clear(p)
  <2>1. /\ session' = session /\ pc[p] = "clearing"
        /\ call[p].op # "prompt" /\ call[p].on = FALSE
        /\ dropped' = dropped
    BY <1>13, OtherDoes DEF Shape, Starting, history
  <2> QED BY <1>13, <2>1, OtherDoes DEF ListedOK, Goes
<1> QED
  BY <1>2, <1>3, <1>4, <1>5, <1>6, <1>7, <1>8, <1>9, <1>10, <1>11, <1>12, <1>13,
     <1>14, <1>15
  DEF Step

(* Operations begin alone, as long as nothing is disturbed.                *)
LEMMA BeginsAlone ==
  ASSUME TypeInv, NEW p \in Procs, NEW op \in Does[p], NEW m \in About(op),
         Begin(p, op, m), ~disturbed'
  PROVE  Quiet /\ Serial' /\ pc'[p] # "idle"
<1>1. \A q \in Procs : pc[q] = "idle"
  BY BeginDoes
<1>2. /\ \A q \in Procs \ {p} : pc'[q] = "idle"
      /\ pc'[p] # "idle"
  BY <1>1, BeginDoes
<1> QED BY <1>1, <1>2 DEF Quiet, Serial

(* While nothing is disturbed, the step of a process leaves the others     *)
(* where they are: idle.                                                   *)
LEMMA StepsAlone ==
  ASSUME TypeInv, Serial, NEW p \in Procs, Step(p)
  PROVE  /\ Serial' /\ pc[p] # "idle"
         /\ \A q \in Procs \ {p} : pc'[q] = "idle"
<1>1. pc[p] # "idle" /\ \A q \in Procs \ {p} : pc'[q] = pc[q]
  BY StepMoves
<1>2. \A q \in Procs \ {p} : pc[q] = "idle"
  BY <1>1 DEF Serial
<1> QED BY <1>1, <1>2 DEF Serial

(* What was disturbed or denied remains so.                                *)
LEMMA HistoryKept ==
  ASSUME TypeInv, [Next]_vars
  PROVE  /\ ~disturbed' => ~disturbed
         /\ ~late' => ~late
         /\ ~putBack' => ~putBack
         /\ dropped \subseteq dropped'
         /\ \A p \in Procs : Kill(p) => disturbed'
<1>1. CASE UNCHANGED vars \/ Finished
  BY <1>1, ModesAssumption DEF vars, Finished, Kill, TypeInv, TypeOK
<1>2. ASSUME NEW p \in Procs, NEW op \in Does[p], NEW m \in About(op), Begin(p, op, m)
      PROVE  (disturbed => disturbed') /\ UNCHANGED <<late, putBack, dropped>>
  BY <1>2, BeginDoes
<1>3. ASSUME NEW p \in Procs, Kill(p)
      PROVE  disturbed' /\ UNCHANGED <<late, putBack, dropped>>
  BY <1>3 DEF Kill
<1>4. ASSUME NEW p \in Procs, Step(p)
      PROVE  /\ UNCHANGED disturbed
             /\ late => late'
             /\ putBack => putBack'
             /\ dropped \subseteq dropped'
  <2>1. CASE Check(p)
    BY <2>1 DEF Check
  <2>2. CASE WriteRoot(p)
    BY <2>2 DEF WriteRoot
  <2>3. CASE WriteSession(p)
    BY <2>3 DEF WriteSession
  <2>4. CASE ~Check(p) /\ ~WriteRoot(p) /\ ~WriteSession(p)
    <3>1. UNCHANGED history
      BY <1>4, <2>4
      DEF Step, Peek, Replace, Decide, Complete, Activate, Seed, Interview, ReadRoot,
          Load, Store, Clear
    <3> QED BY <3>1 DEF history
  <2> QED BY <2>1, <2>2, <2>3, <2>4
<1>5. \A p \in Procs : Kill(p) => disturbed'
  BY DEF Kill
<1> QED BY <1>1, <1>2, <1>3, <1>4, <1>5 DEF Next

LEMMA ListedInit == Init => ListedInv
  BY DEF Init, ListedInv, Serial, Quiet, Active

LEMMA ListedStep == ShapeInv /\ ListedInv /\ [Next]_vars => ListedInv'
<1> SUFFICES ASSUME ShapeInv, ListedInv, [Next]_vars, ~disturbed', ~late'
             PROVE  /\ Serial'
                    /\ Quiet' => (Active \subseteq session \cup dropped)'
                    /\ \A p \in Procs : pc'[p] # "idle" => ListedOK(p)'
  BY DEF ListedInv
<1>0. /\ TypeInv /\ Serial
      /\ Quiet => Active \subseteq session \cup dropped
      /\ \A p \in Procs : pc[p] # "idle" => ListedOK(p)
  BY HistoryKept DEF ListedInv, ShapeInv
<1>1. CASE UNCHANGED vars
  BY <1>0, <1>1 DEF vars, Serial, Quiet, Active, ListedOK
<1>2. ASSUME NEW p \in Procs, NEW op \in Does[p], NEW m \in About(op), Begin(p, op, m)
      PROVE  /\ Serial' /\ ~Quiet'
             /\ \A q \in Procs : pc'[q] # "idle" => ListedOK(q)'
  <2>1. /\ Active \subseteq session \cup dropped /\ Serial' /\ dropped' = dropped /\ pc'[p] # "idle"
        /\ active' = active /\ session' = session
        /\ pc'[p] \in {"peeking", "deciding", "clearing", "loading"}
    BY <1>0, <1>2, BeginsAlone, BeginDoes
  <2>2. ListedOK(p)'
    BY <2>1 DEF ListedOK, Active, Syncing
  <2> QED BY <2>1, <2>2 DEF Serial, Quiet
<1>3. ASSUME NEW p \in Procs, Step(p)
      PROVE  /\ Serial'
             /\ Quiet' => (Active \subseteq session \cup dropped)'
             /\ \A q \in Procs : pc'[q] # "idle" => ListedOK(q)'
  <2>1. /\ Serial' /\ pc[p] # "idle"
        /\ \A q \in Procs \ {p} : pc'[q] = "idle"
    BY <1>0, <1>3, StepsAlone
  <2>2. ListedOK(p)'
    BY <1>0, <1>3, <2>1, ListedMoves
  <2>3. Quiet' => (Active \subseteq session \cup dropped)'
    BY <2>2 DEF Quiet, ListedOK, Active, Syncing
  <2> QED BY <2>1, <2>2, <2>3
<1>4. ASSUME NEW p \in Procs, Kill(p) PROVE FALSE
  BY <1>4, HistoryKept, <1>0
<1> QED BY <1>1, <1>2, <1>3, <1>4 DEF Next, Finished

(* Whatever old list a prompt puts back at the root, an active mode is in  *)
(* the list of the session, which decides what may start, unless the       *)
(* prompt of a plain skill dropped it from there, operations overlapped,   *)
(* one was killed, or a start was denied late.                             *)
THEOREM ActiveIsListed == Spec => []ActiveListed
<1>1. ShapeInv /\ ListedInv => ActiveListed
  BY DEF ListedInv, ActiveListed
<1> QED BY <1>1, ShapeInit, ShapeStep, ListedInit, ListedStep, PTL DEF Spec

-----------------------------------------------------------------------------
(* Listed modes go together; the entry of a plain skill does not count.    *)
(* Compatible is not inductive: ultragoal is not canonical, so a start     *)
(* that ends it does not unlist it, and what is listed then is ultragoal   *)
(* beside ultraqa.  That pair is let pass, and it may remain at the root   *)
(* when a prompt has replaced the session's list.                          *)
Chain == {"ultragoal", "ultraqa"}
Coexist(list) ==
  \A a, b \in list \cap Tracked : Overlaps(a, b) \/ {a, b} \subseteq Chain

RootOK(atRoot, inSession) ==
  \A m \in (atRoot \cap Tracked) \ inSession : m = "ultragoal" /\ "ultraqa" \in inSession

ListsOK(inSession) == Coexist(inSession) /\ RootOK(root, inSession)

(* What a prompt is going to list, while `listed` is still listed.         *)
KeepOK(p, listed) ==
  LET c == call[p] IN
  /\ Coexist(c.keep)
  /\ ((listed \cap Tracked) \ c.todo) \ {"ultragoal"} \subseteq c.keep
  /\ "ultragoal" \in listed => c.keep \cap Chain # {}

(* An allowed start, which may have modes to end before it is made.        *)
StartOK(p, listed) ==
  /\ Coexist((listed \ call[p].todo) \cup {call[p].want})
  /\ call[p].op = "prompt" => KeepOK(p, listed)

CoexistOK(p) ==
  LET c == call[p] IN
  /\ pc[p] \notin Syncing \/ c.want = Plain => ListsOK(session)
  /\ pc[p] = "completing" => StartOK(p, root \cup session)
  /\ pc[p] \in {"reading", "checking"} =>
       /\ ListsOK(session)
       /\ pc[p] = "checking" => c.root = root
       /\ c.on => Coexist(root \cup session \cup {c.mode})
       /\ c.mode # c.want => StartOK(p, (root \cup session) \ {c.mode})
  /\ pc[p] \in {"rooting", "listing"} /\ c.want = Plain => c.session = {Plain}
  /\ pc[p] \in {"seeding", "rooting", "listing"} /\ c.want # Plain =>
       /\ Coexist(c.session)
       /\ c.mode # c.want => StartOK(p, c.session)
  /\ pc[p] \in {"seeding", "rooting"} /\ c.want # Plain =>
       IF c.op = "prompt" /\ c.mode = c.want THEN RootOK(root, c.session)
       ELSE c.root \subseteq c.session
  /\ pc[p] = "listing" /\ c.want # Plain =>
       /\ RootOK(root, c.session)
       /\ c.mode # c.want => root \subseteq c.session

Calm == ~disturbed /\ ~putBack /\ dropped = {}

CalmInv ==
  Calm => /\ ~late
          /\ Quiet => ListsOK(session)
          /\ \A p \in Procs : pc[p] # "idle" => CoexistOK(p)

-----------------------------------------------------------------------------
LEMMA ChainEnds ==
  /\ AutoCompletes["ultragoal"] = {"ultraqa"}
  /\ AutoCompletes["ultraqa"] = {}
<1>1. AutoCompletes["ultragoal"] = {"ultraqa"}
  BY DEF AutoCompletes, Tracked
<1>2. AutoCompletes["ultraqa"] = {}
  BY DEF AutoCompletes, Tracked
<1> QED BY <1>1, <1>2

LEMMA CoexistLess ==
  ASSUME NEW S, NEW T, S \subseteq T, Coexist(T)
  PROVE  Coexist(S)
  BY DEF Coexist

(* Who can stand beside ultraqa can stand beside ultragoal.                *)
LEMMA CoexistChain ==
  ASSUME NEW S, Coexist(S), "ultraqa" \in S
  PROVE  Coexist(S \cup {"ultragoal"})
<1>1. \A x \in S \cap Tracked : x \in {"ultragoal", "ultraqa", "ultrawork"}
  BY DEF Coexist, Overlaps, Chain, Tracked
<1> QED BY <1>1 DEF Coexist, Overlaps, Chain

LEMMA CoexistRoot ==
  ASSUME NEW R, NEW S, Coexist(S), RootOK(R, S)
  PROVE  Coexist(R \cup S)
<1> DEFINE U == (R \cup S) \cap Tracked
<1>1. CASE R \cap Tracked \subseteq S
  <2>1. U \subseteq S \cap Tracked
    BY <1>1
  <2> QED BY <2>1 DEF Coexist
<1>2. CASE ~(R \cap Tracked \subseteq S)
  <2>1. "ultraqa" \in S /\ U \subseteq (S \cup {"ultragoal"}) \cap Tracked
    BY <1>2 DEF RootOK
  <2>2. Coexist(S \cup {"ultragoal"})
    BY <2>1, CoexistChain
  <2> QED BY <2>1, <2>2 DEF Coexist
<1> QED BY <1>1, <1>2

(* What the first check allows goes together once the modes it is to end   *)
(* are off the lists; and what a prompt keeps is all of that.              *)
LEMMA AllowedCoexist ==
  ASSUME NEW R, NEW S, Coexist(S), RootOK(R, S),
         NEW w \in Tracked, Allowed(S, w)
  PROVE  /\ Coexist(((R \cup S) \ Ends(S, w)) \cup {w})
         /\ (((R \cup S) \cap Tracked) \ Ends(S, w)) \ {"ultragoal"}
              \subseteq ((S \cap Tracked) \ Ends(S, w)) \cup {w}
         /\ "ultragoal" \in R \cup S => (((S \cap Tracked) \ Ends(S, w)) \cup {w}) \cap Chain # {}
<1> DEFINE ended == Ends(S, w)
<1>1. "ultraqa" \notin ended
  BY ChainEnds DEF Ends
<1>2. "ultragoal" \in ended => w = "ultraqa"
  BY ChainEnds DEF Ends
<1>3. Coexist(((R \cup S) \ ended) \cup {w})
  <2>1. Coexist(R \cup S)
    BY CoexistRoot
  <2>2. CASE w \in S
    <3>1. ((R \cup S) \ ended) \cup {w} \subseteq R \cup S
      BY <2>2
    <3> QED BY <2>1, <3>1, CoexistLess
  <2>3. CASE w \notin S
    <3>1. \A m \in (S \cap Tracked) \ ended : Overlaps(m, w)
      BY <2>3 DEF Allowed
    <3>2. \A m \in (R \cap Tracked) \ S : Overlaps(m, w)
      <4>1. SUFFICES ASSUME NEW m \in (R \cap Tracked) \ S PROVE Overlaps(m, w)
        OBVIOUS
      <4>2. m = "ultragoal" /\ "ultraqa" \in S
        BY <4>1 DEF RootOK
      <4>3. Overlaps("ultraqa", w) /\ w # "ultraqa"
        BY <1>1, <2>3, <3>1, <4>2 DEF Tracked
      <4> QED BY <4>3 DEF Overlaps
    <3>3. \A m \in ((R \cup S) \cap Tracked) \ ended : Overlaps(m, w) /\ Overlaps(w, m)
      BY <3>1, <3>2 DEF Overlaps
    <3>4. Overlaps(w, w)
      BY DEF Overlaps
    <3> HIDE DEF ended
    <3> QED BY <2>1, <3>3, <3>4 DEF Coexist
  <2> QED BY <2>2, <2>3
<1>4. (((R \cup S) \cap Tracked) \ ended) \ {"ultragoal"}
        \subseteq ((S \cap Tracked) \ ended) \cup {w}
  BY DEF RootOK
<1>5. "ultragoal" \in R \cup S => (((S \cap Tracked) \ ended) \cup {w}) \cap Chain # {}
  <2>1. CASE "ultragoal" \in S
    BY <1>2, <2>1 DEF Chain, Tracked
  <2>2. CASE "ultragoal" \in R \ S
    BY <1>1, <2>2 DEF RootOK, Chain, Tracked
  <2> QED BY <2>1, <2>2
<1> QED BY <1>3, <1>4, <1>5

(* What goes together with a listed mode passes the second check.          *)
LEMMA CoexistAllowed ==
  ASSUME NEW U, NEW w \in Canonical, Coexist(U \cup {w})
  PROVE  Allowed(U, w)
<1>1. CASE w \in U
  BY <1>1 DEF Allowed
<1>2. CASE w \notin U
  <2>1. SUFFICES ASSUME NEW m \in U \cap Tracked, m \notin Ends(U, w)
                 PROVE  Overlaps(m, w)
    BY DEF Allowed
  <2>2. w \notin AutoCompletes[m]
    BY <1>2, <2>1 DEF Ends
  <2>3. CASE {m, w} \subseteq Chain
    <3>1. w = "ultraqa"
      BY <2>3 DEF Chain, Canonical
    <3>2. m = "ultraqa"
      BY <2>2, <2>3, <3>1, ChainEnds DEF Chain
    <3> QED BY <3>1, <3>2 DEF Overlaps
  <2>4. CASE ~({m, w} \subseteq Chain)
    BY <2>1, <2>4 DEF Coexist, Canonical
  <2> QED BY <2>3, <2>4
<1> QED BY <1>1, <1>2

-----------------------------------------------------------------------------
LEMMA PeekCoexists ==
  ASSUME ShapeInv, NEW p \in Procs, CoexistOK(p), Peek(p) \/ Replace(p)
  PROVE  CoexistOK(p)'
<1>1. TypeInv /\ UNCHANGED <<root, session>>
  BY PeekDoes DEF ShapeInv, history
<1>2. CASE Peek(p)
  <2>1. pc[p] = "peeking" /\ pc'[p] = "deciding"
    BY <1>1, <1>2, PeekDoes
  <2> QED BY <1>1, <2>1 DEF CoexistOK, ListsOK, Syncing
<1>3. CASE Replace(p)
  <2>1. /\ pc[p] = "deciding" /\ pc'[p] = "rooting"
        /\ call'[p].want = Plain /\ call'[p].session = {Plain}
    BY <1>1, <1>3, PeekDoes
  <2> QED BY <1>1, <2>1 DEF CoexistOK, ListsOK, Syncing
<1> QED BY <1>2, <1>3

LEMMA DecideCoexists ==
  ASSUME ShapeInv, Serial, NEW p \in Procs, ListedOK(p), CoexistOK(p), Decide(p),
         dropped = {}
  PROVE  CoexistOK(p)'
<1>1. /\ TypeInv /\ pc[p] = "deciding" /\ UNCHANGED <<active, root, session>>
      /\ call[p].want \in Tracked
      /\ Reads(session, p, "listing") = {session}
  BY DecideDoes, WantsMode, ReadsWhole, ModesAssumption DEF ShapeInv, history
<1>2. Active \subseteq session /\ Coexist(session) /\ RootOK(root, session)
  BY <1>1 DEF ListedOK, CoexistOK, ListsOK, Syncing
<1> DEFINE w == call[p].want
           known == session \cap Tracked
<1>3. CASE pc'[p] = "idle"
  <2>1. ListsOK(session)'
    BY <1>1, <1>2 DEF ListsOK
  <2> QED BY <1>3, <2>1 DEF CoexistOK, Syncing
<1>4. CASE pc'[p] # "idle"
  <2>1. Believed(p, session) = known
    BY <1>2 DEF Believed, Active, Canonical, Tracked
  <2>2. Allowed(known, w) <=> Allowed(session, w)
    BY <1>1 DEF Allowed, Ends
  <2>3. Ends(known, w) = Ends(session, w)
    BY <1>1 DEF Ends
  <2>4. /\ Allowed(session, w)
        /\ pc'[p] = "completing"
        /\ call'[p].op = call[p].op /\ call'[p].want = w
        /\ call'[p].todo = Ends(session, w)
        /\ call[p].op = "prompt" => call'[p].keep = (known \ Ends(session, w)) \cup {w}
    BY <1>1, <1>4, <2>1, <2>2, <2>3, DecideDoes
  <2>5. /\ Coexist(((root \cup session) \ Ends(session, w)) \cup {w})
        /\ (((root \cup session) \cap Tracked) \ Ends(session, w)) \ {"ultragoal"}
             \subseteq (known \ Ends(session, w)) \cup {w}
        /\ "ultragoal" \in root \cup session
             => ((known \ Ends(session, w)) \cup {w}) \cap Chain # {}
    BY <1>1, <1>2, <2>4, AllowedCoexist
  <2>6. Coexist((known \ Ends(session, w)) \cup {w})
    BY <2>5, CoexistLess
  <2>7. StartOK(p, root \cup session)'
    BY <1>1, <2>4, <2>5, <2>6 DEF StartOK, KeepOK
  <2>8. call'[p].want # Plain /\ ListsOK(session)'
    BY <1>1, <1>2, <2>4, PlainIsNoMode DEF ListsOK
  <2> QED BY <2>4, <2>7, <2>8 DEF CoexistOK, Syncing
<1> QED BY <1>3, <1>4

LEMMA CompleteCoexists ==
  ASSUME ShapeInv, NEW p \in Procs, CoexistOK(p), Complete(p)
  PROVE  CoexistOK(p)'
<1>1. /\ TypeInv /\ pc[p] = "completing" /\ UNCHANGED <<root, session>>
      /\ call[p].op \in Starting
      /\ \A n \in call[p].todo : call[p].want \in AutoCompletes[n]
      /\ call[p].todo \subseteq Tracked
  BY CompleteDoes, ModesAssumption
  DEF ShapeInv, Shape, TypeInv, TypeOK, Call, history
<1>2. call[p].want \in Tracked /\ call[p].want # Plain
  BY <1>1, ModesAssumption, WantsMode, PlainIsNoMode
<1> USE <1>2
<1>3. ListsOK(session) /\ StartOK(p, root \cup session)
  BY <1>1 DEF CoexistOK, Syncing
<1>4. CASE pc'[p] = "idle"
  BY <1>1, <1>3, <1>4 DEF CoexistOK, ListsOK, Syncing
<1>5. CASE pc'[p] # "idle"
  <2>1. PICK m \in call[p].todo :
          /\ pc'[p] = IF m \in Canonical THEN "reading" ELSE "completing"
          /\ Goes(p)
          /\ call'[p].todo = call[p].todo \ {m}
          /\ call'[p].mode = m /\ call'[p].on = FALSE
    BY <1>1, <1>5, CompleteDoes
  <2> DEFINE U == root \cup session
             w == call[p].want
  <2>2. CASE m \in Canonical
    <3>1. /\ (U \ {m}) \ (call[p].todo \ {m}) = U \ call[p].todo
          /\ ((U \ {m}) \cap Tracked) \ (call[p].todo \ {m})
               = (U \cap Tracked) \ call[p].todo
      OBVIOUS
    <3>2. StartOK(p, U \ {m})'
      BY <1>1, <1>3, <2>1, <3>1 DEF StartOK, KeepOK, Goes
    <3> QED BY <1>1, <1>3, <2>1, <2>2, <3>2 DEF CoexistOK, ListsOK, Syncing, Goes
  <2>3. CASE m \notin Canonical
    <3>1. m = "ultragoal"
      BY <1>1, <2>3 DEF Canonical
    <3>2. w = "ultraqa"
      BY <1>1, <3>1, ChainEnds
    <3>3. Coexist((U \ call[p].todo) \cup {w} \cup {"ultragoal"})
      BY <1>3, <3>2, CoexistChain DEF StartOK
    <3>4. (U \ (call[p].todo \ {m})) \cup {w}
            \subseteq (U \ call[p].todo) \cup {w} \cup {"ultragoal"}
      BY <3>1
    <3>5. Coexist((U \ (call[p].todo \ {m})) \cup {w})
      BY <3>3, <3>4, CoexistLess
    <3>6. ((U \cap Tracked) \ (call[p].todo \ {m})) \ {"ultragoal"}
            = ((U \cap Tracked) \ call[p].todo) \ {"ultragoal"}
      BY <3>1
    <3>7. StartOK(p, U)'
      BY <1>1, <1>3, <2>1, <3>5, <3>6 DEF StartOK, KeepOK, Goes
    <3> QED BY <1>1, <1>3, <2>1, <2>3, <3>7 DEF CoexistOK, ListsOK, Syncing, Goes
  <2> QED BY <2>2, <2>3
<1> QED BY <1>4, <1>5

LEMMA MakeCoexists ==
  ASSUME ShapeInv, NEW p \in Procs, ListedOK(p), CoexistOK(p), Activate(p) \/ Seed(p)
  PROVE  CoexistOK(p)'
<1>1. TypeInv /\ UNCHANGED <<root, session>>
  BY ActivateDoes, SeedDoes DEF ShapeInv, history
<1>2. pc[p] = "completing" /\ call[p].todo = {} =>
        /\ ListsOK(session)
        /\ Coexist(root \cup session \cup {call[p].want})
        /\ call[p].op = "prompt" => KeepOK(p, root \cup session)
  BY <1>1 DEF CoexistOK, StartOK, Syncing
<1>3. CASE Activate(p)
  <2>1. pc[p] = "completing" /\ call[p].todo = {} /\ call[p].want # Plain
    BY <1>1, <1>3, ActivateDoes, WantsMode, PlainIsNoMode
  <2>2. CASE call[p].want \in Canonical
    <3>1. /\ pc'[p] = "reading" /\ call'[p].want = call[p].want
          /\ call'[p].mode = call[p].want
      BY <1>1, <1>3, <2>2, ActivateDoes DEF Goes
    <3> QED BY <1>1, <1>2, <2>1, <3>1 DEF CoexistOK, ListsOK, Syncing
  <2>3. CASE call[p].want \notin Canonical
    <3>1. pc'[p] = "idle"
      BY <1>1, <1>3, <2>3, ActivateDoes
    <3> QED BY <1>1, <1>2, <2>1, <3>1 DEF CoexistOK, ListsOK, Syncing
  <2> QED BY <2>2, <2>3
<1>4. CASE Seed(p)
  <2> DEFINE list == IF pc[p] = "completing" THEN call[p].keep ELSE call[p].session
  <2>1. /\ pc[p] \in {"completing", "seeding"} /\ pc'[p] \in {"seeding", "rooting"}
        /\ call[p].todo = {} /\ call[p].op = "prompt" /\ call[p].want # Plain
        /\ call'[p].want = call[p].want /\ call'[p].mode = call'[p].want
        /\ call'[p].op = "prompt" /\ call'[p].session = list
    BY <1>1, <1>4, SeedDoes, WantsMode, PlainIsNoMode
  <2>2. Coexist(list) /\ RootOK(root, list) /\ ListsOK(session)
    <3>1. CASE pc[p] = "completing"
      <4>1. KeepOK(p, root \cup session)
        BY <1>2, <2>1, <3>1
      <4>2. ASSUME NEW m \in (root \cap Tracked) \ call[p].keep
            PROVE  m = "ultragoal" /\ "ultraqa" \in call[p].keep
        <5>1. m = "ultragoal"
          BY <2>1, <4>1, <4>2 DEF KeepOK
        <5> QED BY <4>1, <4>2, <5>1 DEF KeepOK, Chain
      <4> QED BY <1>2, <2>1, <3>1, <4>1, <4>2 DEF KeepOK, RootOK
    <3>2. CASE pc[p] = "seeding"
      <4>1. call[p].mode = call[p].want
        BY <3>2 DEF ShapeInv, Shape
      <4> QED BY <2>1, <3>2, <4>1 DEF CoexistOK, Syncing
    <3> QED BY <2>1, <3>1, <3>2
  <2> HIDE DEF list
  <2> QED BY <1>1, <2>1, <2>2 DEF CoexistOK, ListsOK, Syncing
<1> QED BY <1>3, <1>4

LEMMA ReadRootCoexists ==
  ASSUME ShapeInv, Serial, NEW p \in Procs, ListedOK(p), CoexistOK(p), ReadRoot(p)
  PROVE  CoexistOK(p)'
<1>1. /\ TypeInv /\ pc[p] = "reading" /\ pc'[p] = "checking"
      /\ UNCHANGED <<root, session>>
      /\ Goes(p) /\ call'[p].todo = call[p].todo /\ call'[p].mode = call[p].mode
      /\ call'[p].root = root /\ call[p].want # Plain
  BY ReadRootDoes, ReadsWhole, WantsMode, PlainIsNoMode DEF ShapeInv, history
<1>2. call'[p].on = call[p].on
  BY <1>1, ReadRootDoes
  DEF ShapeInv, Shape, TypeInv, TypeOK, ListedOK, Starting, Syncing, Call
<1>3. call[p].mode # call[p].want
        => StartOK(p, (root \cup session) \ {call[p].mode})'
  BY <1>1 DEF CoexistOK, StartOK, KeepOK, Goes
<1> QED BY <1>1, <1>2, <1>3 DEF CoexistOK, ListsOK, Syncing, Goes

(* The check passes, and what is to be written goes together.              *)
LEMMA CheckCoexists ==
  ASSUME ShapeInv, Serial, NEW p \in Procs, CoexistOK(p), Check(p)
  PROVE  CoexistOK(p)' /\ late' = late
<1> DEFINE m == call[p].mode
           on == call[p].on
           U == root \cup session
<1>1. /\ TypeInv /\ pc[p] = "checking" /\ UNCHANGED <<root, session>>
      /\ call[p].root = root /\ m \in Canonical
      /\ on \in BOOLEAN
      /\ Reads(session, p, "listing") = {session}
  BY CheckDoes, ReadsWhole DEF ShapeInv, Shape, CoexistOK, TypeInv, TypeOK, Call
<1>2. call[p].want # Plain
  BY <1>1, WantsMode, PlainIsNoMode
<1>3. /\ ListsOK(session) /\ Coexist(U)
      /\ on => Coexist(U \cup {m})
      /\ m # call[p].want => StartOK(p, U \ {m}) /\ on = FALSE
  BY <1>1, CoexistRoot DEF CoexistOK, ListsOK, Syncing, ShapeInv, Shape
<1>4. on => Allowed(U, m)
  BY <1>1, <1>3, CoexistAllowed
<1>5. /\ pc'[p] = "rooting" /\ late' = late
      /\ Goes(p) /\ call'[p].todo = call[p].todo /\ call'[p].mode = m
      /\ call'[p].root = RootList(root, session, m, on)
      /\ call'[p].session = List(root, session, m, on)
  BY <1>1, <1>4, CheckDoes
<1>6. RootList(root, session, m, on) \subseteq List(root, session, m, on)
  BY DEF RootList, List
<1>7. Coexist(List(root, session, m, on))
  <2>1. CASE on
    <3>1. List(root, session, m, on) \subseteq U \cup {m}
      BY DEF List
    <3> QED BY <1>3, <2>1, <3>1, CoexistLess
  <2>2. CASE ~on
    <3>1. List(root, session, m, on) \subseteq U
      BY <2>2 DEF List
    <3> QED BY <1>3, <3>1, CoexistLess
  <2> QED BY <2>1, <2>2
<1>8. m # call[p].want => StartOK(p, call[p].session)'
  <2>1. SUFFICES ASSUME m # call[p].want PROVE StartOK(p, call[p].session)'
    OBVIOUS
  <2>2. call'[p].session = U \ {m}
    BY <1>3, <1>5, <2>1 DEF List
  <2> QED BY <1>3, <1>5, <2>1, <2>2 DEF StartOK, KeepOK, Goes
<1>9. ~(m = call[p].want /\ call[p].op = "prompt")
  BY <1>1 DEF ShapeInv, Shape, Syncing
<1> QED BY <1>1, <1>5, <1>6, <1>7, <1>8, <1>9, <1>2 DEF CoexistOK, Syncing, Goes

(* The root is written first; a prompt that does not put anything back     *)
(* leaves there what the new list of the session can have beside it.  A    *)
(* plain skill's list, when it drops no mode, can have none beside it, and *)
(* the root has none then either.                                          *)
LEMMA WriteCoexists ==
  ASSUME ShapeInv, NEW p \in Procs, CoexistOK(p), ~putBack', dropped' = {},
         WriteRoot(p) \/ WriteSession(p)
  PROVE  CoexistOK(p)'
<1>1. CASE WriteRoot(p)
  <2>1. /\ pc[p] = "rooting" /\ pc'[p] = "listing" /\ call' = call
        /\ session' = session
    BY <1>1 DEF WriteRoot, Goto, ShapeInv, TypeInv, TypeOK
  <2>2. CASE call[p].want = Plain
    <3>1. call[p].op = "prompt" /\ root' \subseteq root
      BY <1>1, <2>2 DEF WriteRoot, ShapeInv, TypeInv, CallOK
    <3>2. ListsOK(session)'
      BY <2>1, <2>2, <3>1 DEF CoexistOK, ListsOK, RootOK
    <3> QED BY <2>1, <2>2, <3>2 DEF CoexistOK, Syncing
  <2>3. CASE call[p].want # Plain
    <3>1. /\ Coexist(call[p].session)
          /\ call[p].mode # call[p].want => StartOK(p, call[p].session)
      BY <2>1, <2>3 DEF CoexistOK
    <3>2. CASE call[p].op = "prompt" /\ call[p].mode = call[p].want
      <4>1. RootOK(root, call[p].session) /\ root' \subseteq root
        BY <1>1, <2>1, <2>3, <3>2 DEF CoexistOK, WriteRoot
      <4> QED BY <2>1, <2>3, <3>1, <3>2, <4>1 DEF CoexistOK, RootOK, Syncing
    <3>3. CASE ~(call[p].op = "prompt" /\ call[p].mode = call[p].want)
      <4>1. call[p].root \subseteq call[p].session /\ root' = call[p].root
        BY <1>1, <2>1, <2>3, <3>3 DEF CoexistOK, WriteRoot
      <4>2. call[p].mode # call[p].want => StartOK(p, call[p].session)'
        BY <2>1, <3>1 DEF StartOK, KeepOK
      <4> QED BY <2>1, <2>3, <3>1, <4>1, <4>2 DEF CoexistOK, RootOK, Syncing
    <3> QED BY <3>2, <3>3
  <2> QED BY <2>2, <2>3
<1>2. CASE WriteSession(p)
  <2>1. /\ TypeInv /\ pc[p] = "listing" /\ session' = call[p].session /\ root' = root
    BY <1>2, WriteSessionDoes DEF ShapeInv
  <2>2. CASE call[p].want = Plain
    <3>1. /\ call[p].mode = Plain /\ call[p].op = "prompt"
          /\ session' = {Plain} /\ session \cap Modes = {}
          /\ session \subseteq Listable
      BY <1>2, <2>1, <2>2, WriteSessionDoes
      DEF CoexistOK, TypeInv, TypeOK, CallOK, Syncing
    <3>2. pc'[p] = "interviewing" /\ call' = call
      BY <1>2, <2>1, <2>2, <3>1, WriteSessionDoes
    <3>3. "ultraqa" \notin session
      BY <3>1 DEF Listable, Plain
    <3>4. root \cap Tracked = {}
      BY <2>1, <2>2, <3>1, <3>3, PlainIsNoMode
      DEF CoexistOK, ListsOK, RootOK, Listable, Tracked, Plain
    <3>5. ListsOK(session)'
      BY <2>1, <3>1, <3>4, PlainIsNoMode DEF ListsOK, Coexist, RootOK
    <3> QED BY <3>2, <3>5 DEF CoexistOK, Syncing
  <2>3. CASE call[p].want # Plain
    <3>1. /\ Coexist(session') /\ RootOK(root, session')
          /\ call[p].mode # call[p].want =>
               root \subseteq session' /\ StartOK(p, call[p].session)
      BY <2>1, <2>3 DEF CoexistOK
    <3>2. CASE call[p].mode # call[p].want
      <4>1. pc'[p] = "completing" /\ Goes(p) /\ call'[p].todo = call[p].todo
        BY <1>2, <2>1, <3>2, WriteSessionDoes
      <4>2. root' \cup session' = call[p].session
        BY <2>1, <3>1, <3>2
      <4>3. StartOK(p, root \cup session)'
        BY <3>1, <3>2, <4>1, <4>2 DEF StartOK, KeepOK, Goes
      <4> QED BY <2>1, <2>3, <3>1, <4>1, <4>3 DEF CoexistOK, ListsOK, Syncing, Goes
    <3>3. CASE call[p].mode = call[p].want
      <4>1. pc'[p] \in {"idle", "interviewing"}
        BY <1>2, <2>1, <3>3, WriteSessionDoes
      <4> QED BY <2>1, <3>1, <4>1 DEF CoexistOK, ListsOK, Syncing
    <3> QED BY <3>2, <3>3
  <2> QED BY <2>2, <2>3
<1> QED BY <1>1, <1>2

LEMMA OtherCoexists ==
  ASSUME ShapeInv, NEW p \in Procs, ListedOK(p), CoexistOK(p), dropped = {},
         Interview(p) \/ Load(p) \/ Store(p) \/ Clear(p)
  PROVE  CoexistOK(p)'
<1>1. TypeInv /\ Shape(p)
  BY DEF ShapeInv
<1>2. CASE Interview(p)
  <2>1. /\ pc[p] = "interviewing" /\ pc'[p] = "idle"
        /\ UNCHANGED <<root, session>>
    BY <1>1, <1>2, ReturnMoves DEF Interview
  <2> QED BY <2>1 DEF CoexistOK, ListsOK, Syncing
<1>3. CASE Load(p)
  <2>1. /\ pc[p] = "loading" /\ UNCHANGED <<root, session>>
        /\ pc'[p] \in {"idle", "storing"}
    BY <1>1, <1>3, OtherDoes
  <2> QED BY <2>1 DEF CoexistOK, ListsOK, Syncing
<1>4. CASE Store(p)
  <2>1. /\ pc[p] = "storing" /\ UNCHANGED <<root, session>>
        /\ call[p].mode = call[p].want /\ call[p].want # Plain
        /\ IF call[p].want \in Canonical THEN pc'[p] = "reading" /\ call' = call
           ELSE pc'[p] = "idle"
    BY <1>1, <1>4, OtherDoes, WantsMode, PlainIsNoMode DEF Shape
  <2>2. ListsOK(session) /\ Coexist(root \cup session)
    BY <2>1, CoexistRoot DEF CoexistOK, ListsOK, Syncing
  <2>3. call[p].on /\ call[p].want \in Canonical =>
          Coexist(root \cup session \cup {call[p].want})
    <3>1. SUFFICES ASSUME call[p].on, call[p].want \in Canonical
                   PROVE  Coexist(root \cup session \cup {call[p].want})
      OBVIOUS
    <3>2. call[p].want \in session
      BY <2>1, <3>1 DEF ListedOK, Active, Syncing
    <3>3. root \cup session \cup {call[p].want} = root \cup session
      BY <3>2
    <3> QED BY <2>2, <3>3
  <2> QED BY <2>1, <2>2, <2>3 DEF CoexistOK, ListsOK, Syncing
<1>5. CASE Clear(p)
  <2>1. /\ pc[p] = "clearing" /\ UNCHANGED <<root, session>> /\ call[p].on = FALSE
        /\ call[p].want # Plain
        /\ IF call[p].want \in Canonical
           THEN /\ pc'[p] = "reading" /\ Goes(p)
                /\ call'[p].mode = call[p].want /\ call'[p].on = call[p].on
           ELSE pc'[p] = "idle"
    BY <1>1, <1>5, OtherDoes, WantsMode, PlainIsNoMode DEF Shape
  <2> QED BY <2>1 DEF CoexistOK, ListsOK, Syncing, Goes
<1> QED BY <1>2, <1>3, <1>4, <1>5

LEMMA CoexistMoves ==
  ASSUME ShapeInv, Serial, NEW p \in Procs, ListedOK(p), CoexistOK(p), Step(p),
         ~putBack', dropped = {}, dropped' = {}
  PROVE  CoexistOK(p)'
  BY PeekCoexists, DecideCoexists, CompleteCoexists, MakeCoexists, ReadRootCoexists,
     CheckCoexists, WriteCoexists, OtherCoexists DEF Step

-----------------------------------------------------------------------------
LEMMA CalmInit == Init => CalmInv
  BY DEF Init, CalmInv, Quiet, ListsOK, Coexist, RootOK

LEMMA CalmStep ==
  ShapeInv /\ ListedInv /\ CalmInv /\ [Next]_vars => CalmInv'
<1> SUFFICES ASSUME ShapeInv, ListedInv, CalmInv, [Next]_vars,
                    ~disturbed', ~putBack', dropped' = {}
             PROVE  /\ ~late'
                    /\ Quiet' => ListsOK(session)'
                    /\ \A p \in Procs : pc'[p] # "idle" => CoexistOK(p)'
  BY DEF CalmInv, Calm
<1>0. /\ TypeInv /\ ~late /\ Serial /\ dropped = {}
      /\ Quiet => ListsOK(session)
      /\ \A p \in Procs : pc[p] # "idle" => ListedOK(p) /\ CoexistOK(p)
  BY HistoryKept DEF ListedInv, ShapeInv, CalmInv, Calm
<1>1. CASE UNCHANGED vars
  BY <1>0, <1>1
  DEF vars, Quiet, CoexistOK, ListsOK, StartOK, KeepOK
<1>2. ASSUME NEW p \in Procs, NEW op \in Does[p], NEW m \in About(op), Begin(p, op, m)
      PROVE  /\ ~late' /\ ~Quiet'
             /\ \A q \in Procs : pc'[q] # "idle" => CoexistOK(q)'
  <2>1. /\ ListsOK(session) /\ Serial' /\ pc'[p] # "idle"
        /\ root' = root /\ session' = session /\ late' = late
        /\ pc'[p] \in {"peeking", "deciding", "clearing", "loading"}
    BY <1>0, <1>2, BeginsAlone, BeginDoes
  <2>2. CoexistOK(p)'
    BY <2>1 DEF CoexistOK, ListsOK, Syncing
  <2> QED BY <1>0, <2>1, <2>2 DEF Serial, Quiet
<1>3. ASSUME NEW p \in Procs, Step(p)
      PROVE  /\ ~late'
             /\ Quiet' => ListsOK(session)'
             /\ \A q \in Procs : pc'[q] # "idle" => CoexistOK(q)'
  <2>1. /\ pc[p] # "idle"
        /\ \A q \in Procs \ {p} : pc'[q] = "idle"
    BY <1>0, <1>3, StepsAlone
  <2>2. CoexistOK(p)'
    BY <1>0, <1>3, <2>1, CoexistMoves
  <2>3. Quiet' => ListsOK(session)'
    BY <2>2 DEF Quiet, CoexistOK, ListsOK, Syncing
  <2>4. ~late'
    <3>1. CASE Check(p)
      BY <1>0, <2>1, <3>1, CheckCoexists
    <3>2. CASE WriteRoot(p) \/ WriteSession(p)
      BY <1>0, <3>2 DEF WriteRoot, WriteSession
    <3>3. CASE ~Check(p) /\ ~WriteRoot(p) /\ ~WriteSession(p)
      <4>1. UNCHANGED history
        BY <1>3, <3>3
        DEF Step, Peek, Replace, Decide, Complete, Activate, Seed, Interview, ReadRoot,
            Load, Store, Clear
      <4> QED BY <1>0, <4>1 DEF history
    <3> QED BY <3>1, <3>2, <3>3
  <2> QED BY <2>1, <2>2, <2>3, <2>4
<1>4. ASSUME NEW p \in Procs, Kill(p) PROVE FALSE
  BY <1>4, HistoryKept, <1>0
<1> QED BY <1>0, <1>1, <1>2, <1>3, <1>4 DEF Next, Finished

LEMMA CalmInvariant == Spec => [](ShapeInv /\ ListedInv /\ CalmInv)
  BY ShapeInit, ShapeStep, ListedInit, ListedStep, CalmInit, CalmStep, PTL DEF Spec

(* Through whichever entrance modes are started, those that are active may *)
(* overlap, and so may those that are listed, for any sequence of          *)
(* operations of any number of processes that do not overlap and are not   *)
(* killed, until a prompt puts an old list back at the root or, being for  *)
(* a plain skill, takes a mode off the session's list.                     *)
THEOREM ActiveAreCompatible == Spec => []ActiveCompatible
<1>1. ASSUME NEW S, Coexist(S) PROVE Compatible(S)
  BY <1>1 DEF Coexist, Compatible, Overlaps, Chain, Canonical
<1>2. ListedInv /\ CalmInv => ActiveCompatible
  <2> SUFFICES ASSUME ListedInv, CalmInv, Quiet, ~disturbed, ~putBack, dropped = {}
               PROVE  Compatible(Active) /\ Compatible(session)
    BY DEF ActiveCompatible
  <2>1. Active \subseteq session /\ Coexist(session)
    BY DEF ListedInv, CalmInv, Calm, ListsOK
  <2> QED BY <1>1, <2>1, CoexistLess
<1> QED BY <1>2, CalmInvariant, PTL

(* The second check denies nothing the first has allowed, so no start ends *)
(* in an error after it has written the file of its mode, as long as       *)
(* operations do not overlap, none is killed, no old list is put back, and *)
(* no plain skill's prompt has taken a mode off the session's list.        *)
THEOREM NothingDeniedLate == Spec => []DeniedInTime
<1>1. TypeInv /\ CalmInv => DeniedInTime
  BY DEF CalmInv, Calm, DeniedInTime
<1> QED BY <1>1, CalmInvariant, TypeInvariant, PTL
=============================================================================
