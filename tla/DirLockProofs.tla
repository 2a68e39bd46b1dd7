--------------------------- MODULE DirLockProofs ---------------------------
(***************************************************************************)
(* Theorems about DirLock, for every set of callers.                       *)
(*                                                                         *)
(* The invariant behind all of them is that a caller between its mkdir and *)
(* its rm is the maker of the directory at the path, which stays true      *)
(* until some rm takes a directory in use (`misremoved`).                  *)
(***************************************************************************)
EXTENDS DirLock, TLAPS

HoldersOwnDir == \A p \in Procs : pc[p] \in Holding => dir = p

ExclusionInv == TypeOK /\ (~misremoved => HoldersOwnDir)

LEMMA TypeInit == Init => TypeOK
BY ProcsAssumption DEF Init, TypeOK, PcStates, Holding

LEMMA TypeStep == TypeOK /\ [Next]_vars => TypeOK'
<1> SUFFICES ASSUME TypeOK, [Next]_vars
             PROVE  TypeOK'
  OBVIOUS
<1> USE ProcsAssumption DEF TypeOK, PcStates, Holding
<1>1. CASE Age
  BY <1>1 DEF Age
<1>2. ASSUME NEW p \in Procs, Step(p)
      PROVE  TypeOK'
  <2>1. CASE Begin(p)
    BY <2>1 DEF Begin, Goto
  <2>2. CASE Mkdir(p)
    BY <2>2 DEF Mkdir, Goto
  <2>3. CASE StatStale(p)
    BY <2>3 DEF StatStale, Goto
  <2>4. CASE RecoverRemove(p)
    BY <2>4 DEF RecoverRemove, RemoveDir, Goto
  <2>5. CASE Timeout(p)
    BY <2>5 DEF Timeout, Goto
  <2>6. CASE WriteOwner(p)
    BY <2>6 DEF WriteOwner, Goto
  <2>7. CASE WriteOwnerFails(p)
    BY <2>7 DEF WriteOwnerFails, Goto
  <2>8. CASE AbortRemove(p)
    BY <2>8 DEF AbortRemove, RemoveDir, Goto
  <2>9. CASE ReadOwnOwner(p)
    BY <2>9 DEF ReadOwnOwner, Goto
  <2>10. CASE ReadOtherOwner(p)
    BY <2>10 DEF ReadOtherOwner, Goto
  <2>11. CASE Release(p)
    BY <2>11 DEF Release, RemoveDir, Goto
  <2>12. CASE Crash(p)
    BY <2>12 DEF Crash
  <2> QED
    BY <1>2, <2>1, <2>2, <2>3, <2>4, <2>5, <2>6, <2>7, <2>8, <2>9, <2>10,
       <2>11, <2>12 DEF Step
<1>3. CASE UNCHANGED vars
  BY <1>3 DEF vars
<1> QED
  BY <1>1, <1>2, <1>3 DEF Next

(* Each caller is somewhere in the protocol, and a removed directory       *)
(* leaves no owner and no age behind.                                      *)
THEOREM TypeCorrect == Spec => []TypeOK
<1>1. Init => TypeOK
  BY TypeInit
<1>2. TypeOK /\ [Next]_vars => TypeOK'
  BY TypeStep
<1> QED
  BY <1>1, <1>2, PTL DEF Spec

-----------------------------------------------------------------------------
LEMMA ExclusionInit == Init => ExclusionInv
BY TypeInit DEF Init, ExclusionInv, HoldersOwnDir, Holding

(* A removal that finds somebody else's directory in use is recorded.      *)
LEMMA RemovalRecorded ==
  ASSUME NEW p \in Procs, RemoveDir(p), TypeOK, ~misremoved'
  PROVE  ~misremoved /\ dir \in {p, NoProc, Dead}
BY DEF RemoveDir, TypeOK

LEMMA ExclusionStep == ExclusionInv /\ [Next]_vars => ExclusionInv'
<1> SUFFICES ASSUME ExclusionInv, [Next]_vars, ~misremoved'
             PROVE  HoldersOwnDir'
  BY TypeStep DEF ExclusionInv
<1>0. TypeOK
  BY DEF ExclusionInv
<1> USE ProcsAssumption DEF HoldersOwnDir, Holding
<1>1. CASE Age
  BY <1>1 DEF Age, ExclusionInv
<1>2. ASSUME NEW p \in Procs, Step(p)
      PROVE  HoldersOwnDir'
  <2>1. CASE Begin(p)
    BY <1>0, <2>1 DEF Begin, Goto, ExclusionInv, TypeOK
  <2>2. CASE Mkdir(p)
    BY <1>0, <2>2 DEF Mkdir, Goto, ExclusionInv, TypeOK
  <2>3. CASE StatStale(p)
    BY <1>0, <2>3 DEF StatStale, Goto, ExclusionInv, TypeOK
  <2>4. CASE RecoverRemove(p)
    <3>1. ~misremoved /\ dir \in {p, NoProc, Dead} /\ pc[p] = "recovering"
      BY <1>0, <2>4, RemovalRecorded DEF RecoverRemove, Goto
    <3> QED
      BY <1>0, <2>4, <3>1 DEF RecoverRemove, Goto, ExclusionInv, TypeOK
  <2>5. CASE Timeout(p)
    BY <1>0, <2>5 DEF Timeout, Goto, ExclusionInv, TypeOK
  <2>6. CASE WriteOwner(p)
    BY <1>0, <2>6 DEF WriteOwner, Goto, ExclusionInv, TypeOK
  <2>7. CASE WriteOwnerFails(p)
    BY <1>0, <2>7 DEF WriteOwnerFails, Goto, ExclusionInv, TypeOK
  <2>8. CASE AbortRemove(p)
    <3>1. ~misremoved /\ dir \in {p, NoProc, Dead} /\ pc[p] = "aborting"
      BY <1>0, <2>8, RemovalRecorded DEF AbortRemove, Goto
    <3> QED
      BY <1>0, <2>8, <3>1 DEF AbortRemove, Goto, ExclusionInv, TypeOK
  <2>9. CASE ReadOwnOwner(p)
    BY <1>0, <2>9 DEF ReadOwnOwner, Goto, ExclusionInv, TypeOK
  <2>10. CASE ReadOtherOwner(p)
    BY <1>0, <2>10 DEF ReadOtherOwner, Goto, ExclusionInv, TypeOK
  <2>11. CASE Release(p)
    <3>1. ~misremoved /\ dir \in {p, NoProc, Dead} /\ pc[p] = "releasing"
      BY <1>0, <2>11, RemovalRecorded DEF Release, Goto
    <3> QED
      BY <1>0, <2>11, <3>1 DEF Release, Goto, ExclusionInv, TypeOK
  <2>12. CASE Crash(p)
    BY <1>0, <2>12 DEF Crash, ExclusionInv, TypeOK
  <2> QED
    BY <1>2, <2>1, <2>2, <2>3, <2>4, <2>5, <2>6, <2>7, <2>8, <2>9, <2>10,
       <2>11, <2>12 DEF Step
<1>3. CASE UNCHANGED vars
  BY <1>3 DEF vars, ExclusionInv
<1> QED
  BY <1>1, <1>2, <1>3 DEF Next

LEMMA ExclusionInvariant == Spec => []ExclusionInv
<1>1. Init => ExclusionInv
  BY ExclusionInit
<1>2. ExclusionInv /\ [Next]_vars => ExclusionInv'
  BY ExclusionStep
<1> QED
  BY <1>1, <1>2, PTL DEF Spec

(* Bodies overlap only after an rm took a directory from a live caller.    *)
THEOREM ExclusionHolds == Spec => []ExclusionUnlessMisremoved
<1>1. ExclusionInv => ExclusionUnlessMisremoved
  BY DEF ExclusionInv, ExclusionUnlessMisremoved, HoldersOwnDir,
         MutualExclusion, Holding
<1> QED
  BY <1>1, ExclusionInvariant, PTL

(* The first rm that does so is the recovery of a stale directory.         *)
THEOREM RecoveryIsTheCause == Spec => OnlyRecoveryMisremoves
<1> DEFINE Cause == misremoved' # misremoved =>
                      \E p \in Procs : pc[p] = "recovering" /\ pc'[p] = "trying"
<1>1. ExclusionInv /\ [Next]_vars => [Cause]_vars
  <2> SUFFICES ASSUME ExclusionInv, Next, misremoved' # misremoved
               PROVE  \E p \in Procs : pc[p] = "recovering" /\ pc'[p] = "trying"
    OBVIOUS
  <2>0. TypeOK
    BY DEF ExclusionInv
  <2>1. PICK p \in Procs : Step(p)
    BY DEF Next, Age
  <2>2. CASE RecoverRemove(p)
    BY <2>0, <2>2 DEF RecoverRemove, Goto, TypeOK
  <2>3. ASSUME AbortRemove(p) \/ Release(p)
        PROVE  FALSE
    <3>1. RemoveDir(p) /\ pc[p] \in Holding
      BY <2>3 DEF AbortRemove, Release, Goto, Holding
    <3>2. ~misremoved
      BY <2>0, <3>1 DEF RemoveDir, TypeOK
    <3>3. dir = p
      BY <3>1, <3>2 DEF ExclusionInv, HoldersOwnDir
    <3>4. dir \notin Procs \ {p}
      BY <3>3
    <3> QED
      BY <2>0, <3>1, <3>2, <3>4 DEF RemoveDir, TypeOK
  <2> QED
    BY <2>1, <2>2, <2>3
    DEF Step, Begin, Mkdir, StatStale, Timeout, WriteOwner, WriteOwnerFails,
        ReadOwnOwner, ReadOtherOwner, Crash
<1> QED
  BY <1>1, ExclusionInvariant, PTL DEF Spec, OnlyRecoveryMisremoves

(* A caller that ends its body, or is killed in it, leaves the mutex.      *)
LEMMA LeavesOne ==
  ASSUME NEW p \in Procs, TypeOK, InCritical' # InCritical,
         ReadOwnOwner(p) \/ ReadOtherOwner(p) \/ Crash(p)
  PROVE  Abstract!Leave(p)
<1>1. InCritical' = InCritical \ {p}
  BY DEF ReadOwnOwner, ReadOtherOwner, Crash, Goto, InCritical, TypeOK
<1> QED
  BY <1>1 DEF Abstract!Leave

(* Until a directory in use is removed the lock is a mutex step by step,   *)
(* crashes and slow callers included: a body is entered when no other one  *)
(* runs, and left.                                                         *)
THEOREM MutexUnlessMisremoved == Spec => MutexUntilMisremoved
<1>1. Init => Abstract!Init
  BY DEF Init, Abstract!Init, InCritical
<1>2. ExclusionInv /\ ExclusionInv' /\ [Next]_vars
        => [Abstract!Next \/ misremoved']_InCritical
  <2> SUFFICES ASSUME ExclusionInv, ExclusionInv', [Next]_vars,
                      InCritical' # InCritical, ~misremoved'
               PROVE  Abstract!Next
    OBVIOUS
  <2>0. TypeOK /\ HoldersOwnDir'
    BY DEF ExclusionInv
  <2>1. PICK p \in Procs : Step(p)
    BY DEF vars, InCritical, Next, Age
  <2>2. CASE WriteOwner(p)
    <3>1. /\ pc[p] = "claiming"
          /\ pc' = [pc EXCEPT ![p] = "critical"]
          /\ ~misremoved
      BY <2>2 DEF WriteOwner, Goto
    <3>2. \A q \in Procs : pc[q] = "critical" => q = p
      BY <3>1 DEF ExclusionInv, HoldersOwnDir, Holding
    <3>3. InCritical = {} /\ InCritical' = {p}
      BY <2>0, <3>1, <3>2 DEF InCritical, TypeOK
    <3> QED
      BY <3>3 DEF Abstract!Next, Abstract!Enter
  <2>3. CASE ReadOwnOwner(p) \/ ReadOtherOwner(p) \/ Crash(p)
    BY <2>0, <2>3, LeavesOne DEF Abstract!Next
  <2>4. ASSUME \E from \in PcStates \ {"critical"}, to \in PcStates \ {"critical"} :
                 Goto(p, from, to)
        PROVE  FALSE
    BY <2>0, <2>4 DEF Goto, InCritical, TypeOK
  <2> QED
    BY <2>1, <2>2, <2>3, <2>4
    DEF Step, Begin, Mkdir, StatStale, RecoverRemove, Timeout, WriteOwnerFails,
        AbortRemove, Release, PcStates, Holding
<1> QED
  BY <1>1, <1>2, ExclusionInvariant, PTL DEF Spec, MutexUntilMisremoved

-----------------------------------------------------------------------------
(* No caller is killed and none outlives LOCK_STALE_MS.                    *)
Prompt == Crashable = {} /\ Slow = {}

PromptInv ==
  /\ ExclusionInv
  /\ ~misremoved /\ ~stale /\ dir # Dead
  /\ \A p \in Procs : pc[p] # "recovering"
  /\ \A p \in Procs : pc[p] \in {"critical", "releasing"} => owner = p

LEMMA PromptInit == Init => PromptInv
BY ExclusionInit, ProcsAssumption DEF PromptInv, Init

LEMMA PromptStep ==
  ASSUME Prompt
  PROVE  PromptInv /\ [Next]_vars => PromptInv'
<1> SUFFICES ASSUME PromptInv, [Next]_vars
             PROVE  PromptInv'
  OBVIOUS
<1>0. ExclusionInv' /\ TypeOK /\ HoldersOwnDir
  BY ExclusionStep DEF PromptInv, ExclusionInv
<1> USE ProcsAssumption DEF PromptInv, HoldersOwnDir, Holding, TypeOK
<1>1. CASE Age
  BY <1>1 DEF Age, Prompt
<1>2. ASSUME NEW p \in Procs, Step(p)
      PROVE  PromptInv'
  <2>1. CASE Begin(p)
    BY <1>0, <2>1 DEF Begin, Goto
  <2>2. CASE Mkdir(p)
    BY <1>0, <2>2 DEF Mkdir, Goto
  <2>3. CASE StatStale(p)
    BY <2>3 DEF StatStale
  <2>4. CASE RecoverRemove(p)
    BY <2>4 DEF RecoverRemove, Goto
  <2>5. CASE Timeout(p)
    BY <1>0, <2>5 DEF Timeout, Goto
  <2>6. CASE WriteOwner(p)
    BY <1>0, <2>6 DEF WriteOwner, Goto
  <2>7. CASE WriteOwnerFails(p)
    BY <1>0, <2>7 DEF WriteOwnerFails, Goto
  <2>8. CASE AbortRemove(p)
    BY <1>0, <2>8 DEF AbortRemove, RemoveDir, Goto
  <2>9. CASE ReadOwnOwner(p)
    BY <1>0, <2>9 DEF ReadOwnOwner, Goto
  <2>10. CASE ReadOtherOwner(p)
    BY <1>0, <2>10 DEF ReadOtherOwner, Goto
  <2>11. CASE Release(p)
    BY <1>0, <2>11 DEF Release, RemoveDir, Goto
  <2>12. CASE Crash(p)
    BY <2>12 DEF Crash, Prompt
  <2> QED
    BY <1>2, <2>1, <2>2, <2>3, <2>4, <2>5, <2>6, <2>7, <2>8, <2>9, <2>10,
       <2>11, <2>12 DEF Step
<1>3. CASE UNCHANGED vars
  BY <1>0, <1>3 DEF vars
<1> QED
  BY <1>1, <1>2, <1>3 DEF Next

LEMMA PromptInvariant ==
  ASSUME Prompt
  PROVE  Spec => []PromptInv
<1>1. Init => PromptInv
  BY PromptInit
<1>2. PromptInv /\ [Next]_vars => PromptInv'
  BY PromptStep
<1> QED
  BY <1>1, <1>2, PTL DEF Spec

(* With prompt callers two bodies never run under one lock.                *)
THEOREM PromptExclusion ==
  ASSUME Prompt
  PROVE  Spec => []MutualExclusion
<1>1. PromptInv => MutualExclusion
  BY DEF PromptInv, ExclusionInv, HoldersOwnDir, MutualExclusion, Holding
<1> QED
  BY <1>1, PromptInvariant, PTL

(* With prompt callers the directory lock is a mutex: entering and leaving *)
(* a body are the only visible steps, and a body is entered when no other  *)
(* one runs.                                                               *)
THEOREM PromptImplements ==
  ASSUME Prompt
  PROVE  Spec => ImplementsMutex
<1>1. Init => Abstract!Init
  BY DEF Init, Abstract!Init, InCritical
<1>2. PromptInv /\ PromptInv' /\ [Next]_vars => [Abstract!Next]_InCritical
  <2> SUFFICES ASSUME PromptInv, PromptInv', [Next]_vars,
                      InCritical' # InCritical
               PROVE  Abstract!Next
    OBVIOUS
  <2>0. /\ TypeOK /\ HoldersOwnDir
        /\ HoldersOwnDir'
    BY DEF PromptInv, ExclusionInv
  <2>1. PICK p \in Procs : Step(p)
    BY DEF vars, InCritical, Next, Age
  <2>2. CASE WriteOwner(p)
    <3>1. /\ pc[p] = "claiming"
          /\ pc' = [pc EXCEPT ![p] = "critical"]
      BY <2>2 DEF WriteOwner, Goto
    <3>2. \A q \in Procs : pc[q] = "critical" => q = p
      BY <2>0, <3>1 DEF HoldersOwnDir, Holding
    <3>3. InCritical = {} /\ InCritical' = {p}
      BY <2>0, <3>1, <3>2 DEF InCritical, TypeOK
    <3> QED
      BY <3>3 DEF Abstract!Next, Abstract!Enter
  <2>3. CASE ReadOwnOwner(p) \/ ReadOtherOwner(p) \/ Crash(p)
    BY <2>0, <2>3, LeavesOne DEF Abstract!Next
  <2>4. ASSUME \E from \in PcStates \ {"critical"}, to \in PcStates \ {"critical"} :
                 Goto(p, from, to)
        PROVE  FALSE
    BY <2>0, <2>4 DEF Goto, InCritical, TypeOK
  <2> QED
    BY <2>1, <2>2, <2>3, <2>4
    DEF Step, Begin, Mkdir, StatStale, RecoverRemove, Timeout, WriteOwnerFails,
        AbortRemove, Release, PcStates, Holding
<1> QED
  BY <1>1, <1>2, PromptInvariant, PTL DEF Spec, ImplementsMutex, Abstract!Spec
=============================================================================
