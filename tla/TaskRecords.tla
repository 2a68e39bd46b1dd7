---------------------------- MODULE TaskRecords ----------------------------
(***************************************************************************)
(* The task files of a team (tasks/task-<id>.json) and what the operations *)
(* of src/team/state/tasks.ts do to the content of one of them.            *)
(*                                                                         *)
(* A claim is its token: claimTask is the only writer of `claim` and of    *)
(* `claim.owner`, and writes the same worker into `owner`, so the claim's  *)
(* owner never differs from the task's.  Whether its lease has run out is  *)
(* not a field of the record but a matter of the clock, and is passed to   *)
(* the operators as `expired`.                                             *)
(***************************************************************************)
EXTENDS Naturals

CONSTANTS
  Tasks,      \* task ids
  Workers,    \* worker names of the team's configuration
  NoWorker    \* no owner

NoClaim == 0

ASSUME NoWorkerAssumption == NoWorker \notin Workers

(* "absent" is a task whose file has not been written.  "blocked" is in    *)
(* the type of the code but no code in src/ ever writes it.                *)
Statuses == {"absent", "pending", "in_progress", "completed", "failed"}
Terminal == {"completed", "failed"}

TaskRecord == [
  status  : Statuses,
  owner   : Workers \cup {NoWorker},
  claim   : Nat,              \* token, NoClaim when there is none
  version : Nat,
  deps    : SUBSET Tasks,     \* depends_on
  code    : BOOLEAN ]         \* requires_code_change

Absent == [status |-> "absent", owner |-> NoWorker, claim |-> NoClaim,
           version |-> 0, deps |-> {}, code |-> FALSE]

Exists(v) == v.status # "absent"

(* canTransitionTaskStatus: only work in progress becomes terminal.        *)
CanTransition(from, to) == from = "in_progress" /\ to \in Terminal

(* computeTaskReadiness: every dependency is completed; a failed or a      *)
(* missing dependency is an incomplete one.                                *)
Ready(all, v) == \A d \in v.deps : all[d].status = "completed"

(* What claimTask accepts: work in progress whose lease has run out, or    *)
(* pending work that has no live claim and is not set aside for another.   *)
Claimable(v, w, expired) ==
  \/ /\ v.status = "in_progress"
     /\ v.claim # NoClaim
     /\ expired
  \/ /\ v.status = "pending"
     /\ v.claim = NoClaim \/ expired
     /\ v.owner \in {w, NoWorker}

Claimed(v, w, token) ==
  [v EXCEPT !.status = "in_progress", !.owner = w, !.claim = token,
            !.version = @ + 1]

(* The test transitionTaskStatus and releaseTaskClaim share.               *)
HoldsClaim(v, token) ==
  v.owner # NoWorker /\ v.claim # NoClaim /\ v.claim = token

Finishable(v, to, token, expired) ==
  CanTransition(v.status, to) /\ HoldsClaim(v, token) /\ ~expired

(* The owner stays on record; only the claim is dropped.                   *)
Finished(v, to) ==
  [v EXCEPT !.status = to, !.claim = NoClaim, !.version = @ + 1]

(* Pending work without claim or owner is reported as released, unchanged. *)
Releasable(v, token, expired) ==
  /\ Exists(v)
  /\ v.status \notin Terminal
  /\ HoldsClaim(v, token)
  /\ ~expired

Reclaimable(v, expired) ==
  v.status = "in_progress" /\ v.claim # NoClaim /\ expired

(* Fault: the version is not raised.                                       *)
FreedSameVersion(v) ==
  [v EXCEPT !.status = "pending", !.owner = NoWorker, !.claim = NoClaim]

(* releaseTaskClaim and reclaimExpiredTaskClaim write the same record.     *)
Freed(v) ==
  [v EXCEPT !.status = "pending", !.owner = NoWorker, !.claim = NoClaim,
            !.version = @ + 1]

(* updateTask merges; its callers never pass a status or an owner.         *)
Edited(v, deps, code) ==
  [v EXCEPT !.deps = deps, !.code = code, !.version = @ + 1]

(* createTask: API and team start always pass status 'pending'.            *)
Created(owner, deps, code) ==
  [status |-> "pending", owner |-> owner, claim |-> NoClaim, version |-> 1,
   deps |-> deps, code |-> code]
=============================================================================
