---------------------------- MODULE RequestStore ----------------------------
(***************************************************************************)
(* The stores of dispatch requests and the functions that change them.     *)
(*                                                                         *)
(* A request is named by the call that created it. The Rust engine keeps   *)
(* a log of its statuses (events.json); the TypeScript side keeps a list   *)
(* of records with a status and a number of attempts (requests.json, and   *)
(* dispatch.json, which the engine regenerates from its log).              *)
(***************************************************************************)
EXTENDS Naturals

CONSTANTS
  Calls,       \* calls that may each create a request
  Key,         \* Key[c]: what the dedupe compares: kind, worker, correlation key
  MaxTries     \* MAX_UNCONFIRMED_ATTEMPTS

ASSUME RequestAssumption ==
  /\ MaxTries \in Nat \ {0}
  /\ Key \in [Calls -> Nat]

Statuses == {"absent", "pending", "notified", "delivered", "failed"}
Logs == [Calls -> Statuses]
Lists == [Calls -> [status : Statuses, tries : 0..(MaxTries - 1)]]

EmptyLog == [r \in Calls |-> "absent"]

(* The list that write_compatibility_view leaves: the metadata are those   *)
(* of the queue command, which has no attempt_count.                       *)
ListOf(log) == [r \in Calls |-> [status |-> log[r], tries |-> 0]]

-----------------------------------------------------------------------------
(* The engine: what RuntimeEngine.process accepts, and its effect.         *)

(* Fault: mark_notified without its check of the present status.           *)
AcceptsAnyNotify(log, cmd) ==
  CASE cmd.op = "queue"   -> TRUE
    [] cmd.op = "notify"  -> log[cmd.req] # "absent"
    [] cmd.op = "deliver" -> log[cmd.req] = "notified"
    [] cmd.op = "fail"    -> log[cmd.req] \in {"pending", "notified"}

Accepts(log, cmd) ==
  CASE cmd.op = "queue"   -> TRUE
    [] cmd.op = "notify"  -> log[cmd.req] = "pending"
    [] cmd.op = "deliver" -> log[cmd.req] = "notified"
    [] cmd.op = "fail"    -> log[cmd.req] \in {"pending", "notified"}

Outcome == [queue |-> "pending", notify |-> "notified",
            deliver |-> "delivered", fail |-> "failed"]

Processed(log, cmd) ==
  [log EXCEPT ![cmd.req] = Outcome[cmd.op]]

(* The life of a request: what TEAM_DISPATCH_REQUEST_STATUS_TRANSITIONS    *)
(* and dispatch.rs allow, and its creation.                                *)
Life ==
  {<<"absent", "pending">>, <<"pending", "notified">>, <<"pending", "failed">>,
   <<"notified", "delivered">>, <<"notified", "failed">>}

LegalChange(before, after) ==
  \A r \in Calls : before[r] = after[r] \/ <<before[r], after[r]>> \in Life

-----------------------------------------------------------------------------
(* The TypeScript side.                                                    *)

(* Fault: deduplication compares the identifier, which is always fresh.    *)
EquivalentById(list, c) == {r \in {c} : list[r].status = "pending"}

(* equivalentPendingDispatch: the requests that stand for c already.       *)
Equivalent(list, c) == {r \in Calls : list[r].status = "pending" /\ Key[r] = Key[c]}

CanTransition(from, to) == from = to \/ (from # "absent" /\ <<from, to>> \in Life)

(* transitionDispatchRequest applies only if the record has one of the two *)
(* statuses and the transition is allowed.                                 *)
Transitions(list, r, from, to) ==
  /\ list[r].status \in {from, to} \ {"absent"}
  /\ CanTransition(list[r].status, to)

(* The record after a transition. attempt_count is only ever read of a     *)
(* pending record, so it is forgotten with that status.                    *)
Moved(list, r, to) ==
  [list EXCEPT ![r] = IF @.status = to THEN @ ELSE [status |-> to, tries |-> 0]]

WithPending(list, r) == [list EXCEPT ![r] = [status |-> "pending", tries |-> 0]]

(* Fault: the attempt is not counted.                                      *)
AttemptedUncounted(list, r, result) ==
  [list EXCEPT ![r] =
    CASE result = "confirmed" -> [status |-> "notified", tries |-> 0]
      [] result = "unconfirmed" -> @
      [] OTHER -> [status |-> "failed", tries |-> 0]]

(* Fault: one attempt too many before the request fails.                   *)
AttemptedOneMore(list, r, result) ==
  [list EXCEPT ![r] =
    CASE result = "confirmed" -> [status |-> "notified", tries |-> 0]
      [] result = "unconfirmed" /\ @.tries < MaxTries -> [@ EXCEPT !.tries = @ + 1]
      [] OTHER -> [status |-> "failed", tries |-> 0]]

(* finalizeClaimedDispatchRequest: the record after one more attempt.      *)
Attempted(list, r, result) ==
  [list EXCEPT ![r] =
    CASE result = "confirmed" -> [status |-> "notified", tries |-> 0]
      [] result = "unconfirmed" /\ @.tries + 1 < MaxTries -> [@ EXCEPT !.tries = @ + 1]
      [] OTHER -> [status |-> "failed", tries |-> 0]]
=============================================================================
