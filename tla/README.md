# Formal models of the team runtime

oh-my-codex runs a *team*: a leader and several worker agents, each a process
of its own, that share work through JSON files under
`.omx/state/team/<team>/`. There is no server. Every CLI call, every worker,
the leader's monitor and several hooks read and write the same files at the
same time, may be killed at any moment, and coordinate with directories that
serve as locks. This directory holds TLA+ models of that coordination, TLC
configurations that check them on small instances, and proofs of the central
theorems that TLAPS checks for every value of the constants.

Paths below are relative to the repository root.

## 1. The system

| Part | State | Operations | What is hard |
| --- | --- | --- | --- |
| File locks (`src/team/state/locks.ts`, `dispatch-lock.ts`) | a directory, its mtime, the file `owner` in it | acquire, time out, recover a stale lock, release | crash while holding; stat and rm are separate; removal by path |
| Task store (`src/team/state/tasks.ts`, `state.ts`) | `tasks/task-<id>.json`: status, owner, claim, version, dependencies | create, claim, transition, release, reclaim, update | leases run out; reads before locks; dependencies under other locks |
| Task assignment (`runtime.ts` `assignTask`) | the task's claim, the worker's inbox | gate, claim, annotate, dispatch, roll back | one step of several fails; the gate is evaluated on an old read |
| Monitor (`runtime.ts` `monitorTeam`, `state/monitor.ts`) | `monitor-snapshot.json`, `events.ndjson` | poll: reclaim, assign, announce, save the snapshot | whole-file read-modify-write without a lock, by several processes |
| Team phase (`phase-controller.ts`, `orchestrator.ts`) | `phase.json` | infer, walk, reopen; the Stop hook's `failed` | unlocked overlapping writers; bounded fix loop; reopening |
| Dispatch queue (`state/dispatch.ts`, `mcp-comm.ts`, `notify-hook/team-dispatch.ts`, `crates/omx-runtime-core`) | dispatch requests, in `dispatch.json`, `requests.json` and the engine's event log | enqueue, type, notify, fail, receipt wait, fallback | three stores, a Rust process without a lock, late receipts, kills between typing and recording |
| Mailbox (`state/mailbox.ts`) | messages per worker, in two stores | send, broadcast, notified, delivered | duplicate suppression, two stores |
| Team config and scaling (`scaling.ts`, `state.ts`) | `config.json`: workers, next ids | scale up and down with rollback, id allocation | one file written under two different locks |
| Shutdown (`runtime.ts` `shutdownTeam`) | requests and acknowledgements per worker | gate, request, wait, force | late acknowledgements, partial cleanup |
| Workflow modes (`src/modes`, `src/state`, `hooks/keyword-detector.ts`) | a state file per mode, two lists of active skills | start, write, prompt, update, cancel, clear | no lock at all; a decision read from a list, several files written after it |

The parts meet in the files. `monitorTeam` reads the snapshot, lists the
tasks, reclaims expired claims, assigns pending tasks (which claims them and
dispatches a message), derives a phase from the list and writes it, announces
what changed, and writes the snapshot. At the same time workers claim, finish
and release tasks through the team API, and `transitionTaskStatus` appends
events and marks the snapshot on its own.

What makes each part correct:

* **Locks.** Two bodies never overlap; a lock left by a killed holder is
  recovered; whoever times out or fails leaves the lock of others alone.
* **Tasks.** A worker with a running lease keeps its task; finished tasks stay
  finished; work starts only when its dependencies are completed; a version
  identifies a content; every claim comes to an end.
* **Assignment.** No code task is assigned without approval; a failed dispatch
  does not leave its claim behind for good.
* **Events.** Every completion is announced, nothing else is, and only once.
* **Dispatch.** No request is reported told to a worker that nobody typed;
  none is typed twice; a failed one stays failed; whoever waits is answered and
  every request settles.
* **Scaling.** Live workers have names of their own and are known to the
  configuration; there is always one and never too many; a task file is never
  replaced by another.
* **Modes.** Modes that exclude each other are not active together; what is
  active is listed; a clear leaves nothing behind; what ended stays ended.
* **Phase.** Every write is a legal walk; the phase ends when the work does,
  reopens when there is work again, and the fix loop is bounded.

`PROJECT.json` lists the components with their status, and the hazards with
the source line each one bites at and the properties that would notice.

## 2. The modules

| Module | Models | Uses |
| --- | --- | --- |
| `Mutex` | what a caller wants from a lock | |
| `DirLock` | the directory lock, one step per file-system call | refines `Mutex` |
| `TaskRecords` | the content of a task file and what each operation does to it | |
| `TaskLedger` | the task API as atomic operations | extends `TaskRecords` |
| `TaskBoard` | the task API as the code runs it, and `assignTask` | extends `TaskRecords`, refines `TaskLedger` |
| `CompletionEvents` | transitions, polls and the announcement of completions | |
| `PhaseController` | the phase, its polls and the Stop hook | |
| `RequestStore` | the stores of dispatch requests and the functions that change them | |
| `Dispatch` | calls, hooks and engine processes on these stores | extends `RequestStore` |
| `TeamScaling` | the team's configuration between scale-up, scale-down and createTask | |
| `WorkflowModes` | the mode files and lists of one session | |
| `DirLockProofs`, `TaskLedgerProofs`, `TaskBoardProofs`, `CompletionEventsProofs`, `PhaseControllerProofs`, `DispatchProofs`, `TeamScalingProofs`, `WorkflowModesProofs` | theorems | the module they are named after; `TaskBoardProofs` also the theorems of `TaskLedgerProofs` |
| `MC*` | instances for TLC | |

Definitions headed `Fault:` are deliberate mistakes. No specification uses
them; they replace the definition that follows them in order to see whether
the properties notice.

### DirLock

All four functions of `locks.ts` and `withDispatchLock` are the same protocol
with different paths and deadlines, so one module stands for them. `dir` is
the caller whose `mkdir` made the directory now at the path, `owner` the token
in its `owner` file, `stale` whether its mtime is older than `LOCK_STALE_MS`.
The retry loop is a caller in `"trying"`: `Mkdir` when nothing is there;
otherwise `StatStale` followed, as a separate step, by `RecoverRemove`; or
`Timeout`. `WriteOwner` can fail (`WriteOwnerFails`, then `AbortRemove`).
`finally` is `ReadOwnOwner` then `Release`, or `ReadOtherOwner`. Every rm acts
on the path, whoever's directory is there. `Crashable` callers can be killed
at any step; the directory of a `Slow` one may grow old while it is in use.
A suspended laptop is enough for that, and so is `scaleUp`, which waits up to
45 s for each worker (twice when a trust prompt is in the way) under a lock that
goes stale after five minutes. Nobody else's grows old: every other body is
a handful of file operations. `misremoved` is a history variable: some rm took a
directory from a caller that was using it.

`withTaskClaimLock` writes the owner file inside the `try` whose `finally`
releases. After a failed write it removes the directory and then looks for
its token once more, which is never there, so the steps are the same.

### TaskRecords, TaskLedger, TaskBoard

A record has a status, an owner, a claim token (0 for none), a version,
dependencies and `requires_code_change`. Subjects, results and plans are left
out. `claim.owner` is left out because `claimTask` is the only writer of both
owners and writes the same worker. Time appears as `lease[t]`, the tokens of
`t` whose `leased_until` is still ahead. Status `blocked` is in the type but
written by no code, so it does not appear. `claimTask` turns an expired claim
into a pending task without owner before it goes on; `Claimable` states the
outcome.

`TaskLedger` is the promise: each operation happens at one instant. `TaskBoard`
is the code. A call is started with the arguments and pre-lock checks of the
source (`StartClaim`, `StartAssign`, `StartFinish`, `StartRelease`,
`StartReclaim`, `StartEdit`), waits for the lock (`Acquire`, or `GiveUp` after
five seconds), re-reads and decides (`Accept`, `Reject`), writes
(`WriteClaim`, ...), appends its event, and unlocks. Arguments that do not
influence the interleaving before the write (the new status, the edited
fields) are chosen at the write, which keeps the state space small and allows
the same behaviours. `assignTask` goes on after its claim: it may call
`updateTask` (`AssignEdit`), then the dispatch succeeds (`DispatchOk`) or
fails and the claim is released through the lock again (`DispatchFails`).
An `updateTask` that times out throws inside that `try`, so `GiveUp` leads to
the same release.

`lock[t]` is the holder of the claim lock. `TaskBoard` uses the lock as it is
when no caller outlives `LOCK_STALE_MS`: exclusive, and left as an orphan by a
killed holder until somebody removes it. This is the condition under which
`DirLock` implements `Mutex`; `MCLockStolen` shows what happens outside it.

The model is wider than the code in one respect: any token issued so far may
be presented by anyone, because tokens are in the files for all to read.

### CompletionEvents

`transitionTaskStatus` appends `task_completed` inside the claim lock and then,
outside any lock, reads the snapshot and writes it back with the task marked.
A poll reads the snapshot first, lists the tasks later, announces those that
the old snapshot knew as unfinished and unmarked, and saves the new statuses
with the *old* marks. Both sides tell completed tasks from all others only, so
`unfinished` stands for pending, in progress and failed. A rejected transition
marks the task too, because the code tests only whether it got the lock.

### PhaseController

Tasks appear as what a poll computes from its list: whether some are open,
whether some failed, whether some completed code task lacks verification
evidence. A poll is three steps: inspect, read `phase.json`, write the
reconciled state. `Path`, `Step`, `Walk` and `Reconcile` translate
`buildTransitionPath`, `transitionPhase` and `reconcilePhaseStateForMonitor`
(`Onward` is one turn of its loop; no path has more than four).
Of the list of transitions only the reason of the last is kept. The phase
`cancelled` is never written to `phase.json` by the team code and is left out.

### RequestStore, Dispatch

A dispatch request exists three times: in the engine's event log
(`events.json`, here `log`), in `dispatch.json`, which the engine regenerates
from its log after each command and which TypeScript edits as well (`view`),
and in `requests.json`, which only TypeScript writes (`legacy`).
`RequestStore` has what each side accepts and does: `Accepts` and `Processed`
are the engine's `process`, `Moved`, `WithPending` and `Attempted` the edits
of the list. A request has the name of the call that created it.

`Dispatch` is who does it when. A command of the engine is a process of its
own with the steps `Load`, `Refuse` or `Persist`, `Regenerate`. It overlaps with
others, since not every caller holds the dispatch lock, and its caller kills it
after five or ten seconds (`ExecFails`), wherever it is: an `events.json` that is
cut off makes the next engine start from an empty log (`LoseLog`), a
`dispatch.json` that is cut off stays so until it is written again (`CutView`,
`cut`). `dispatch.json` is also half written during `Regenerate`; either way a
reader falls back to `requests.json` (`ReadTorn`). A *call* is
`dispatchCriticalInboxInstruction`: `Dedupe` or `Enqueue`, `ReadBack` or
`QueueInList`, `Receipt` until the deadline, then `TypeDirectly` or
`TypingFails`, then the marking of the request through the engine and, when
that fails, in the list. A *hook* is `drainPendingTeamDispatch`: `Claim` (read
and lease), `WriteClaims` under the lock, `Inject` outside of it, then under
the lock again `LeaveSettled` or `Finalize` and `Conclude`. `Kill` ends any of
them anywhere, and the engine it had started with it.

`Direct` names the calls that use the direct transport. Both kinds meet in one
team: the initial instructions use the direct path, and the
`dispatch_mode` is read anew by each call. `typed` counts the confirmed
injections of hooks, `sent` the requests whose text a call typed itself.
`mishap` is a history variable that says that one of the events happened after
which the code cannot keep its promise: a kill of a call or a hook, an engine
killed as it wrote one of the files, an engine process that
persisted over the event of another, a torn read that differed from the view,
a status that reached the list and not the log. Properties with `mishap` say
that nothing *else* breaks them. `LogLifecycle` has no such premise and names
what it allows, and `NotifiedWasTyped`, `CallsReturn` and `PendingSettles` hold
whatever happens, also while `dispatch.json` stays cut off (`Shown`).

Left out: requests of the kinds mailbox and nudge; hooks that claim several
requests at once (the model has the same claims by several runs); the cooldown
and the rate limits, which let a hook pass over a request (it may in the model);
the deferral when the leader's pane is missing; a live hook slower than its
30 s lease; lock timeouts; a disabled bridge; log compaction; an engine that
lives on when its caller is killed; an engine that cannot write (a full disk).

### TeamScaling

`config` stands for `manifest.v2.json` and `config.json`, which every write
brings to the same content: workers with their index and pane,
`next_worker_index` and `next_task_id`. `createTask` (`ReadForTask`,
`WriteTask`, `WriteNextTask`) holds the team lock; `scaleUp` (`StartUp`,
`Split`, `AddWorker` per worker, tasks by `createTask`) and `scaleDown`
(`StartDown`, `Teardown`, `RemoveWorkers`) hold the scaling lock. Both read the
whole file and write the whole file later. Failures are `GrowFails` with the
rollback `UndoPanes`, `DeleteTasks`, `RestoreConfig`; `SplitUncaptured`, a pane
whose name tmux did not tell, so that the rollback leaves it; `Throws`, which skips
the rollback; and `RemovalFails`, after which killed workers stay in the file.
A lock is freed when its holder is dead (`RecoverLocks`); the scaling lock also
from under a live one (`OutlastLock`), which goes on beside its successor and
leaves the lock of that one alone when it is done (`Release`).
`astray` is the history variable: a write undid workers or the index of
another, a scaler was killed or lost its lock, one threw with a pane not yet
written down, or a pane was never known. The team lock is taken to be exclusive:
`createTask` keeps it for four file operations.

Left out: the status files of workers and the wait for them (a scale-down may
tear down at any time); worktrees; the writers of the configuration in team
start and shutdown.

### WorkflowModes

`active` are the modes whose `<mode>-state.json` says so, `root` and `session`
the two copies of `skill-active-state.json`. The three ways to start a mode
(`startMode`, `state_write`, a prompt) share `Decide` (the transition rules
`Allowed` and `Ends`, from `evaluateWorkflowTransition`) and `Complete` (the
modes that end for the new one); then `Activate` or, one file per mode that the
prompt lists, `Seed` writes the mode's file, and `ReadRoot`, `Check`, `WriteRoot`,
`WriteSession` are `syncCanonicalSkillStateForMode`, which decides once more on its
way. A prompt reads the root's list first (`Peek`) and the session's at
`Decide`. A prompt for a skill that is no mode (code-review, say, or the
word "stop") checks nothing and starts no mode: `Replace` makes its entry,
`Plain`, the whole list of the session. Like every prompt for something else it ends
an interview afterwards (`Interview`). `Load` and `Store` are `updateModeState`,
with progress and cancellation; `Clear` is `state_clear`. No lock is held in any
of this, so every step is one file operation, `Kill` may come between any two, and
a list that is being written may be read as empty.

Four history variables keep the properties honest: `disturbed` (two
operations overlapped or one was killed: then the code promises nothing but
`ClearHeals`), `putBack` (finding 4 happened), `dropped` (the modes that a plain
skill's prompt took off the session's list), `late` (the second decision denied
what the first allowed). A start may be denied late, when the file of its mode is
written and says active and no list has it, in two ways. After a prompt put an old
list back it takes four modes (deep-interview, ralph, ultrawork and ultraqa,
say), one more than the run has. After a plain skill's prompt it takes two that
exclude each other, such as ralph and ralplan: the first decision reads the session's
list, which has neither, and the second one reads the root's as well. `ActiveListed`
has `~late` as a premise, and `DeniedInTime` says that nothing else leads there.
The modes in `dropped` run on, and a prompt, which is not decided on twice, starts
one that excludes them beside them: this is why `ActiveCompatible` needs
`dropped = {}`, and `ActiveListed` says exactly which modes are missing.

Left out: autopilot, which supervises other modes, with the branch of a prompt
for a skill it supervises, and `team`, whose prompts write the root scope; prompts
that name several skills, cancel a locked interview, or answer a question; entries
of other sessions in the root list; the clear of all sessions; unreadable files
other than half-written lists. Whether a finished interview has the evidence
its gate asks for is any choice.

## 3. The runs

| Run | Configuration | Shows |
| --- | --- | --- |
| `lock` | 3 callers, one killable, one slow, fairness | a mutex until a wrong removal, which recovery starts; orphans go away |
| `lock_stolen` | 3 callers, one killable | **violation** of `MutualExclusion` (finding 1) |
| `ledger` | 2 tasks, 2 workers, 3 claims, 1 edit | the promises of the task API |
| `board` | 1 task, 2 overlapping calls, 2 claims, 1 edit, 1 crash, fairness | `TaskBoard` implements `TaskLedger`; events match; the approval gate holds; every claim ends |
| `events` | 2 tasks, 2 callers, 1 monitor, 3 calls, 1 crash, fairness | announcements are true, complete, and single when nothing overlaps |
| `events_marked` | the same | **violation** of `MarkerMeansEmitted` (finding 2) |
| `phase` | 2 polls, 1 fix attempt, 1 hook, 1 stall, 1 new round, fairness | legal paths; completion; reopening |
| `phase_fix_limit` | 1 poll, 1 fix attempt, 2 rounds | **violation** of `FailedStays` (finding 3) |
| `dispatch` | 2 calls for one instruction, one of them direct, 1 hook, 2 attempts, 1 kill or engine failure, fairness | nothing reported that was not typed, nothing typed twice without a mishap, the log's life cycle; calls return and requests settle |
| `scaling` | 2 scalers, 1 creator, 1 to 3 workers, 3 panes, 2 tasks, 1 crash or lost lock | names, panes, team size, task files |
| `modes` | 2 processes, 4 operations, 3 modes and a plain skill, 1 kill | exclusion and listing when undisturbed, no late denial, healing by clear |
| `modes_resurrect` | 1 process, 4 operations, 3 modes, nobody killed | **violation** of `NoResurrection` (finding 4) |

### Bounds

Two overlapping calls are enough for every interference on one lock-protected
file, because a body depends on nothing but the file it read and on others
having written in between; three callers are used for the bare lock, where a
recovering caller, a fresh holder, and a late one are three roles. Two claims
let a token be superseded by another; one edit lets a record change under
a waiting call; one crash leaves one orphan, and a second adds nothing a
recovery did not restore. `board` has one task and one worker because calls on
different tasks meet only through dependencies; its task may depend on itself
and then never be ready. An instance with two workers was checked as well
(1,199,236 states), and the proofs hold for any number of tasks, callers and
workers. The dispatch run has one instruction that two
calls want told, the only case in which calls meet; one hook suffices for the
race of hook and fallback, and the proofs hold for any number; the safety
properties passed with two hooks and two faults as well (4.2 million states). Two
attempts let
the limit be reached after a retry. In `scaling` the indices and panes are what
the initial team and two new workers need, so that an index is given
out again after a rollback, or twice by two scale-ups; tasks are two so that one can be filed over
another. In `modes` the first process starts, updates and cancels through
`modes/base.ts`, the second writes, clears and is prompted (`Does`); deep-interview,
ralplan and ultrawork are a mode that ends for another, one that excludes,
and one that overlaps with all. One process with all operations on all seven modes
passed with five of them.
Fix attempts are limited to 1 instead of 3 so that the limit is reached.
Claims and edits are counted in the state, so `ledger` disables the deadlock
check: when the bounds are used up and every task is finished, nothing is
left to do.

### Fairness

* A caller that is not killed executes its next step (`WF` on bodies, on
  `Announce`, `ReadSnapshot`, `Mark`, on the hook's write).
* Time passes: leases run out, orphaned locks become stale, and a caller
  removes them (`WF` on `Expire`, `RecoverLock`, `Age`).
* The leader polls again and again (`runtime-cli.ts` polls in a loop, and
  `omx team status` and `await` poll as well): `WF` on polls. Its reclaim of a
  task it keeps finding expired, and its attempt on a lock that keeps becoming
  free, are strongly fair: it retries every 25 ms for five seconds in every
  poll, and bodies last milliseconds.
* `board` assumes `PromptBodies`: no live body keeps a lock for the five
  seconds after which others give up. Without it the leader may time out for
  ever, in the model as in the code.
* In `dispatch`, a call that was started and is not killed goes on, and so does
  the engine it started (`WF` on `Call`, `Engine`). The hook runs again after
  every turn, and the fallback watcher runs it on a timer; it takes up the
  pending requests whose cooldown is over, and goes on when not killed (`WF` on
  `Hook` and `Claim`). The lock of a killed holder and the lease of a killed
  hook grow stale (`WF` on `RecoverLock`, `RecoverLease`).

No fairness is assumed for starting work, for workers finishing, or for
dispatch succeeding.

## 4. Findings

1. **A stale lock can be stolen back** (`lock_stolen`). `maybeRecoverStaleLock`
   stats the directory and removes the path in two calls. Two callers see the
   same orphan; one removes it, makes a new directory and enters; the other
   removes that new directory and enters as well. Comments on the scaling lock
   promise exclusion. `MutexUntilMisremoved` and `OnlyRecoveryMisremoves`
   show this is the only way in.
2. **Marked without an event** (`events_marked`). `transitionTaskStatus` marks
   the task as announced also when the transition was rejected. The comment on
   `completedEventTaskIds` says the marked tasks are those whose event has been
   emitted. Such a mark also silences the monitor for the real completion.
3. **The fix limit does not hold** (`phase_fix_limit`). A team that `failed`
   because its fix loop was exhausted leaves that phase on the next poll with
   the reason `tasks_reopened` and a counter of 0, although no task reopened.
4. **A prompt brings an ended mode back** (`modes_resurrect`).
   `recordSkillActivation` reads the root's list, completes the modes that the
   prompted skill replaces, and writes the root's list as it was read. The
   next synchronisation merges the completed mode into the session's list.
   `docs/STATE_MODEL.md` says that compatibility sync must not resurrect
   completed source modes. No overlap and no kill is needed.

More observations follow from the design and are listed as hazards: a
poll that overlaps a transition can announce a completion twice (which is why
`OnceUnlessRaced` has its premise), and a team whose tasks reopen during
`team-verify` keeps that phase until they end. A status that TypeScript writes
in the list only is undone when the engine regenerates it, together with the
count of attempts; a scale-up that throws leaves its last pane running under
an index that is given out again, and one of seven or more slow workers can lose
its lock to another. An engine that hits its time limit while it writes
`events.json` makes the next one forget every request. A prompt for a plain skill
takes active modes off the session's list, after which modes that exclude each other
can run together. The properties of `Dispatch`, `TeamScaling` and `WorkflowModes`
name these as the only ways to go wrong.

## 5. The proofs

**`DirLockProofs`**, for any set of callers, killed and slow ones. The
invariant says that while nothing was wrongly removed, whoever is in
`Holding` (between `mkdir` and the end) is the maker of the directory at the
path. Two holders would then be the same caller, which is
`ExclusionUnlessMisremoved`. It also gives `OnlyRecoveryMisremoves`: an rm
of a holder removes its own directory, so the first wrong removal can only be
made by a caller that is not a holder, one that recovers. If nobody is
`Slow` or `Crashable` no directory is ever stale, so nobody recovers, so
nothing is wrongly removed: `PromptExclusion` and, mapping the set of callers
in `"critical"` to the variable of `Mutex`, `PromptImplements`. For everybody else
`MutexUnlessMisremoved` says that up to the first wrong removal the lock makes
only steps of `Mutex`. It implies `ExclusionHolds`.

**`TaskLedgerProofs`**, for any tasks, workers and bounds. The inductive
invariant is `TypeOK` (a claim exactly while in progress), `LeaseHonoured`,
and that a task never created has version 0, which makes its creation a change
of version by one like any other. The action properties `TerminalForever`,
`StartsReady` and `VersionCountsChanges` follow from it step by step, and rest on
what each operation on records returns and does to status, owner and claim.

**`TaskBoardProofs`**, for any callers, tasks, workers, approvals, bounds and
crashes: `BoardTypes` and, the main result, `BoardImplements`, that every
behaviour of the interleaved calls is one of the atomic ledger
(`ImplementsLedger`). A call takes effect when it writes its file; every other
step leaves the ledger alone. For the write to be a ledger step, what the
caller read and tested under the lock must still hold when it writes, and that
is the invariant (`WriterOK`): the record seen is the record on disk, and the
tests on it still pass. It is kept because of the lock discipline in `TypeOK`
(no two callers are in the body of one task, also after crashes and
recoveries), because leases only run out, which makes an expired claim no less
expired, and because completed tasks stay completed, so dependencies, which
are under other locks, stay ready (`WriterKept`). `CallsKeepPromises` takes
the theorems of `TaskLedgerProofs` over the refinement: leases, finished tasks,
dependencies and versions are as promised of the calls as the code runs
them. `BoardEvents` adds to the invariant which caller is about to append the
event of a finished task (`EventsOK`): the one in the body, hence one. For
`BoardGate` the invariant (`GateOK`) follows an assignment from the gate to
the write: either the record has the version the gate saw, and then the same
`requires_code_change`, or the version comparison of the claim rejects it.

**`CompletionEventsProofs`**, for any tasks, callers and polls. `Founded` says
that whatever a snapshot, on disk or in flight, knows as completed and
whatever a poll has on its list is completed on disk, and completed tasks stay
so; `AnnouncementsFounded` follows. `Serial` says, as long as nothing
overlapped, for which tasks an event is still owed by the one call or poll
that is running, and that the snapshot is in step otherwise; `OnceIfSerial` is
the case in which nobody is running.

**`DispatchProofs`**, for any calls, hooks, keys, faults and kills. The invariant
`DispatchInv` has four parts. `StoresTrue`: no store, no copy that the lock's
holder is about to write and no engine's memory says notified or
delivered of a request that was not typed; all of them are needed, since each is
written over another one. `CmdTrue`: what is asked of the engine is true when it
arrives (a notify only for what was typed). `CallTrue` and `HookTrue`: a call or
hook past its typing has typed. `CallTrue` also says that a call that has
not persisted its queue command has left no trace in any log
(`Unborn`, `NoTrace`), so a request is created once, which gives `LogKept`:
every change of the log is a step of the life cycle unless an engine overwrites
a log that changed after it was loaded, or is killed as it writes, which
loses the log as a whole.

The other three theorems hold until a mishap, and have an invariant of their own
(`Calm`). `LockKept`: who is between taking the lock and writing holds
it, and nobody else, so no lock is ever an orphan. `LeaseKept`: likewise, a hook
has the lease of the request it handles and of no other. `ViewBehind`: the status
in `dispatch.json` is the log's or an earlier one in the life of the request, so
all that a reader can be wrong about is to be late. A call that
enqueues may therefore miss a pending request only if the list lacks it entirely,
and then its creator still holds the lock (`QueueOK`): `OneRequestPerKey`.
A hook that claims a request from a list that lags will find at its
write, before it types, that list and log differ, which is a mishap; otherwise
nobody typed the request, and nobody else will while it has the lease (`HookOK`,
`TypedSettles`): `NothingTypedTwice`. A status that lags never goes
back, which is `FailureIsFinal`. The invariant was checked by TLC with two hooks
and two faults as well.

**`TeamScalingProofs`**, for any scalers, creators and bounds, crashes
included. `ScalingInv` says of every configuration that somebody read and may
write (`copy`, `draft`) that it has between one and `max_workers` workers, that what a
scale-up added is room it checked, that what a scale-down removes leaves one,
and that the id under which createTask is about to file is free: the team lock
makes it so, not `next_task_id`, which scale-ups write back. This gives
`SizeKept` and `TaskFilesKept`.
`NamesInv` is about the time before anything went astray: then the copy of the
scaler agrees with the configuration, indices and panes of the workers listed are
below the counters, and every live pane is listed or fresh: `NamesAreUnique` and
`PanesAreListed`.

**`WorkflowModesProofs`**, for any processes, modes, overlaps and kills:
`ModesTypes`, and `ClearsHeal`: an invariant (`Healing`, `AloneOK`) says that
while a clear or cancellation is alone, the files it has passed do not have the mode.
The other three are about operations that nobody disturbed. `ListedInv` says that
then one operation runs at a time and that an active mode is listed or is the one
that this operation is about to list, unless a plain skill's prompt dropped it:
`ActiveIsListed`. `CalmInv`, which holds until a prompt puts an old list back or
drops a mode, says which modes may be in the lists
together and in the list that an operation took along: `ActiveAreCompatible`
and `NothingDeniedLate`, since the second decision then reads what the
first one left. A plain skill's prompt that drops no mode found none listed, and
then none is at the root. That the lists are `Compatible` is not inductive by itself:
ultragoal is no canonical mode, so its end removes it from no list, and
the invariant has to allow it beside ultraqa. The three invariants were checked
by TLC on all seven modes with one process.

**`PhaseControllerProofs`**, for any polls, hooks and fix limits. `PhaseTypes`
needs beside the types only which targets a poll may carry. `PollsNeverThrow` is
`PathsLegal`: from every phase to each of the five targets a poll infers, each
turn of the path is allowed by `TRANSITIONS`; it follows from the table of the
paths. `PollReaches` says what one poll makes of the phase it read: its
target; `failed`, if that took one fix attempt too many; the same phase, if
both are terminal; the target and a counter of 0, if it reopens.

Assumptions are the `ASSUME`s of the modules (names that stand for nobody are
not callers, callers of two kinds differ, bounds are natural numbers) and, for
the two `Prompt` theorems,
`Slow = {}` and `Crashable = {}`. Everything is checked to the last leaf.

Every inductive invariant was checked by TLC on the small instance before it
was proved.

Every invariant and every action property that a passing run checks is a theorem.
Only model-checked: the liveness properties (`OrphanRecovered`, `ClaimsEnd`,
`LostEventRecovered`, `CompletesWhenDone`, `ReopensForWork`, `CallsReturn`,
`PendingSettles`), which need fairness and `ENABLED`, beyond the prover's
reach.

## 6. Not modelled, and the plan

Most of the repository is not a protocol. Of its 127,000 lines, the largest
files parse command lines (`cli/index.ts`), install (`cli/setup.ts`,
`config/generator.ts`), diagnose (`doctor.ts`), drive tmux
(`tmux-session.ts`), or decode hook payloads and compose prompts
(`codex-native-hook.ts`). They keep no state of their own that others
share, and call into the operations modelled here; notifications, wiki and the
stand-alone Rust helpers do not even do that. The models are therefore a
small share of the lines, and a large one of those where processes meet.

Also not modelled, inside the modelled parts: the choice of worker and task in
`rebalance-policy.ts` (any choice is allowed instead); the evidence texts that
a completion may have to contain (any completion may be rejected instead);
worktrees and integration of commits; worker status files and the drain wait;
`writeTaskApproval` during a run; what section 2 lists under "left out" for
each module. The long-running modes (`autopilot/fsm.ts`, `ralph`, `ultragoal`)
are each a sequential loop of one agent.

What remains, in the order of importance:

1. `Mailbox`: messages over the same engine and files as `Dispatch`; at most
   one undelivered copy of a message, nothing lost between the legacy file and
   the engine's.
2. `Shutdown`: requests, acknowledgements, force, what is left after a partial
   failure, and its write of the configuration without a lock, against scaling.
3. Rust authority lease, replay cursor and compaction of the event log.
4. Proofs: abstract specifications of the dispatch queue and of the
   configuration that `Dispatch` and `TeamScaling` implement until something goes
   wrong, as the lock does; the safety half of the liveness properties.
