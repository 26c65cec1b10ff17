# Verification of Ralph v2

TLA+ modules, TLC configurations and TLAPS proofs for the parts of Ralph v2
that decide whether work is lost, done twice or reported done when it is not:
the workspace writer lease, the durable execution of a run, the slots, claims and
Git delivery of parallel runs, the journal of tool calls, and the supervision of
child runs by a watchdog. Every definition is translated from the TypeScript
source; `PROJECT.json` maps definitions to lines.

## 1. The system

Ralph executes the tasks of a PRD (a Markdown file with `[ ]`, `[~]`, `[x]`
markers) with an AI executor, checks each result with gates and a judge, and
ticks the task off. One `ralph run` process is the *supervisor*. Durable state is
a SQLite ledger in the workspace, the PRD file itself, and a lock file; executors
and tools are separate processes.

| Component | State it keeps | Operations | Hard behaviour | What makes it correct |
|---|---|---|---|---|
| Writer lease (`persistence/leases.ts`, `orchestration/run-lock.ts`) | rows of table `leases` | acquire (observe, probe, swap), renew by timer, bind a run, release | crashes, late renewals, owners on other machines, two acquirers at once | one writer; nobody is robbed while alive |
| Lock mirror (`run-lock.ts`) | file `execution.lock` | create, replace, rewrite, read-compare-remove | not transactional with the lease; Ralph v1 uses the same file | names the holder; a v1 process that got the file first keeps v2 out |
| Run execution (`orchestration/runner.ts`, `persistence/execution-store.ts`) | run, task, attempt and completion rows; markers in the PRD | open or resume, reconcile, select, activate, attempt, revise, complete, settle, stop | ledger and file cannot be written together; crash, deadline, stop or user edit at any step | a task is ticked only when approved; a completion is never half done for good |
| Scheduler (`scheduler.ts`) | none | select the next task | resumed tasks skip the dependency check | dependencies come first |
| Parallel capacity (`parallel-capacity.ts`) | lease rows for slots, in a project ledger and a machine-wide one | reserve over 2 to 4 scopes, roll back, assert owned, release | many processes with limits of their own, partial reservations, dead owners, releases that fail | limits hold; no slot is left behind |
| Parallel waves (`parallel-runner.ts`, `parallel-scheduler.ts`, `runner.ts`) | in memory: the wave; durable: task rows | select, claim, execute, integrate, release | workers run concurrently; release after integration only | a worker never runs without claims and slots |
| Resource claims (`resource-claims.ts`, `parallel-claims.ts`) | claim sets with modes | claim, renew, expand, release, recover | recovery lists, probes and then writes | conflicting claims exclude each other |
| Git delivery (`git-runtime.ts`, `git-state.ts`) | worktrees, integration records, refs | create, merge, recover | crash around moving a ref | a result is integrated once |
| Tool journal (`tool-call-journal.ts`, `tool-reconciliation.ts`) | intents and settlements | record, settle, reconcile | crash between effect and settlement | one settlement; unknown effects are not replayed |
| Child runs (`child-runs.ts`, `child-scheduler.ts`, `runner.ts`) | links parent to child, leases, restart events | reserve, start, supervise, restart, settle | the parent command dies and its worker lives on; restarts, late settlement | one coordinator per child; bounded restarts |
| Watchdog (`watchdog-monitor.ts`, `watchdog-runtime.ts`) | signals, probes | signal, probe, restart | a decision from an older observation; a worker that hangs | destructive actions are confirmed; nothing hangs for ever |
| Run control and shutdown (`run-control.ts`, `shutdown.ts`) | socket, descriptor, phase | stop, first and second signal | signals during shutdown | every process tree ends |
| Ledger and outbox (`ledger.ts`) | events, outbox | append, project to `events.jsonl` | crash between append and mark | no event lost or repeated |
| Distribution (`installer.ts`) | receipts, pointers | install, activate, recover | crash in the middle of an activation | one usable version |

The rest (PRD parser, configuration, providers, drivers, credentials, telemetry,
TUI, command parsing, gates, judge, context builder) is text processing, user
interface or I/O; `PROJECT.json` lists each with the reason it is left out. Where
the modelled parts depend on it, its result is a nondeterministic choice: what an
executor, a gate or the judge answers is any of the possible answers.

How the parts interact: `ralph run` acquires the writer lease and holds it for the
whole invocation, so `RunExecution` has one live supervisor at a time, which is what
`WritersExclude` of `WriterLeaseProofs` proves. A parallel run obtains slots through
`acquireDurableLease` of the same `leases.ts`, under an owner identity of its own; the
coordinator of a child run holds a lease of the same kind under the identity of its
worker. Each task of a wave needs its slots (`ParallelCapacity`) and its claims
(`ResourceClaims`) before its worktree is made (`ParallelDelivery`). The tools an
executor calls in an attempt (`RunExecution`) are journalled, and what is unsettled
is reconciled before the next attempt (`ToolCalls`).

`PROJECT.json` lists the hazards of this code, each at its line with the
properties that would catch it. Those without a property have a note: the model
reaches the case and section 3 describes it, or its component is not modelled yet.

## 2. Modules

| Module | What it is |
|---|---|
| `WriterLock` | abstract: what a writer lock promises |
| `WriterLease` | leases of one resource and the lock mirror; implements `WriterLock` |
| `WriterLeaseProofs` | theorems about `WriterLease` |
| `RunExecution` | a succession of supervisors executing one PRD |
| `RunExecutionProofs` | theorems about `RunExecution` |
| `ParallelCapacity` | slots of parallel runs of several projects |
| `ParallelCapacityProofs` | theorems about `ParallelCapacity` |
| `ResourceClaims` | claim sets of the processes of a parallel run, and their recovery |
| `ResourceClaimsProofs` | theorems about `ResourceClaims` |
| `ParallelDelivery` | worktrees and integrations of a parallel run, over crashes of its command |
| `ParallelDeliveryProofs` | theorems about `ParallelDelivery` |
| `ToolCalls` | the tool calls of a task: journal, host, durable process owners, reconciliation |
| `ToolCallsProofs` | theorems about `ToolCalls` |
| `ChildSupervision` | the loop that runs one child worker after another under the watchdog |
| `ChildSupervisionProofs` | theorems about `ChildSupervision` |
| `MC...` | values of the constants for TLC |

Definitions whose comment begins with `MUTANT` are the wrong variants that show
that a property can fail; no specification uses them.

### 2.1 WriterLease

A process is one command invocation. Its owner identity is new each time, so
`lease[p]` is the row of `p`. Each transaction of the ledger is one step, each
file operation on the mirror is one step, and everything between two awaits is
one step.

| Code | Actions |
|---|---|
| `acquireDurableLease`: read, grace check, probes, transaction | `ObserveFree`, `ObserveFresh`, `ObserveStale`, `ProbeConfirmed`, `ProbeRefused`, `CommitAcquire`, `CommitRetry` |
| `writeInitialMirror` | `MirrorOpen`, `MirrorFill`, `MirrorInspect`, `MirrorReplace` |
| renewal timer | `RenewTick`, `RenewMirror` |
| `bindRun` | `BindRun`, `BindMirror` |
| `release` | `Close`, `ReleaseLease`, `UnmirrorRead`, `UnmirrorRemove` |
| environment | `Crash`, `LegacyStart`, `LegacyExit`, `Tick` |

A probe answers for processes of the same host only; for any other host it is
"unreachable" and refuses the take-over, as in `process-identity.ts`. A Ralph v1
process knows only `execution.lock`: it creates the file if there is none
(`LegacyStart`, in runs with `LegacyStarts`), and one may exist from the beginning.
`overlap` remembers that a v1 process got the file although a v2 process held the lock
or was between looking at the file and replacing it. Abstracted: a process identifier
is never reused (the start token tells); I/O errors of the mirror other than "exists"
are the failure of the acquisition. The same-owner branch of `acquireDurableLease`
cannot be reached from `acquireExecutionLock`; it is modelled where it is reached, in
`ParallelCapacity`.

`WriterLock` is the same lock without rows, clock, probes and files: an invocation
gets it at most once, a living one loses it only by releasing it, and it passes on
from a dead one. The mapping (`Lock` in `WriterLease`) takes as `writers` the
owners of active rows, as `dead` the crashed invocations and as `past` those
that have had a row. All of the protocol between two transactions is a stutter.

### 2.2 RunExecution

`pc` is the position of the live supervisor, `"down"` when there is none. The
ledger is `run`, `mat`, `rows`, `att`, `rev`, `tx`; the disk is `file` and `late`;
the memory of the supervisor is `graph`, `sel`, `deferred`, `result`.

| Code | Actions |
|---|---|
| `executeRun`: open, resume, materialize | `OpenNew`, `OpenResumed`, `Materialize` |
| `reconcileCompletions` | `ReconcileExistingMarker`, `ReconcileCompareMarker`, `ReconcileWriteMarker`, `ReconcileWritten`, `ReconcileMarkWritten`, `ReconcileCommit`, `ReconcileConflict`, `ReconcileNothing` |
| `assertTaskMarkerParity` | `CheckParity`, `ParityConflict` |
| the selection loop and `selectTask` | `StartRun`, `Select`, `Settle`, `CancelSelection` |
| `executeTask`, `activateTask` | `Activation`, with `CompareActiveMarker` and `WriteActiveMarker` |
| attempts, verification, evaluation, revisions | `Attempt` |
| `completeSelectedTask` | `Completion`, with `CompareCompletedMarker` and `WriteCompletedMarker` |
| `withinTaskDeadline` | `Abandon`, `LateWriteCompared`, `LateWriteLands`, `LateWriteDropped`, `LateActivation`, `AbandonTask` |
| stop and cancellation | `StopRequested`, `ReconcileStop`, `StopDormant`, `CancelDormant` |
| environment | `Crash`, `OperationalError`, `EvidenceIntegrityError`, `UserEdit` |

Modelling decisions:

- A content hash is the content: the marker of every task, and `e` for the rest of
  the text, which an edit toggles.
- `updateTaskMarker` is two steps: the comparison (`beforeCommit`, which reads and
  hashes the file) and the rename (`atomic.ts:212-214`). A user may save the file in
  between; `edited` says that it happened. The lock of the PRD file lets one write of
  Ralph at a time be between the two. That lock is taken as the mutual exclusion it is
  meant to be: its file, and the five minutes after which the file of a crashed
  process is removed, are not modelled.
- An operation whose caller hit the deadline is kept in `late`: its comparison and
  its rename may still happen, in later invocations too, and an abandoned
  `activateTask` whose rename has landed goes on to make the row active as long as the
  lease of its supervisor is held. That it may pass `assertWriterLease` just before the
  lease is released and store the row just after (`runner.ts:4113-4128`) is left out.
  One abandoned operation is tracked at a time.
- A failure of the checks after the rename (reparse, bytes) is `OperationalError`.
- The deadline of a task counts from its first attempt (`taskDeadlineAt`), so a
  task that ran out of time has no time in later invocations either.
- Only the newest attempt of each task is kept; older ones are settled.
  `completed_with_override` is folded into `completed`.
- `licensed` is a history variable: tasks approved by a recorded decision or
  ticked by the user.
- Not modelled: `--new-run` and older resumable runs, `--task`/`--force`, edits of
  the definition of a task, ad-hoc sources, worktrees, child PRDs, watchdog
  restarts, revision grants (`revision-recovery.ts`), sandbox barriers, model-call
  and tool reconciliation, budgets other than revisions and the deadline.

### 2.3 ParallelCapacity

A slot is the lease resource `parallel-capacity/<namespace>/<ordinal>`; `row[s]` is
its active lease row. The ledger is shared, the limits are not: each process tries the
ordinals up to the limit of its own project (`LimitOf(p, ns)`). `reserve` walks the
scopes of a task (global, project, and provider and model if limited) and in each
scope the ordinals, one transaction per step.

| Code | Actions |
|---|---|
| `executeParallelWaves`: snapshot and selection | `Start`, `Snapshot`, `NothingToDispatch` |
| `reserve`, `acquireSlot` | `ReserveOwn`, `ReserveFree`, `ReserveConflict`, `ReserveFull`, `ReserveError` |
| `claimParallelDispatches` | `ClaimAcquired`, `ClaimConflict`, `ClaimError`, `AbortOne`, `AbortEnds` |
| workers | `WorkerStart`, `WorkerRefused`, `WorkerSettles`, `AllSettled`, `ObserverThrows` |
| `integrateWave` | `IntegrateOne`, `IntegrationEnds`, `IntegrationThrows` |
| release | `ReleaseOne`, `WaveEnds`, `Finish` |
| environment | `Crash` |

Time and probes are what `WriterLease` models; here the row of a live owner
conflicts, and the row of an owner whose process has died or ended conflicts or is
taken over. Eligibility, the
result of the claims, the outcome of a worker and of an integration are choices.
The leases of one bundle are released in one step, in which any of the transactions
may fail: `unreleased` remembers the leases that were forgotten although their row is
still there, and what each caller does then is in `ReserveError`, `ClaimError`,
`AbortOne`, `ReleaseOne` and `Finish`. Renewals are visible only
through `assertOwned`, whose failure is `WorkerRefused`. Deadlock is not checked:
all invocations may have ended. The same holds of the modules below.

### 2.4 ResourceClaims

A claim set is a row with specifications (kind, key, mode). A path is a sequence of
segments and conflicts with what lies above and below it (`PathClaimsOverlap`),
other kinds by equality, unless both modes read.

| Code | Actions |
|---|---|
| `acquireResourceClaimSet`, `expandResourceClaimSet` | `Acquire`, `Expand` |
| the port: `assertOwnedById`, renewal timer, `releaseById` | `Work`, `Renew`, `RenewFails`, `Release` |
| `recoverExpiredParallelClaims` | `RecList`, `RecNext`, `RecProbe`, `RecCommit` |
| environment | `Lapse`, `Crash` |

Time is reduced to whether the lease and grace of a set have lapsed. Claims stay
active and exclude others when they lapse; only their owner or a recovery ends them.

### 2.5 ParallelDelivery

`log` is the target branch: the tasks merged into it, and the commits of others.
`wt` and `integ` are the worktree and integration records, `tree` what the worktree
holds (base, dirty, committed).

| Code | Actions |
|---|---|
| recovery in `executeParallelRoot` | `RecClaims`, `RecTask`, `RecWorktree`, `RecMarks`, `RecIntegration`, `RecIntegrationWorktree`, `RecPassed`, `RecEnds` |
| snapshot of a wave | `Snapshot`, `SnapshotEnds` |
| a worker | `Prepare`, `AddWorktree`, `Reopen`, `Execute`, `TaskEnds`, `Finalize`, `RecordHead`, `RetainWorktree`, `WorkerThrows` |
| `integrateWave`, `integrateTaskWorktree` | `IntegrateWave`, `IntBegin`, `IntOpen`, `IntRun`, `IntMerge`, `IntResult`, `IntGates`, `IntFails`, `IntThrows`, `IntSettle`, `IntCleanup`, `IntEnds` |
| end of a wave and of the run | `Release`, `Settle`, `Throws` |
| environment | `Crash`, `OtherCommit`, `EndConflict` |

`queue` is the set of results still to be integrated; `Current` is the one of them
that comes first in graph order, which is the order `integrateWave` sorts them into.
Claims are who holds them, the execution of a task is its outcome, capacity is the
choice of the wave: the other modules have these. A Git command may report a failure
although it took effect (a merge that landed but was cancelled or timed out), any step
of a worker after its task may throw (`Caught`), and an exception after the
integration record was made leaves that record pending or running under a failed
worktree (`IntThrows`). Left out: sandboxes, child lanes,
checkpoints, the strategies `none` and `create-pr`.

### 2.6 ToolCalls

A call is a read, a write of several files, a command under a durable owner
process, or an external effect. `host[c]` is `ToolHost.execute` of the call, which
goes on by itself when the model call it belongs to is cancelled.

| Code | Actions |
|---|---|
| `recordToolCallIntent`, `ToolHost.execute` | `Reserve`, `Repeat`, `Authorize`, `HostNoEffect`, `HostExternal`, `HostThrows`, `HostSettle` |
| multi-file writes (`fs.ts`) | `HostPlan`, `HostWrite`, `HostWriteEnds` |
| `durable-process-owner.ts`, parent side | `HostLaunch`, `HostStop`, `HostCollect`, `HostLost` |
| `durable-process-owner.ts`, owner side | `OwnerLease`, `OwnerStarts`, `OwnerBindsChild`, `OwnerSettles`, `OwnerSettled`, `OwnerGivesUp` |
| `reconcileUnsettledToolCalls` and the execution port | `Begin`, `RecPick`, `RecProbe`, `RecDecide`, `RecReplay`, `RecWrite`, `RecWriteEnds`, `RecThrows`, `RecAttached`, `RecSettle`, `RecEnds` |
| the attempt | `Finish`, `EndCall`, `Cancel`, `WatchdogRestart`, `LateSettle`, `Restart` |
| environment | `ChildExits`, `OwnerDies`, `Gone`, `Edit` |

`HostThrows` is an exception between the intent and the settlement that leaves the
call unsettled in a process that lives on. `Gone(TRUE)` is a kill of the command,
`Gone(FALSE)` its ordinary end. Left out: budgets, permission rules, recovery
decisions given by a user, and the expiry of an owner's lease (a probe may distrust an
owner at any time).

### 2.7 ChildSupervision

The callbacks of the parent command share one event loop: an action is what runs
between two awaits. The periodic health sampler and the one each watchdog action
starts interleave with the timer of the monitor, the renewal timer, the worker
process and crashes of the command.

| Code | Actions |
|---|---|
| `supervisePreauthoredTaskChild`, `superviseChildWorkerAttempt` | `Invoke`, `OpenSession`, `OpenFails`, `CloseSession` (with `RecordRestart`) |
| `sampleHealth` | `PeriodicSample`, `HandleAction`, `AwaitHealth`, `FirstSampleFails` |
| `WatchdogMonitor`, `evaluateWatchdog` | `launchProbe`, `classifyState`, `recoveryDecision`, `FailClosed` |
| `handleWatchdogAction` | `HandleAction`, `ConfirmAction`, `StopWorker` |
| `superviseChildRun`, `acquireChildSupervisorLease` | `AcquireLease`, `RenewalRefused`, `StopAfterRenewal`, `ExecuteReturns`, `ExecuteRejects`, `WorkerDeadline` |
| `stop` of the watchdog | `StopWatchdog` |
| the worker process | `CompleteRun`, `ChangeLife` (freezes, thaws, ends) |
| environment | `LeaseExpires`, `Tick`, `Crash` |

Time is the age of each signal, counted up to the last value a comparison tells
apart. Signals are dropped when the session is aborted, since nothing reads them
afterwards. Decisions:

- One timed probe per tick; `flush()` evaluates when the clock has moved, and
  otherwise only takes the timer away.
- The process-activity and provider signals are left out: two positive signals are
  always present before the hard timeout, so they cannot change a verdict.
- A sampler compares progress markers read before its await; that an overlapping
  sampler may count the same progress twice is left out.
- The statuses of the link are `reserved`, `active`, `interrupted`, `passed`; a child
  that ends as failed or cancelled is an ended link as well.
- The lifetime deadline of a worker (`childWatchdogDeadline`) may fire in any step of
  its session: it is set before the session is opened and asks for no confirmations.
- No invocation follows a termination that stayed unconfirmed (`unkilled`). The code
  has no such guard, it releases the lease and a later invocation starts
  (`child-scheduler.ts:1179-1181`), so `OneCoordinator` and its theorem are about the
  invocations up to the first such termination; see the observations.
- The watchdog is enabled and has a hard timeout. Cancellation by the user, nested
  children, task budgets and the projection of events are left out.

## 3. What is model-checked

| Run | Question | Bounds |
|---|---|---|
| `lease_safety` | is there one writer, through renewals, lapses, crashes, take-overs and a v1 lock? | 3 invocations on 2 hosts, a v1 process at the beginning or none, duration 1, grace 1, clock to 3, revisions to 1, 2 race attempts |
| `lease_liveness` | does every acquisition and every release end, and is v2 kept out by a v1 process that got the file first? | 2 invocations on 1 host, v1 processes that start and end at any time, 3 race attempts |
| `run_safety` | do ledger and PRD agree about every approval, at every step of a completion? | 2 dependent tasks, 2 faults, 1 edit, 1 revision, policies `manual-review` and `stop` |
| `run_live` | is every prepared completion committed, does every invocation end? | 2 tasks, 2 faults, no edits, 1 revision, 1 attempt without change, all policies |
| `capacity` | is any slot left behind, does any started worker lack its slots, how many processes work under one slot, does every wave end? | 2 processes of 2 projects, 2 tasks each, global limits 2 and 1, project limit 2, limit 1 for one of two providers |
| `claims` | do active claims exclude each other, can a living worker lose them, are those of a dead one recovered? | 2 processes, 2 claim sets, 3 requests over paths below each other, 1 probe without an answer |
| `delivery` | is a completed run delivered, and nothing merged twice, approved without its gates or lost? | 2 tasks, 1 of them verified on the target, 3 invocations, 3 dispatches each, 1 foreign commit |
| `tool_safety` | does anything start twice, is any settlement untrue, replaced or reported before it is durable? | any 2 of a read, a write of 2 files, a command and an external effect; 1 crash, 1 edit |
| `tool_live` | does reconciliation end? | 2 calls among a read and a command, 1 crash |
| `child_session` | is a destructive decision for the hard timeout confirmed, does a hanging worker end? | 1 session, thresholds 1 / 1 / 2 / 2 / 3 ticks, 2 confirmations |
| `child_restarts` | do restarts stay in their budget across invocations, is there one coordinator, up to an unconfirmed termination? | 2 sessions, 2 invocations, 1 restart, thresholds 1 / 1 / 1 / 1 / 2 |
| `child_suspect_unprobed` | (expected to fail) does a suspect child keep being probed? | 1 session, 3 confirmations |

Why the bounds are enough to be interesting. Three invocations are an owner, one that
takes over and one that races with it or comes from another host; clock 3 covers
acquire, expiry and end of grace. Two faults allow a crash in each of the two gaps of
a completion, or a deadline in the first process and a crash of the one that repairs
it; one edit is enough to disagree with every hash. Two tasks in two projects fill
every scope, contend for the single slot of a provider and give the process with the
higher limit a pair of siblings. `RowIds` is larger than the number of leases that can
be remembered for one slot at a time. Three invocations of a delivery are one that is
interrupted, one that is interrupted while it recovers, and one that meets what both
left. Two calls are one that is left unsettled and one that is made afterwards or
repeated. One child session with thresholds 1 to 3 passes through every watchdog state
and is suspected both before and by the hard timeout; two sessions and two invocations
are a worker orphaned by a crash and its successor, or a restart before and one after
a crash.

Fairness. `RunExecution`: weak fairness of `Supervisor`, because a live process
continues after every await (executor calls settle or run into the deadline), of
`Open`, which is the user running `ralph run` again, and of the end of a rename that
is under way (it lands, or its process dies); crashes, stops and edits are never fair.
`WriterLease`: weak fairness of the continuation of an acquisition, of a renewal in
flight and of a release, for processes that do not crash; v1 processes owe nothing.
`ParallelCapacity`: weak fairness of the steps of each process. `ResourceClaims`: the
leases of a dead process lapse, and a living process goes on with a recovery (every
invocation starts one). `ToolCalls`: weak fairness of the reconciliation, of a living
owner, and of the end of a command, which its time limit kills. `ChildSupervision`:
the clock, the renewal timer, a health sample in progress (its ping has a timeout),
the action handler and the unwinding of the session; the worker, its termination,
errors and crashes owe nothing. The timed probe of the monitor gets no fairness:
`StuckSessionEnds` holds through the renewal guard alone. `PendingCommits` and
`InvocationEnds` are checked without user edits: an edit may make a completion a
conflict that only the user can resolve.

The properties worth knowing:

- `MutualExclusion`, `HolderOwnsLease`, `StealsOnlyStale`: one writer, never robbed
  while it lives, whatever the clock does.
- `ImplementsLock`: every step of the protocol is a step of `WriterLock` or none, so
  what the rest of Ralph may assume of the lock is what that module says.
- `MirrorNeverNamesAnother`: during the lock the mirror names the holder or, after one
  of the overlaps below, a v1 process.
- `LegacyExcluded`: a v1 process that got `execution.lock` while no v2 process held the
  lock or was at work on the file keeps v2 out as long as it lives. The opposite
  protection, of a v2 holder against a v1 process, does not exist when the file is
  missing; see the observations.
- `NoSelectionWhilePending`, `PendingIsCommittable`, `CommittedAgrees`, `PendingCommits`:
  the three-step completion is repaired before anything else runs, nobody disturbs
  it, its records agree, and it is finished in the end.
- `CompletedIsLicensed`: a marker, a row or a run is done only when the task was
  approved or ticked by the user. It speaks of runs whose task rows exist; the empty
  run of the observations is outside it.
- `MarkersAdvance`: every write of Ralph, also a late one, moves one marker of the
  content it was compared with one step forward, and that content is what it replaces
  unless the user saved the file between comparison and rename. An edit in that gap is
  lost.
- `AttemptsAreOrdered`, `InvocationEnds`: scheduling. The first speaks of dependencies
  only while the user does not edit the file: a marker that is reset makes the code
  resume a task ahead of its dependencies.
- `IdleHoldsNothing`, `StartedOwns`, `ProcessesBounded`, `WaveTerminates`: capacity.
  What stays behind after a run is exactly what could not be released.
  `ProcessesBounded` counts, for each limit, the processes that pass that limit or a
  tighter one.
- `NoConflict`, `WorkersKeepClaims`, `OneEnd`, `AbandonedRecovered`: claims exclude each
  other although they grow, recovery never robs a living worker nor ends a set twice,
  and reaches every set of a dead process.
- `CompletedRunIsDelivered`, `MergedOnce`, `PassedIsApproved`, `WorkIsKept`: what the
  ledger says about delivery is what the target branch holds. They do not exclude a
  task that stays active without a claim; see the observations.
- `StartedAtMostOnce`, `SettledIsOver`, `SuccessIsReal`, `ToldIsDurable`,
  `SettlementFinal`, `ReconciliationEnds`: the journal tells the truth once.
- `TransitionsLegal`, `HardKillConfirmed`, `RestartsBounded`, `OneCoordinator`,
  `StuckSessionEnds`: the watchdog and its children. `HardKillConfirmed` is about the
  decisions of the monitor whose cause is the hard timeout. It does not say that a
  worker is stopped only by them: the lifetime deadline needs no confirmation, nor does
  the stop of a run whose restart budget is exhausted. The reservation of a child and
  the completion check of its parent are not covered by `OneCoordinator`.

Every module states its type invariant (`TypeOK`). All seven are proved (section 4);
that of `RunExecution` is checked by a run as well.

### Disagreement found

`child_suspect_unprobed` is expected to end in a violation. `WatchdogMonitor.flush()`
cancels the scheduled probe and evaluates one directly, without scheduling the next
(`watchdog-monitor.ts:263-268`); `handleWatchdogAction` calls it for every action,
also for the warning of a suspect child (`runner.ts:7393`). A running monitor is then
left without a timer. With three confirmations, a child that stays suspect after the
warning gets one more probe and no other, where `docs/10` says that probes are
repeated "pelo número configurado" (line 360). What still ends such a session is the
lifetime deadline of the worker, or, when the worker does not answer, the refused
renewal of its lease (`StuckSessionEnds`).

### Observations

The models also reach the following states. No run is about them; each was seen in a
counterexample to a property that the code does not promise to the rest of the model.

Writer lease:

- `removeOwnedMirror` reads `execution.lock`, compares, and removes it in a later file
  operation, after the lease row was released: it can delete the file of the next
  owner, although its comment says that a "concurrently replaced diagnostic mirror is
  never deleted heuristically" (`run-lock.ts:208`). The lease is unaffected.
- A v1 process that starts when the file is missing beside a v2 holder (it was removed
  as above), or while a v2 acquirer is between inspecting a leftover and replacing it
  (`run-lock.ts:235-291`), takes the file and writes beside the holder: nothing in v2
  looks at `execution.lock` again. `LegacyExcluded` leaves these cases out by `overlap`.
- A crash between creating and filling `execution.lock` leaves an empty file that
  every later acquisition refuses until somebody removes it (`run-lock.ts:215`).

Run execution:

- A user who saves the PRD after `beforeCommit` has compared it and before the rename
  (`atomic.ts:212-214`) loses the edit: the rename replaces what was saved.
- A kill between the `[~]` marker (`runner.ts:4107`) and the active row
  (`runner.ts:4125`) leaves an eligible row beside `[~]`; the parity check expects
  `[ ]` (`runner.ts:3984`) and every later resume fails, where `docs/10`:452 says
  "Kill tests em cada fase retomam a mesma task sem pular trabalho."
- A kill between the transactions that create a run (`runner.ts:11304`) and its task
  rows (`runner.ts:11331`) leaves a run that cannot be executed, and that is settled
  as completed, "Every direct task in the root PRD is durably completed"
  (`runner.ts:11703`), when a stop is observed before the first selection.
- Under policy `fail` a task with exhausted revisions becomes rejected; `selectTask`
  selects it again on resume and its activation is refused, where `docs/09`:238 says
  "Limites esgotados mantêm a task não concluída e retomável."
- `commitCompletion` moves an interrupted task to completed, a step the transition
  table of the domain does not list (`execution-store.ts:2484`);
  `CompletedIsLicensed` shows it is harmless.

Parallel runs:

- All workers of a process share one slot per scope, because `acquireDurableLease`
  returns the row its owner already holds (`leases.ts:482`): the limits bound
  processes (`ProcessesBounded`), not workers.
- Each process tries as many ordinals as the `max_global` of its own project
  (`parallel-capacity.ts:128`), so one whose project allows more runs beside others
  that together have reached a tighter limit.
- A bundle is forgotten before its rows are released (`parallel-capacity.ts:199-206`),
  and a release that fails is not tried again. The row stays until the process has
  ended and the grace period has passed.
- An exception after an integration record was made (`runner.ts:10537-10547`) marks the
  worktree failed and leaves the record pending or running until the next command
  recovers it.
- A dispatch that is given up (`parallel-capacity.ts:263`) releases the slots it shares
  with a sibling that was claimed before it; the sibling then fails `assertOwned`.
- Recovery interrupts the tasks of the claims it has just recovered
  (`runner.ts:9101`, `runner.ts:9160`). If it dies in between, the next recovery finds
  no claims to recover and the task stays active, where `docs/13`:101 says that
  attempt and task in flight "são terminalizados [...] inclusive se a primeira
  invocação de recovery encerrar antes do redispatch".
- A task completed in the ledger whose command died before the worktree was committed
  comes back as `integrationOnly` and is refused because its worktree is dirty, where
  `docs/13`:105 says "uma nova tentativa de integração é criada".
- A task whose finalization failed after its completion counts as completed for its
  dependents, which then work on a base without it.
- A task delivered by a second integration attempt still counts as blocked for its
  dependents in that invocation: the first attempt's record is not passed
  (`runner.ts:9699`).

Tool calls:

- A watchdog restart starts the next attempt without reconciling the tool calls of
  the one before (`runner.ts:6419-6462`), which elsewhere is called unsafe
  (`runner.ts:691`).
- A host that is past its check of a file may write after a reconciliation in the same
  process has replayed and settled the call.

Child runs:

- An accepted watchdog action withdraws the permission to renew. If the graceful stop
  outlasts the renewal interval, the refused renewal fails the watchdog and the
  accepted `restart-attempt` is not performed.
- The restart budget in memory is spent when an action is delivered, also when the
  confirming probe then drops it; the next stall may stop the run without a restart.
- A termination that cannot be confirmed still releases the lease
  (`child-scheduler.ts:1179-1181`), so a later invocation may start a worker beside one
  that survived.
- The lifetime deadline of a worker (`childWatchdogDeadline`, `runner.ts:7251-7270`) is
  the hard timeout counted from before the session is opened. With the default of three
  confirmations, which need further probes after the hard timeout, it is the deadline
  that stops a worker in the normal course, unconfirmed, where `docs/10`:341-344 names
  the confirmations as what has to come first.

## 4. What is proved

Every safety invariant and every action property of section 3, and the refinement of
`WriterLock`, is a theorem, for every value of the constants that the named
assumptions allow. Each module of proofs has the same shape: an inductive invariant
`Inv`, defined at the end of the module it is about; lemmas about the operators;
one lemma `...Step` per action, or per group of actions that change the same things;
`NextInv` and the theorem `Invariance == Spec => []Inv`; then the properties, each from
`Inv`. Every `Inv` was checked by TLC on the bounds of the safety runs before it was
proved.

`WriterLeaseProofs` proves, for every set of processes, assignment to
hosts, duration, grace and number of confirmations, that `Spec` implies `[]TypeOK`,
`[]MutualExclusion`, `[]HolderOwnsLease`, `[]OneActiveRow`,
`[]MirrorNeverNamesAnother`, `[]LegacyExcluded` (also with `LegacyStarts`, for any
number of v1 processes one after the other), the action property
`StealsOnlyStale`, and, in `Refinement`, that it implements `WriterLock`
(`ImplementsLock`). The only assumption is `ConstantsAssumption`.

The inductive invariant is `Inv == TypeOK /\ LeaseInv /\ MirrorOwner`. Mutual
exclusion alone is not inductive: one must know what a process has learnt while it
acquires. `LeaseInv` says that holders have an active row and it is unique; that an
active row belongs to a holder or to a dead process; that an invocation still
acquiring has no row; and that a process with a negative probe observed a row whose
owner has ended (`ProbedGone`) and whose revision, if it is unchanged, still carries
the grace period that had run out (`ObservedStale`). That is what makes the
compare-and-swap on identity and revision sufficient. `MirrorOwner` says
who may have written the file that is on disk, and that a v1 process without `overlap`
still has its file and no v2 process has got past it. There is one lemma per action,
lemmas on rows (`ReleasedRow`, `RenewedRow`, ...) so that no step expands
a record update more than once, and `Invariance` puts them together. For the
refinement there are four ways a step can show in the abstract state (`LockStutters`,
`LockAcquired`, `LockReleased`, `LockDies`); the interesting one is
`CommitAcquire`, whose guard `writers \subseteq dead` is what `ProbedGone` gives.

`ParallelCapacityProofs` proves, for every set of processes, projects, tasks and
scopes and all positive limits (`CapacityAssumption`), that `Spec` implies `[]TypeOK`,
`[]IdleHoldsNothing`, `[]StartedOwns` and `[]ProcessesBounded`. None of the last three
is inductive. The invariant `Inv` is `TypeOK` and, for each process, `ProcInv`:
`Accounted` (every row of a process that has not died is in the leases of its
reservation, in a bundle, or among those whose release failed), `FailedRelease` (after
a failed release no wave begins any more), `ReservationShape` and
`WaveShape` (in which phase there can be leases, bundles and workers, and that scope
and ordinal stay in range), `Backed` (a started worker owns its bundle) and `Covered`
(a reservation covers the scopes it has passed, a bundle all of them). A step of one
process changes no memory of another and no row of a living one (`Elsewhere`), which
is proved per action and leaves, by `StepOf`, only the part of that process to
prove. `ProcessesBounded` follows by counting: each process with a running worker
owns a row of each scope of the worker, within its own limit (`WorkerHasSlot`), a row
has one owner, so the processes that pass at most a limit map injectively to the
ordinals up to it. What `releaseLeases` leaves, whichever transactions fail, is one
lemma (`GivenBack`).

`RunExecutionProofs` proves, for any finite set of tasks in any order and with any
dependencies, any budgets of revisions, and any number of faults and edits
(`TasksAssumption`, `BoundsAssumption`), `[]TypeOK`, `[]NoSelectionWhilePending`,
`[]PendingIsCommittable`, `[]CompletedIsLicensed`, `[]CommittedAgrees`,
`[]AttemptsAreOrdered` and the action property `MarkersAdvance`. `Inv` has three
parts. `DurableInv` is about the ledger and the file: who may become completed from
what is on disk is licensed (`LicenceInv`; the licence must follow an active row, a
prepared completion and a write that has not landed, not only the finished record), an
abandoned write moves one marker one step (`LateInv`), and, while the user leaves the
file alone, the file is ahead of the ledger (`FileAhead`) and a started task has its
dependencies behind it (`StartedInOrder`). The last two are why a resumed task, which
`selectTask` returns without looking at its dependencies, is in order all the same.
`PlaceInv` says what is known at each position of the supervisor: the task it is
about, its attempt, and where completions may be pending. `WriteInv` is about the gap
between comparison and rename: only one write is in it, the file is what that write
was compared with until the user saves it, and an abandoned activation whose marker
has landed still has the lease and the selected task of its supervisor. The durable
part changes in a few ways only (`DurableTaskMoves`, `DurableFileMoves`,
`DurableCommits`, `DurableTxMoves`), so a step that touches neither ledger nor file
proves nothing of it.

`ResourceClaimsProofs` proves, for any finite sets of processes, claim sets and
requests (`ClaimsAssumption`), `[]TypeOK`, `[]NoConflict`, `[]WorkersKeepClaims`, the
action property `OneEnd`, and their consequence `[]WorkIsExclusive`: two living
workers never work under conflicting claims. `NoConflict` is inductive by itself; the
work is in symmetry and in sets that grow (`ConflictFreeGrown`). `WorkersKeepClaims`
needs what a recovery knows: a set it has listed was acquired, so its owner is fixed
(`ListedWereAcquired`), and a positive count of probes means that this owner is dead
(`ProbedIsDead`); and what a port knows of its own sets (`PortsOwn`).

`ToolCallsProofs` proves, for any finite set of calls of the four kinds and any number
of files of a write (`ToolAssumption`), `[]TypeOK`, `[]StartedAtMostOnce`,
`[]SettledIsOver`, `[]SuccessIsReal`, `[]ToldIsDurable` and the action property
`SettlementFinal`. The invariant is one part per kind of call (`ExternalInv`,
`OwnerInv` and `CommandInv`, `WriteInv`) and one about the reconciliation (`RecInv`).
That a command starts once needs the order in which host, lifecycle file and owner
advance: a host in its first steps has no lifecycle, an owner that has not started
has no runs, and a settled lifecycle has neither owner nor child. That a success is
real needs that what the reconciliation has looked at stays true until it settles:
a target seen with the content of the call was written by the call, whoever edits it
afterwards.

`ParallelDeliveryProofs` proves, for any finite set of tasks and dependencies, any
parallelism and any number of invocations and foreign commits (`DeliveryAssumption`,
`NamesAssumption`), `[]TypeOK`, `[]CompletedRunIsDelivered`, `[]MergedOnce`,
`[]PassedIsApproved` and `[]WorkIsKept`. The heart is in `TargetInv`: a task that is in
the target branch, or in a conflicted merge on it, has an integration record from
which no merge starts (`Mergeable`), so the record is ahead of the branch at every
crash. `RecordInv` ties integration records to completed tasks and integrated
worktrees to the branch. `RecoveryInv`, `WorkerInv` and `IntegrationInv` are what the
command knows while it recovers, works and integrates. That the branch stays within
its type is a counting argument (`TargetBounded`): its entries are different tasks
and a bounded number of commits of others.

`ChildSupervisionProofs` proves, for every watchdog profile whose thresholds are in
order, every number of confirmations and restarts, and any number of sessions and
invocations (`ProfileAssumption`, `BoundAssumption`), `[]TypeOK`,
`[]TransitionsLegal`, `[]HardKillConfirmed`, `[]RestartsBounded` and `[]OneCoordinator`.
That no transition of the classification is illegal is a fact about `classifyState`
alone, given that a stalled child has all its confirmations (`ProbeInv`, `Classified`).
A hard kill is decided in one callback and carried out in a later one, so `DecisionInv`
says of every decision in the queue, and of the accepted one, that it was justified
(`Justified`) and that the confirmations it rests on cannot be taken back in its
session. `BudgetInv` says that the budget in memory is never behind the ledger, which is
what keeps a restart after a crash in its budget. `LeaseInv` says who may coordinate: the
owner of the lease, or the worker of a session whose termination could not be
confirmed.

Only model-checked: the liveness properties `AcquisitionEnds`, `ReleaseCompletes`,
`PendingCommits`, `InvocationEnds`, `WaveTerminates`, `AbandonedRecovered`,
`ReconciliationEnds` and `StuckSessionEnds`, because fairness and `ENABLED` are beyond
the prover; and the expected violation `SuspectKeepsProbing`. The theorems speak of the
models: where a module bounds a counter (invocations, crashes, edits, the clock of a
session), they hold for every bound.

## 5. Plan

In this order, the behaviour with most at stake first:

1. Done: `WriterLease` with `WriterLock` and proofs, `RunExecution`,
   `ParallelCapacity` with proofs, `ResourceClaims`, `ParallelDelivery`, `ToolCalls`,
   `ChildSupervision`.
2. Done: theorems about all seven modules.
3. Abstract specifications: completion as one atomic step, implemented by
   `RunExecution`; exclusive claims, implemented by `ResourceClaims`; a journal that
   settles each call once, implemented by `ToolCalls`.
4. Further modules: the completion check of a parent task over its children, run
   control with two-phase shutdown, the outbox projection, the marker lock, activation
   of an installed version.

### Not modelled

The modules cover the parts with durable state machines and concurrency. They are a
small share of the repository by lines: most of it is command parsing, the text user
interface, installers and release scripts, drivers for model providers, credential
stores, schema validation, prompt assembly and formatting, where a model would repeat
the code without an interleaving or a failure to check. Components that would repay a
model and have none yet are in item 4.

## 6. Running it

    tlc -config RunExecution_safety.cfg MCRunExecution
    tlapm WriterLeaseProofs.tla

and likewise for the other configurations and `...Proofs` modules. Each run takes
between seconds and three minutes on two workers. The proofs of a module take up to
about three minutes; leaves that need more than the provers' usual time name the
prover and its limit.
