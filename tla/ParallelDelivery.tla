--------------------------- MODULE ParallelDelivery --------------------------
(***************************************************************************)
(* The delivery of a parallel run: executeParallelRoot of                  *)
(* orchestration/src/runner.ts with the worktrees and integrations of      *)
(* git-runtime.ts, over executeParallelWaves of parallel-runner.ts.        *)
(*                                                                         *)
(* Workers of a wave work in worktrees of their own and commit there.  The *)
(* supervisor then integrates the completed ones into the target branch,   *)
(* one after the other.  The command may die at any step; the next one     *)
(* recovers from the ledger and from what Git shows.                       *)
(*                                                                         *)
(* The target branch is the sequence of what was merged into it.  Claims   *)
(* are abstracted to who holds them (ResourceClaims has the protocol), the *)
(* execution of a task to its outcome (RunExecution), capacity to the      *)
(* choice of the wave (ParallelCapacity).  Left out: sandboxes, child      *)
(* lanes, checkpoints, and the strategies `none` and `create-pr`.          *)
(***************************************************************************)
EXTENDS Naturals, Sequences, FiniteSets

CONSTANTS
  Tasks,          \* root tasks
  Order,          \* the tasks in graph order
  Deps,           \* dependencies of each task
  Verified,       \* tasks with verifications to run on the target
  RetryFailed,    \* retry_failed of the parallel policy
  MaxParallel,    \* max_parallel
  MaxDispatches,  \* maximumDispatches of an invocation
  MaxStarts,      \* bound: invocations of the run
  MaxEdits        \* bound: commits of others in the target branch

ASSUME DeliveryAssumption ==
  /\ IsFiniteSet(Tasks) /\ Verified \subseteq Tasks
  /\ Order \in Seq(Tasks) /\ \A t \in Tasks : \E k \in 1..Len(Order) : Order[k] = t
  /\ Deps \in [Tasks -> SUBSET Tasks]
  /\ RetryFailed \in BOOLEAN
  /\ MaxParallel \in Nat \ {0} /\ MaxDispatches \in Nat
  /\ MaxStarts \in Nat /\ MaxEdits \in Nat

None == "none"
Edit == "edit"

ASSUME NamesAssumption == {None, Edit} \cap Tasks = {}

VARIABLES
  \* durable
  run,       \* open, completed, failed
  task,      \* status of each task
  wt,        \* the latest worktree record of each task, with its content
  integ,     \* its integration records
  claim,     \* claims on the task: free, mine, dead (active, owner died)
  log,       \* what was merged into the target branch, in order
  unmerged,  \* the task whose conflict the target checkout shows
  \* the supervisor
  pc,        \* where executeParallelRoot is
  rec,       \* tasks of the recovered claims still to be recovered
  at,        \* the record the recovery is about to bring to its end
  seen,      \* baseline.head
  resumed,   \* recoveredInterruptedWorktrees
  fresh,     \* recoveredInterruptedFreshRetries
  blocked,   \* integrationBlockedReason
  started,   \* dispatches of the invocation
  failure,   \* failureObserved
  stage,     \* the worker of each task
  only,      \* tasks dispatched with integrationOnly
  queue,     \* completed results still to be integrated
  step,      \* where the integration of Current, the first of them, is
  expected,  \* expectedTargetHead
  \* bookkeeping
  gated,     \* tasks whose gates passed on the target
  starts     \* invocations so far

durable == <<run, task, wt, integ, claim, log, unmerged>>
recovery == <<rec, at, resumed, fresh>>
integration == <<queue, step, expected, gated>>
vars == <<durable, pc, recovery, seen, blocked, started, failure, stage, only,
          integration, starts>>

WtStatus == {"none", "preparing", "active", "integrating", "integrated",
             "conflicted", "failed", "retained", "removed"}
Live == {"none", "pending", "running", "passed", "conflicted", "failed",
         "paused", "safe"}
Stages == {"idle", "prepare", "adding", "reopen", "execute", "running",
           "retain", "finalize", "record", "ok", "failed"}
Pcs == {"down", "claims", "tasks", "integ", "snapshot", "wave", "integrate",
        "release", "settle"}
Steps == {"begin", "open", "pending", "running", "merged", "gates",
          "conflicted", "failed", "settle", "cleanup"}

\* a worktree record; `tree` is its content, `known` that its HEAD is recorded
NoWt == [st |-> "none", why |-> "none", tree |-> "base", known |-> TRUE,
         base |-> 0]
\* the integration in progress or last, and whether one before it was paused
\* as safe to retry
NoInteg == [live |-> "none", before |-> 0, retried |-> FALSE]
NoAt == [t |-> None, was |-> FALSE, to |-> None]

Heads == 0..(2 * Cardinality(Tasks) + MaxEdits)

TypeOK ==
  /\ run \in {"open", "completed", "failed"}
  /\ task \in [Tasks -> {"pending", "active", "interrupted", "failed",
                         "completed"}]
  /\ wt \in [Tasks -> [st : WtStatus, why : {"none", "resumable", "fresh"},
                       tree : {"base", "dirty", "committed"},
                       known : BOOLEAN, base : Heads]]
  /\ integ \in [Tasks -> [live : Live, before : Heads, retried : BOOLEAN]]
  /\ claim \in [Tasks -> {"free", "mine", "dead"}]
  /\ log \in Seq(Tasks \cup {Edit}) /\ Len(log) \in Heads
  /\ unmerged \in Tasks \cup {None}
  /\ pc \in Pcs /\ rec \subseteq Tasks
  /\ at \in [t : Tasks \cup {None}, was : BOOLEAN,
             to : {None, "retained", "conflicted"}]
  /\ seen \in Heads /\ expected \in Heads
  /\ resumed \subseteq Tasks /\ fresh \subseteq Tasks /\ only \subseteq Tasks
  /\ blocked \in BOOLEAN /\ failure \in BOOLEAN
  /\ started \in 0..MaxDispatches /\ starts \in 0..MaxStarts
  /\ stage \in [Tasks -> Stages]
  /\ queue \subseteq Tasks /\ step \in Steps
  /\ gated \subseteq Tasks

Init ==
  /\ run = "open"
  /\ task = [t \in Tasks |-> "pending"]
  /\ wt = [t \in Tasks |-> NoWt]
  /\ integ = [t \in Tasks |-> NoInteg]
  /\ claim = [t \in Tasks |-> "free"]
  /\ log = <<>> /\ unmerged = None
  /\ pc = "down" /\ rec = {} /\ at = NoAt /\ seen = 0
  /\ resumed = {} /\ fresh = {} /\ blocked = FALSE
  /\ started = 0 /\ failure = FALSE
  /\ stage = [t \in Tasks |-> "idle"] /\ only = {}
  /\ queue = {} /\ step = "begin" /\ expected = 0
  /\ gated = {} /\ starts = 0

\* what the target holds at one of its heads
ContentAt(h) == {log[k] : k \in 1..h}
Delivered(t) == t \in ContentAt(Len(log))

\* the memory of the command is gone
Forget(c) ==
  /\ pc' = "down" /\ rec' = {} /\ at' = NoAt /\ seen' = 0
  /\ resumed' = {} /\ fresh' = {} /\ blocked' = FALSE
  /\ started' = 0 /\ failure' = FALSE
  /\ stage' = [t \in Tasks |-> "idle"] /\ only' = {}
  /\ queue' = {} /\ step' = "begin" /\ expected' = 0
  /\ claim' = [t \in Tasks |-> IF claim[t] = "mine" THEN c ELSE claim[t]]

----------------------------------------------------------------------------
\* executeParallelRoot up to the recovery: the baseline.  A dirty baseline is
\* allowed by the Git policy.
Start ==
  /\ pc = "down" /\ run = "open" /\ starts < MaxStarts
  /\ pc' = "claims" /\ seen' = Len(log) /\ starts' = starts + 1
  /\ UNCHANGED <<durable, recovery, blocked, started, failure, stage, only,
                 integration>>

\* recoverExpiredParallelClaims: those whose grace has lapsed
RecClaims ==
  /\ pc = "claims"
  /\ \E S \in SUBSET {t \in Tasks : claim[t] = "dead"} :
       /\ claim' = [t \in Tasks |-> IF t \in S THEN "free" ELSE claim[t]]
       /\ rec' = S
  /\ pc' = "tasks"
  /\ UNCHANGED <<run, task, wt, integ, log, unmerged, at, resumed, fresh, seen,
                 blocked, started, failure, stage, only, integration, starts>>

\* a recovered claim: its attempt and its task are interrupted, ...
RecTask(t) ==
  /\ pc = "tasks" /\ at = NoAt /\ t \in rec
  /\ rec' = rec \ {t}
  /\ at' = [NoAt EXCEPT !.t = t, !.was = (task[t] = "active")]
  /\ task' = [task EXCEPT ![t] = IF @ = "active" THEN "interrupted" ELSE @]
  /\ UNCHANGED <<run, wt, integ, claim, log, unmerged, resumed, fresh, pc,
                 seen, blocked, started, failure, stage, only, integration,
                 starts>>

\* ... and its worktree is marked for the same task to go on in it, or
\* retained, with or without the mark that allows another one
RecWorktree ==
  /\ pc = "tasks" /\ at # NoAt
  /\ LET t == at.t
         interrupted == task[t] = "interrupted"
         resumable == /\ wt[t].st = "active"
                      /\ at.was \/ (interrupted /\ wt[t].why = "resumable")
         given_up == wt[t].st \in {"active", "preparing"} /\ ~resumable
         anew == given_up /\ interrupted
     IN /\ wt' = [wt EXCEPT
             ![t].st = IF given_up THEN "retained" ELSE @,
             ![t].why = IF resumable THEN "resumable"
                        ELSE IF anew THEN "fresh" ELSE @]
        /\ resumed' = IF resumable THEN resumed \cup {t} ELSE resumed
        /\ fresh' = IF anew THEN fresh \cup {t} ELSE fresh
  /\ at' = NoAt
  /\ UNCHANGED <<run, task, integ, claim, log, unmerged, rec, pc, seen,
                 blocked, started, failure, stage, only, integration, starts>>

\* the marks of an earlier recovery
RecMarks ==
  /\ pc = "tasks" /\ at = NoAt /\ rec = {}
  /\ LET marked(st, why) == {t \in Tasks : /\ task[t] = "interrupted"
                                           /\ wt[t].st = st
                                           /\ wt[t].why = why}
     IN /\ resumed' = resumed \cup marked("active", "resumable")
        /\ fresh' = fresh \cup marked("retained", "fresh")
  /\ pc' = "integ"
  /\ UNCHANGED <<durable, rec, at, seen, blocked, started, failure, stage,
                 only, integration, starts>>

----------------------------------------------------------------------------
\* integrations that were in flight

InFlight == {t \in Tasks : integ[t].live \in {"pending", "running"}
                           /\ wt[t].st = "integrating"}

PatchEquivalent(t) == t \in ContentAt(seen)
SafeRetryAnyState(t) ==
  integ[t].live \in {"pending", "running"} /\ unmerged = None
\* nothing was changed: another integration may be tried
SafeRetry(t) ==
  /\ integ[t].live = "pending" /\ unmerged = None
  /\ seen = integ[t].before /\ ~PatchEquivalent(t) /\ wt[t].tree = "committed"
ProvenPassedUngated(t) ==
  integ[t].live = "running" /\ PatchEquivalent(t) /\ unmerged = None
\* the change is there, and no gate has to approve it
ProvenPassed(t) ==
  /\ integ[t].live = "running" /\ PatchEquivalent(t) /\ unmerged = None
  /\ t \notin Verified

\* A dirty target or a dirty source proves nothing.
RecIntegration(t) ==
  /\ pc = "integ" /\ at = NoAt /\ t \in InFlight
  /\ \E dirty \in BOOLEAN :
       LET to == IF ProvenPassed(t) /\ ~dirty THEN "passed"
                 ELSE IF SafeRetry(t) /\ ~dirty THEN "safe"
                 ELSE IF integ[t].live = "running" /\ unmerged # None
                   THEN "conflicted" ELSE "paused"
       IN /\ integ' = [integ EXCEPT ![t].live = to]
          /\ at' = [NoAt EXCEPT !.t = t,
                      !.to = IF to = "conflicted" THEN to ELSE "retained"]
  /\ UNCHANGED <<run, task, wt, claim, log, unmerged, rec, resumed, fresh, pc,
                 seen, blocked, started, failure, stage, only, integration,
                 starts>>

RecIntegrationWorktree ==
  /\ pc = "integ" /\ at # NoAt
  /\ wt' = [wt EXCEPT ![at.t].st = at.to]
  /\ at' = NoAt
  /\ UNCHANGED <<run, task, integ, claim, log, unmerged, rec, resumed, fresh,
                 pc, seen, blocked, started, failure, stage, only,
                 integration, starts>>

\* an integration that passed before its worktree was settled
Unsettled == {t \in Tasks : wt[t].st = "integrating"
                            /\ integ[t].live = "passed"}
RecPassed(t) ==
  /\ pc = "integ" /\ at = NoAt /\ InFlight = {} /\ t \in Unsettled
  /\ wt' = [wt EXCEPT ![t].st = "retained"]
  /\ UNCHANGED <<run, task, integ, claim, log, unmerged, recovery, pc, seen,
                 blocked, started, failure, stage, only, integration, starts>>

RecEnds ==
  /\ pc = "integ" /\ at = NoAt /\ InFlight = {} /\ Unsettled = {}
  /\ pc' = "snapshot"
  /\ UNCHANGED <<durable, recovery, seen, blocked, started, failure, stage,
                 only, integration, starts>>

----------------------------------------------------------------------------
\* snapshot and selection of a wave

PendingIsolatedWorktree(t) ==
  /\ task[t] = "completed"
  /\ wt[t].st \in {"active", "retained", "integrating"}
  /\ integ[t].live \in {"none", "safe"}

\* some integration record of the worktree is not settled as passed
BlockedIntegration(t) == \/ integ[t].live \notin {"none", "passed"}
                         \/ integ[t].retried

CompletedTaskIds ==
  {t \in Tasks : /\ task[t] = "completed"
                 /\ ~PendingIsolatedWorktree(t) /\ ~BlockedIntegration(t)}

ReadyAgain(t) ==
  task[t] \in {"pending", "failed"} \/ wt[t].st \in {"failed", "active"}
Ready(t) ==
  \/ PendingIsolatedWorktree(t)
  \/ task[t] = "pending"
  \/ task[t] = "interrupted" /\ t \in resumed \cup fresh
  \/ task[t] \in {"failed", "interrupted"} /\ RetryFailed

\* completed worktrees go first, in waves of their own
Candidates ==
  LET reconciliation == {t \in Tasks : PendingIsolatedWorktree(t)}
  IN IF reconciliation # {} THEN reconciliation
                            ELSE {t \in Tasks : Ready(t)}

Dispatchable ==
  {t \in Candidates : Deps[t] \subseteq CompletedTaskIds /\ claim[t] = "free"}

\* Parallel groups, scopes and capacity choose among the dispatchable tasks.
Snapshot(W) ==
  /\ pc = "snapshot" /\ ~blocked
  /\ W # {} /\ Cardinality(W) <= MaxParallel
  /\ started + Cardinality(W) <= MaxDispatches
  /\ W \subseteq Dispatchable
  /\ LET now == {t \in W : PendingIsolatedWorktree(t)}
         existing == now \cup (resumed \cap W)
     IN /\ only' = now
        /\ stage' = [t \in Tasks |-> IF t \in existing THEN "reopen"
                                     ELSE IF t \in W THEN "prepare"
                                     ELSE "idle"]
  /\ claim' = [t \in Tasks |-> IF t \in W THEN "mine" ELSE claim[t]]
  /\ seen' = Len(log) /\ started' = started + Cardinality(W)
  /\ resumed' = resumed \ W /\ fresh' = fresh \ W
  /\ pc' = "wave"
  /\ UNCHANGED <<run, task, wt, integ, log, unmerged, rec, at, blocked,
                 failure, integration, starts>>

\* nothing to dispatch, a stop, the limit of dispatches, or no capacity
SnapshotEnds ==
  /\ pc = "snapshot"
  /\ pc' = "settle"
  /\ UNCHANGED <<durable, recovery, seen, blocked, started, failure, stage,
                 only, integration, starts>>

----------------------------------------------------------------------------
\* executeWorker

Worker(t) == pc = "wave" /\ stage[t] \notin {"idle", "ok", "failed"}
Goes(t, s) == stage' = [stage EXCEPT ![t] = s]

supervisor == <<pc, recovery, seen, blocked, started, failure, only,
                integration, starts>>

\* prepareTaskWorktree: the record first
Prepare(t) ==
  /\ Worker(t) /\ stage[t] = "prepare"
  /\ wt' = [wt EXCEPT ![t] = [NoWt EXCEPT !.st = "preparing", !.base = seen]]
  /\ integ' = [integ EXCEPT ![t] = NoInteg]
  /\ Goes(t, "adding")
  /\ UNCHANGED <<run, task, claim, log, unmerged, supervisor>>

\* git worktree add
AddWorktree(t) ==
  /\ Worker(t) /\ stage[t] = "adding"
  /\ \/ wt' = [wt EXCEPT ![t].st = "active"] /\ Goes(t, "execute")
     \/ wt' = [wt EXCEPT ![t].st = "failed"] /\ Goes(t, "failed")
  /\ UNCHANGED <<run, task, integ, claim, log, unmerged, supervisor>>

\* retainParallelWorktree
Retain(w) == IF w.st \in {"preparing", "active"}
               THEN [w EXCEPT !.st = "retained", !.why = "none"] ELSE w

\* the catch of executeWorker
Caught(t) ==
  /\ wt' = [wt EXCEPT ![t] =
       IF task[t] = "completed" /\ @.st = "active"
         THEN [@ EXCEPT !.st = "failed", !.why = "none"] ELSE Retain(@)]
  /\ Goes(t, "failed")

\* The worktree of an earlier worker: its HEAD must be the recorded one.
\* Its inspection, or the expansion of its claims, may fail.
Reopen(t) ==
  /\ Worker(t) /\ stage[t] = "reopen"
  /\ \/ Caught(t)
     \/ /\ wt[t].known
        /\ Goes(t, IF t \notin only THEN "execute"
                   ELSE IF wt[t].st = "active" THEN "finalize" ELSE "ok")
        /\ UNCHANGED wt
  /\ UNCHANGED <<run, task, integ, claim, log, unmerged, supervisor>>

\* no executor, or another definition: the task was not activated
WorkerThrows(t) ==
  /\ Worker(t) /\ stage[t] = "execute"
  /\ Caught(t)
  /\ UNCHANGED <<run, task, integ, claim, log, unmerged, supervisor>>

\* executeTask
Execute(t) ==
  /\ Worker(t) /\ stage[t] = "execute"
  /\ task' = [task EXCEPT ![t] = "active"]
  /\ wt' = [wt EXCEPT ![t].tree = "dirty"]
  /\ Goes(t, "running")
  /\ UNCHANGED <<run, integ, claim, log, unmerged, supervisor>>

TaskEnds(t) ==
  /\ Worker(t) /\ stage[t] = "running"
  /\ \/ task' = [task EXCEPT ![t] = "completed"] /\ Goes(t, "finalize")
     \/ \E s \in {"failed", "interrupted"} :
          task' = [task EXCEPT ![t] = s] /\ Goes(t, "retain")
  /\ UNCHANGED <<run, wt, integ, claim, log, unmerged, supervisor>>

RetainWorktree(t) ==
  /\ Worker(t) /\ stage[t] = "retain"
  /\ wt' = [wt EXCEPT ![t] = Retain(@)]
  /\ Goes(t, "failed")
  /\ UNCHANGED <<run, task, integ, claim, log, unmerged, supervisor>>

\* finalizeTaskWorktree: the commit.  A path out of scope, or a command that
\* fails, ends it before ...
Finalize(t) ==
  /\ Worker(t) /\ stage[t] = "finalize"
  /\ \/ /\ wt' = [wt EXCEPT ![t].tree = "committed",
                            ![t].known = @ /\ wt[t].tree = "committed"]
        /\ Goes(t, "record")
     \/ Caught(t)
  /\ UNCHANGED <<run, task, integ, claim, log, unmerged, supervisor>>

\* ... or after it, when the worktree is inspected and its HEAD recorded
RecordHead(t) ==
  /\ Worker(t) /\ stage[t] = "record"
  /\ \/ /\ wt' = [wt EXCEPT ![t].known = TRUE, ![t].why = "none"]
        /\ Goes(t, "ok")
     \/ Caught(t)
  /\ UNCHANGED <<run, task, integ, claim, log, unmerged, supervisor>>

----------------------------------------------------------------------------
\* integrateWave

Settled == {t \in Tasks : stage[t] \in {"ok", "failed"}}
Completed == {t \in Tasks : stage[t] = "ok"}

\* A target that was changed while the workers worked blocks the run.
IntegrateWave ==
  /\ pc = "wave" /\ \A t \in Tasks : ~Worker(t)
  /\ failure' = (failure \/ \E t \in Settled : stage[t] = "failed")
  /\ expected' = Len(log)
  /\ IF Completed # {} /\ Len(log) # seen
       THEN /\ blocked' = TRUE /\ pc' = "release"
            /\ wt' = [t \in Tasks |-> IF t \in Completed THEN Retain(wt[t])
                                                          ELSE wt[t]]
            /\ UNCHANGED <<queue, step>>
       ELSE /\ queue' = Completed
            /\ step' = "begin" /\ pc' = "integrate"
            /\ UNCHANGED <<wt, blocked>>
  /\ UNCHANGED <<run, task, integ, claim, log, unmerged, recovery, seen,
                 started, stage, only, gated, starts>>

Integrating(s) == pc = "integrate" /\ queue # {} /\ step = s
\* the results are taken in graph order
First(S) ==
  CHOOSE t \in S : \E i \in DOMAIN Order :
     Order[i] = t /\ \A j \in DOMAIN Order : Order[j] \in S => i <= j
Current == First(queue)
others == <<run, task, claim, recovery, seen, started, failure, stage, only,
            starts>>

IntBegin ==
  /\ Integrating("begin")
  /\ wt' = [wt EXCEPT ![Current].st = "integrating"]
  /\ step' = "open"
  /\ UNCHANGED <<others, integ, log, unmerged, pc, blocked, queue, expected,
                 gated>>

\* the run is blocked: the rest of the wave is not integrated
Block == blocked' = TRUE /\ queue' = {} /\ step' = "begin"

\* integrateTaskWorktree: a clean source and an unchanged target, or it throws
IntOpen ==
  /\ Integrating("open")
  /\ LET t == Current IN
       IF wt[t].tree = "committed" /\ Len(log) = expected
         THEN /\ integ' = [integ EXCEPT ![t] =
                   [live |-> "pending", before |-> expected,
                    retried |-> @.retried \/ @.live = "safe"]]
              /\ step' = "pending"
              /\ UNCHANGED <<wt, blocked, queue>>
         ELSE /\ wt' = [wt EXCEPT ![t].st = "failed"]
              /\ Block /\ UNCHANGED integ
  /\ UNCHANGED <<others, log, unmerged, pc, expected, gated>>

\* the gate before the integration: the claims are still owned
IntRun ==
  /\ Integrating("pending")
  /\ integ' = [integ EXCEPT ![Current].live = "running"]
  /\ step' = "running"
  /\ UNCHANGED <<others, wt, log, unmerged, pc, blocked, queue, expected,
                 gated>>

\* git merge or cherry-pick: done, stopped at a conflict, or refused.  One
\* that ran out of time or was cancelled is reported as failed, whatever it
\* did to the target.
IntMerge ==
  /\ Integrating("running")
  /\ \/ /\ unmerged = None
        /\ log' = Append(log, Current) /\ step' \in {"merged", "failed"}
        /\ UNCHANGED unmerged
     \/ /\ unmerged = None
        /\ unmerged' = Current /\ step' \in {"conflicted", "failed"}
        /\ UNCHANGED log
     \/ step' = "failed" /\ UNCHANGED <<log, unmerged>>
  /\ UNCHANGED <<others, wt, integ, pc, blocked, queue, expected, gated>>

\* resultHead: the HEAD after the merge and before the gates.  The next
\* integration, if there is one, expects it.
IntResult ==
  /\ Integrating("merged")
  /\ expected' = Len(log) /\ step' = "gates"
  /\ UNCHANGED <<others, wt, integ, log, unmerged, pc, blocked, queue, gated>>

\* the gates on the target
IntGates ==
  /\ Integrating("gates")
  /\ LET t == Current IN
       \/ /\ integ' = [integ EXCEPT ![t].live = "passed"]
          /\ gated' = gated \cup {t}
       \/ /\ t \in Verified
          /\ integ' = [integ EXCEPT ![t].live = "paused"]
          /\ UNCHANGED gated
  /\ step' = "settle"
  /\ UNCHANGED <<others, wt, log, unmerged, pc, blocked, queue, expected>>

\* An exception leaves integrateTaskWorktree, by a lost claim, a gate that
\* throws or a failed inspection or transition: the worktree fails, and the
\* integration stays pending or running on record.
IntThrows ==
  /\ pc = "integrate" /\ queue # {}
  /\ step \in {"pending", "running", "merged", "gates", "conflicted", "failed"}
  /\ wt' = [wt EXCEPT ![Current].st = "failed"]
  /\ Block
  /\ UNCHANGED <<others, integ, log, unmerged, pc, expected, gated>>

IntFails ==
  /\ pc = "integrate" /\ queue # {} /\ step \in {"conflicted", "failed"}
  /\ integ' = [integ EXCEPT ![Current].live = step]
  /\ step' = "settle"
  /\ UNCHANGED <<others, wt, log, unmerged, pc, blocked, queue, expected,
                 gated>>

\* the worktree follows its integration
IntSettle ==
  /\ Integrating("settle")
  /\ LET t == Current
         live == integ[t].live
     IN /\ wt' = [wt EXCEPT ![t].st = IF live = "passed" THEN "integrated"
                                      ELSE IF live = "paused" THEN "retained"
                                      ELSE live]
        /\ IF live = "passed"
             THEN step' = "cleanup" /\ UNCHANGED <<blocked, queue>>
             ELSE Block
  /\ UNCHANGED <<others, integ, log, unmerged, pc, expected, gated>>

\* removeManagedTaskWorktree, or the worktree is kept
IntCleanup ==
  /\ Integrating("cleanup")
  /\ \E s \in {"removed", "retained"} :
       wt' = [wt EXCEPT ![Current].st = s]
  /\ queue' = queue \ {Current} /\ step' = "begin"
  /\ UNCHANGED <<others, integ, log, unmerged, pc, blocked, expected, gated>>

IntEnds ==
  /\ pc = "integrate" /\ queue = {}
  /\ pc' = "release"
  /\ UNCHANGED <<others, wt, integ, log, unmerged, blocked, integration>>

\* the claims of the wave
Release ==
  /\ pc = "release"
  /\ claim' = [t \in Tasks |-> IF claim[t] = "mine" THEN "free" ELSE claim[t]]
  /\ stage' = [t \in Tasks |-> "idle"] /\ only' = {}
  /\ pc' = "snapshot"
  /\ UNCHANGED <<run, task, wt, integ, log, unmerged, recovery, seen, blocked,
                 started, failure, integration, starts>>

----------------------------------------------------------------------------
DeliveryBlockerByRecord(t) ==
  task[t] = "completed" /\ integ[t].live # "passed" /\ BlockedIntegration(t)
\* a completed task whose worktree is not delivered
DeliveryBlocker(t) ==
  /\ task[t] = "completed" /\ wt[t].st # "none"
  /\ integ[t].live # "passed"
  /\ BlockedIntegration(t) \/ wt[t].st \notin {"integrated", "removed"}

Settle ==
  /\ pc = "settle"
  /\ LET remaining == {t \in Tasks : task[t] # "completed"}
         blockers == {t \in Tasks : DeliveryBlocker(t)}
     IN IF remaining = {} /\ blockers = {} THEN run' = "completed"
        ELSE run' \in IF blockers = {} /\ failure THEN {"open", "failed"}
                                                  ELSE {"open"}
  /\ Forget("free")
  /\ UNCHANGED <<task, wt, integ, log, unmerged, gated, starts>>

\* an error ends the command, and its claims are released
Throws ==
  /\ pc \in {"snapshot", "integrate"}
  /\ Forget("free")
  /\ UNCHANGED <<run, task, wt, integ, log, unmerged, gated, starts>>

Crash ==
  /\ pc # "down"
  /\ Forget("dead")
  /\ UNCHANGED <<run, task, wt, integ, log, unmerged, gated, starts>>

\* others commit to the target branch, or end a conflict
OtherCommit ==
  /\ Cardinality({k \in 1..Len(log) : log[k] = Edit}) < MaxEdits
  /\ log' = Append(log, Edit)
  /\ UNCHANGED <<run, task, wt, integ, claim, unmerged, stage, supervisor>>

EndConflict ==
  /\ unmerged # None /\ unmerged' = None
  /\ log' \in {log, Append(log, unmerged)}
  /\ UNCHANGED <<run, task, wt, integ, claim, stage, supervisor>>

----------------------------------------------------------------------------
WorkerStep(t) ==
  \/ Prepare(t) \/ AddWorktree(t) \/ Reopen(t) \/ WorkerThrows(t)
  \/ Execute(t) \/ TaskEnds(t) \/ RetainWorktree(t) \/ Finalize(t)
  \/ RecordHead(t)

RecoveryStep ==
  \/ RecClaims \/ RecWorktree \/ RecMarks \/ RecIntegrationWorktree \/ RecEnds
  \/ \E t \in Tasks : RecTask(t) \/ RecIntegration(t) \/ RecPassed(t)

IntegrationStep ==
  \/ IntegrateWave \/ IntBegin \/ IntOpen \/ IntRun \/ IntMerge \/ IntResult
  \/ IntGates \/ IntThrows \/ IntFails \/ IntSettle \/ IntCleanup \/ IntEnds

CommandStep ==
  \/ RecoveryStep \/ IntegrationStep \/ Release \/ Settle \/ SnapshotEnds
  \/ \E W \in SUBSET Tasks : Snapshot(W)
  \/ \E t \in Tasks : WorkerStep(t)

Next == \/ Start \/ CommandStep \/ Throws \/ Crash
        \/ OtherCommit \/ EndConflict

Spec == Init /\ [][Next]_vars

----------------------------------------------------------------------------
\* A run is completed only when the target branch holds the work of every
\* task.
CompletedRunIsDelivered ==
  run = "completed" => \A t \in Tasks : Delivered(t)

\* No task is merged into the target twice, however often its integration is
\* interrupted, recovered and tried again.
MergedOnce ==
  \A t \in Tasks : Cardinality({k \in 1..Len(log) : log[k] = t}) <= 1

\* An integration that is on record as passed is in the target, and the gates
\* of the task approved it there.
PassedIsApproved ==
  \A t \in Tasks : integ[t].live = "passed" =>
     Delivered(t) /\ (t \in Verified => t \in gated)

\* The work of a completed task is in the target or still in its worktree.
WorkIsKept ==
  \A t \in Tasks : task[t] = "completed" =>
     \/ Delivered(t)
     \/ wt[t].st \notin {"none", "removed"} /\ wt[t].tree # "base"
----------------------------------------------------------------------------
(* The inductive invariant. *)

\* the target: who was merged, and who may still be
Mergeable(t) == integ[t].live \in {"none", "pending", "safe"}
TargetInv ==
  /\ \A j, k \in 1..Len(log) : log[j] = log[k] /\ log[j] # Edit => j = k
  /\ Cardinality({k \in 1..Len(log) : log[k] = Edit}) <= MaxEdits
  /\ \A t \in Tasks : Delivered(t) \/ t = unmerged => ~Mergeable(t)
  /\ unmerged # None => ~Delivered(unmerged)
  /\ seen <= Len(log)

\* the records of a task
RecordInv ==
  \A t \in Tasks :
    /\ task[t] # "completed" => integ[t].live = "none"
    /\ wt[t].st \in {"integrated", "removed"} => Delivered(t)

\* the recovery
RecoveryInv ==
  /\ at # NoAt => pc \in {"tasks", "integ"} /\ at.t \in Tasks
  /\ pc = "integ" /\ at # NoAt => at.to \in {"retained", "conflicted"}
  /\ \A t \in resumed : wt[t].st # "none"

\* the workers of a wave
WorkerInv ==
  pc = "wave" => \A t \in Tasks :
    /\ stage[t] # "idle" => integ[t].live \in {"none", "safe"}
    /\ stage[t] \in {"prepare", "adding", "execute", "running", "retain"} =>
         task[t] # "completed"
    /\ stage[t] \in {"finalize", "record", "ok"} => task[t] = "completed"
    /\ stage[t] = "reopen" => (task[t] = "completed" <=> t \in only)
    /\ stage[t] \in {"reopen", "execute", "running"} => wt[t].st # "none"
    /\ stage[t] = "running" => wt[t].tree # "base"

\* the integrations of a wave
IntegrationInv ==
  pc = "integrate" =>
    /\ \A t \in queue :
         /\ task[t] = "completed"
         /\ t # Current \/ step \in {"begin", "open"} =>
              integ[t].live \in {"none", "safe"}
    /\ queue # {} =>
         /\ step = "pending" => integ[Current].live = "pending"
         /\ step \in {"running", "merged", "gates", "conflicted", "failed"} =>
              integ[Current].live = "running"
         /\ step = "running" => ~Delivered(Current) /\ unmerged # Current
         /\ step \in {"merged", "gates", "cleanup"} => Delivered(Current)
         /\ step = "settle" => integ[Current].live \in
              {"passed", "paused", "conflicted", "failed"}

DurableInv == /\ TargetInv /\ RecordInv
              /\ PassedIsApproved /\ WorkIsKept /\ CompletedRunIsDelivered
PlaceInv == RecoveryInv /\ WorkerInv /\ IntegrationInv
Inv == TypeOK /\ DurableInv /\ PlaceInv
=============================================================================
