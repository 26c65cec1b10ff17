---------------------------- MODULE RunExecution ----------------------------
(***************************************************************************)
(* One root PRD executed by `ralph run` in a sequential mode               *)
(* (packages/orchestration/src/runner.ts, scheduler.ts, state-store.ts and *)
(* packages/persistence/src/execution-store.ts).                           *)
(*                                                                         *)
(* The run, its task rows, attempts and completion transactions live in    *)
(* the SQLite ledger; the task markers [ ], [~] and [x] live in the PRD    *)
(* file.  The two cannot be written atomically, so a completion is         *)
(* prepared in the ledger, written to the file and committed in the        *)
(* ledger, and a supervisor that resumes a run first reconciles what a     *)
(* dead or abandoned one left between those steps.  The model is a         *)
(* succession of supervisors (pc is the live one's position; the writer    *)
(* lease of WriterLease excludes two), each of which may crash at any      *)
(* step, run into the task deadline or a stop request, or fail on a        *)
(* conflict, while the user edits the file and a marker write that lost    *)
(* its race against the deadline is still on its way to the disk.          *)
(*                                                                         *)
(* A SHA-256 content hash is modelled by the content: the markers and an   *)
(* abstract `edit' for the rest of the text.                               *)
(***************************************************************************)
EXTENDS Naturals, FiniteSets, Sequences

CONSTANTS
    Tasks,             \* the direct tasks of the root PRD
    Order,             \* graph.topologicalOrder of the document
    Deps,              \* <<t, d>>: task t depends on task d
    MaxRevisions,      \* maxRevisionAttempts of the judge policy
    MaxNoChange,       \* maxNoChangeAttempts
    ExhaustedPolicies, \* exhaustedPolicy values the tasks may carry
    FailFast,          \* options.failFast
    MaxFaults,         \* bound: crashes, deadlines, stops, operational errors
    MaxEdits,          \* bound: edits of the PRD by the user
    NoTask, NoWrite

ASSUME TasksAssumption ==
    /\ IsFiniteSet(Tasks)
    /\ Order \in Seq(Tasks)
    /\ \A t \in Tasks : \E i \in DOMAIN Order : Order[i] = t
    /\ Deps \subseteq Tasks \X Tasks
    /\ NoTask \notin Tasks
ASSUME BoundsAssumption ==
    /\ MaxRevisions \in Nat
    /\ MaxNoChange \in Nat
    /\ MaxFaults \in Nat
    /\ MaxEdits \in Nat
    /\ FailFast \in BOOLEAN
    /\ ExhaustedPolicies \subseteq {"manual-review", "fail", "stop"}

VARIABLES
    file,      \* content of the PRD on disk
    late,      \* a marker write abandoned by its caller, and how far it is
    edited,    \* history: the user saved since the comparison of the marker
               \* write that is about to be renamed
    run,       \* status of the newest run of the workspace
    mat,       \* its task rows have been materialised
    rows,      \* run_tasks: status, marker_content_hash, active_attempt_id set
    att,       \* the newest attempt of each task: status and decision
    rev,       \* revisions used, whether an assessment asked for one, and
               \* attempts without a change (saturating)
    tx,        \* completion_transactions of the run, one per task
    pc,        \* position of the live supervisor ("down": there is none)
    graph,     \* runtime.graph: the content the supervisor compiled last
    sel,       \* the task being executed
    deferred,  \* deferredTaskKeys
    result,    \* firstNonSuccess
    licensed,  \* history: tasks approved by a decision, or ticked by the user
    faults, edits

ledger == <<run, mat, rows, att, rev, tx>>
disk == <<file, late, edited>>
memory == <<graph, sel, deferred, result>>
bounds == <<faults, edits>>
vars == <<file, late, edited, run, mat, rows, att, rev, tx, pc, graph, sel,
          deferred, result, licensed, faults, edits>>

-----------------------------------------------------------------------------
Markers == {"pending", "active", "completed"}
Content == [m : [Tasks -> Markers], e : 0..1]
RunStatus == {"none", "created", "running", "stopping", "interrupted", "waiting",
              "completed", "failed", "cancelled"}
Resumable == {"created", "running", "stopping", "interrupted", "waiting"}
TaskStatus == {"pending", "eligible", "active", "verifying", "evaluating",
               "retryable_failed", "interrupted", "blocked", "rejected",
               "completed"}
AttemptStatus == {"none", "active", "passed", "failed", "interrupted",
                  "rejected"}
Decisions == {"none", "passed", "revision_required", "failed", "no_change",
              "blocked"}

NoAttempt == [st |-> "none", dec |-> "none"]
NoRevision == [used |-> 0, feedback |-> FALSE, idle |-> 0]
NoTx == [st |-> "none", before |-> NoWrite, after |-> NoWrite]

Mark(c, t, s) == [c EXCEPT !.m[t] = s]
TypeRow == [st : TaskStatus, h : Content, at : BOOLEAN]

\* MUTANT of InitialRow: any marker but [ ] is read as completed
InitialRowTrusting(c, t) ==
    [st |-> IF c.m[t] = "pending" THEN "pending" ELSE "completed",
     h |-> c, at |-> FALSE]
\* initialTaskRecords
InitialRow(c, t) == [st |-> c.m[t], h |-> c, at |-> FALSE]

-----------------------------------------------------------------------------
\* selectTask and the helpers it uses

Completed(s) == s = "completed"
EffectiveStatus(t) == IF mat THEN rows[t].st ELSE graph.m[t]
\* MUTANT of DependenciesPassed: a dependency that was started is enough
DependenciesStarted(t) ==
    \A d \in Tasks : <<t, d>> \in Deps => EffectiveStatus(d) # "pending"
DependenciesPassed(t) ==
    \A d \in Tasks : <<t, d>> \in Deps => Completed(EffectiveStatus(d))
Resumes(t) ==
    /\ t \notin deferred
    /\ EffectiveStatus(t) \in {"active", "verifying", "evaluating",
                               "interrupted", "retryable_failed"}
Eligible(t) ==
    /\ t \notin deferred
    /\ ~Completed(EffectiveStatus(t))
    /\ EffectiveStatus(t) # "blocked"
    /\ DependenciesPassed(t)
First(S) ==
    LET i == CHOOSE i \in DOMAIN Order :
                 /\ Order[i] \in S
                 /\ \A j \in DOMAIN Order : Order[j] \in S => i <= j
    IN  Order[i]
SelectTask ==
    LET resumable == {t \in Tasks : Resumes(t)}
        eligible == {t \in Tasks : Eligible(t)}
    IN  IF resumable # {} THEN First(resumable)
        ELSE IF eligible # {} THEN First(eligible)
        ELSE NoTask

\* assertTaskMarkerParity: what the marker of a row must be
ExpectedMarker(s) ==
    CASE s \in {"pending", "eligible"} -> "pending"
      [] s = "completed" -> "completed"
      [] OTHER -> "active"
Parity == mat => \A t \in Tasks : graph.m[t] = ExpectedMarker(rows[t].st)

Pending(t) == tx[t].st \in {"prepared", "marker_written"}
PendingTasks == {t \in Tasks : Pending(t)}

\* positions inside executeTask: a deadline or a cancellation is caught there
InTask == {"fence", "refence", "eligible", "marking", "renameactive",
           "activating", "attempt", "working", "verifying", "judging",
           "settling", "resettling", "revise", "exhausted", "prepare",
           "writing", "renamecompleted", "written", "committing", "recompile"}
InRun == InTask \cup {"select", "settle", "abandoned", "releasing"}
Preparing == {"materialize", "reconcile", "recrename", "recmark", "reccommit",
              "parity", "start"}
Positions == {"down", "stopcmd"} \cup Preparing \cup InRun

\* updateTaskMarker compares the file with the content it was computed from
\* (beforeCommit) and renames a new file over it after another await; the
\* marker lock lets one write at a time be between the two.  What the user
\* saves in between is overwritten.
Renaming == {"renameactive", "renamecompleted", "recrename"}
LateHolds == late # NoWrite /\ late.stage = "compared"
\* RALPH_PRD_MARKER_HASH_CONFLICT, RALPH_PRD_MARKER_LOCKED
MarkerConflict == file # graph \/ LateHolds
Compare == ~MarkerConflict /\ edited' = FALSE

\* the catch block of executeRun: the status a thrown error leaves behind
CatchStatus(s) == IF s \in {"running", "stopping"} THEN "interrupted" ELSE s

\* the supervisor gives up: run settled by the catch block, lock released
Down == /\ pc' = "down"
        /\ sel' = NoTask
        /\ deferred' = {}
        /\ result' = "none"
        /\ UNCHANGED graph
Throw == /\ Down
         /\ run' = CatchStatus(run)
         /\ UNCHANGED <<mat, rows, att, rev, tx, disk, licensed, bounds>>

At(p) == pc = p
Goto(p) == pc' = p

-----------------------------------------------------------------------------
Init ==
    /\ file \in [m : [Tasks -> {"pending", "completed"}], e : {0}]
    /\ late = NoWrite
    /\ edited = FALSE
    /\ run = "none"
    /\ mat = FALSE
    /\ rows = [t \in Tasks |-> InitialRow(file, t)]
    /\ att = [t \in Tasks |-> NoAttempt]
    /\ rev = [t \in Tasks |-> NoRevision]
    /\ tx = [t \in Tasks |-> NoTx]
    /\ pc = "down"
    /\ graph = file
    /\ sel = NoTask
    /\ deferred = {}
    /\ result = "none"
    /\ licensed = {t \in Tasks : file.m[t] = "completed"}
    /\ faults = 0
    /\ edits = 0

-----------------------------------------------------------------------------
\* Opening the run: executeRun up to its selection loop

\* a compatible resumable run is taken as it stands
OpenResumed ==
    /\ At("down") /\ run \in Resumable
    /\ graph' = file
    /\ Goto("reconcile")
    /\ UNCHANGED <<ledger, disk, sel, deferred, result, licensed, bounds>>

\* otherwise createRun inserts a new one; its rows are another transaction
OpenNew ==
    /\ At("down") /\ run \notin Resumable
    /\ graph' = file
    /\ run' = "created"
    /\ mat' = FALSE
    /\ rows' = [t \in Tasks |-> InitialRow(file, t)]
    /\ att' = [t \in Tasks |-> NoAttempt]
    /\ rev' = [t \in Tasks |-> NoRevision]
    /\ tx' = [t \in Tasks |-> NoTx]
    /\ Goto("materialize")
    /\ UNCHANGED <<disk, sel, deferred, result, licensed, bounds>>

\* materializeRunTasks(initialTaskRecords(currentGraph))
Materialize ==
    /\ At("materialize")
    /\ mat' = TRUE
    /\ Goto("reconcile")
    /\ UNCHANGED <<run, rows, att, rev, tx, disk, memory, licensed, bounds>>

\* commitCompletion: the task hash must still be the prepared one
CommitsCleanly(t, hash) ==
    /\ tx[t].st = "marker_written"
    /\ tx[t].after = hash
    /\ rows[t].h = tx[t].before
\* MUTANT of Commit: the row keeps the hash of the prepared source
CommitKeepsHash(t, hash) ==
    /\ CommitsCleanly(t, hash)
    /\ rows' = [rows EXCEPT ![t].st = "completed", ![t].at = FALSE]
    /\ tx' = [tx EXCEPT ![t].st = "committed"]
    /\ att' = [att EXCEPT ![t].st = "passed"]
Commit(t, hash) ==
    /\ CommitsCleanly(t, hash)
    /\ rows' = [rows EXCEPT ![t] = [st |-> "completed", h |-> hash,
                                    at |-> FALSE]]
    /\ tx' = [tx EXCEPT ![t].st = "committed"]
    /\ att' = [att EXCEPT ![t].st = "passed"]

\* completedMarkerMatchesPreparedSource: reads the file again
\* MUTANT of DerivesFromPrepared: the marker byte is not turned back first
DerivesUnturned(t) == file.m[t] = "completed" /\ file = tx[t].before
DerivesFromPrepared(t) ==
    /\ file.m[t] = "completed"
    /\ Mark(file, t, "active") = tx[t].before

\* reconcileCompletions, one pending transaction after the other
\* MUTANT of ReconcileNothing: pending completions may be left behind
ReconcileSkipped ==
    /\ At("reconcile")
    /\ Goto("parity")
    /\ UNCHANGED <<ledger, disk, memory, licensed, bounds>>
ReconcileNothing ==
    /\ At("reconcile") /\ PendingTasks = {}
    /\ Goto("parity")
    /\ UNCHANGED <<ledger, disk, memory, licensed, bounds>>

\* prepared, and the file already carries [x]
ReconcileExistingMarker(t) ==
    /\ At("reconcile") /\ tx[t].st = "prepared"
    /\ graph.m[t] = "completed"
    /\ DerivesFromPrepared(t)
    /\ tx' = [tx EXCEPT ![t].st = "marker_written", ![t].after = graph]
    /\ sel' = t
    /\ Goto("reccommit")
    /\ UNCHANGED <<run, mat, rows, att, rev, disk, graph, deferred, result,
                   licensed, bounds>>

\* prepared, [~], source unchanged: the marker is written now
ReconcileCompareMarker(t) ==
    /\ At("reconcile") /\ tx[t].st = "prepared"
    /\ graph.m[t] = "active"
    /\ graph = tx[t].before
    /\ Compare
    /\ sel' = t
    /\ Goto("recrename")
    /\ UNCHANGED <<ledger, file, late, graph, deferred, result, licensed,
                   bounds>>
ReconcileWriteMarker ==
    /\ At("recrename")
    /\ file' = Mark(graph, sel, "completed")
    /\ Goto("recmark")
    /\ UNCHANGED <<ledger, late, edited, memory, licensed, bounds>>

\* markCompletionMarkerWritten, then the graph is compiled again
ReconcileMarkWritten ==
    /\ At("recmark")
    /\ tx' = [tx EXCEPT ![sel].st = "marker_written",
                        ![sel].after = Mark(tx[sel].before, sel, "completed")]
    /\ graph' = file
    /\ Goto("reccommit")
    /\ UNCHANGED <<run, mat, rows, att, rev, disk, sel, deferred, result,
                   licensed, bounds>>

\* marker_written in an earlier life
ReconcileWritten(t) ==
    /\ At("reconcile") /\ tx[t].st = "marker_written"
    /\ sel' = t
    /\ Goto("reccommit")
    /\ UNCHANGED <<ledger, disk, graph, deferred, result, licensed, bounds>>

ReconcileCommit ==
    /\ At("reccommit")
    /\ graph.m[sel] = "completed"
    /\ Commit(sel, graph)
    /\ graph' = file
    /\ sel' = NoTask
    /\ Goto("reconcile")
    /\ UNCHANGED <<run, mat, rev, disk, deferred, result, licensed, bounds>>

\* every other combination of transaction, marker and hash is a conflict
ReconcileConflict ==
    /\ \/ /\ At("reconcile")
          /\ \E t \in Tasks :
                /\ tx[t].st = "prepared"
                /\ CASE graph.m[t] = "pending" -> TRUE
                     [] graph.m[t] = "completed" -> ~DerivesFromPrepared(t)
                     [] OTHER -> graph # tx[t].before \/ MarkerConflict
       \/ /\ At("reccommit")
          /\ \/ graph.m[sel] # "completed"
             \/ ~CommitsCleanly(sel, graph)
    /\ Throw

\* assertLedgerMarkerParity
CheckParity ==
    /\ At("parity") /\ Parity
    /\ Goto("start")
    /\ UNCHANGED <<ledger, disk, memory, licensed, bounds>>
ParityConflict ==
    /\ At("parity") /\ ~Parity
    /\ Throw

\* a stop left over by an earlier supervisor is settled first
ReconcileStop ==
    /\ At("start") /\ run = "stopping"
    /\ run' = "interrupted"
    /\ UNCHANGED <<mat, rows, att, rev, tx, disk, pc, memory, licensed, bounds>>
StartRun ==
    /\ At("start") /\ run # "stopping"
    /\ run' = "running"
    /\ Goto("select")
    /\ UNCHANGED <<mat, rows, att, rev, tx, disk, memory, licensed, bounds>>

-----------------------------------------------------------------------------
\* The selection loop and the settlement of the run

Select ==
    /\ At("select") /\ run # "stopping"
    /\ SelectTask # NoTask
    /\ sel' = SelectTask
    /\ Goto("fence")
    /\ UNCHANGED <<ledger, disk, graph, deferred, result, licensed, bounds>>

\* status of a run that leaves the loop; no row is left of an empty list
Remaining == mat /\ \E t \in Tasks : ~Completed(rows[t].st)
SettledStatus ==
    CASE ~Remaining -> "completed"
      [] run = "stopping" -> "interrupted"
      [] result = "none" -> "waiting"
      [] result = "blocked" -> "waiting"
      [] OTHER -> IF FailFast THEN "failed" ELSE "interrupted"

\* the loop ends: nothing to select, a stop observed, or stopRun / failFast
Settle ==
    /\ \/ At("settle")
       \/ At("select") /\ (run = "stopping" \/ SelectTask = NoTask)
    /\ Down
    /\ run' = SettledStatus
    /\ UNCHANGED <<mat, rows, att, rev, tx, disk, licensed, bounds>>

\* a task result that is not a completion: the task is deferred
\* MUTANT of Result: the task is not deferred
ResultUndeferred(r, stopRun) ==
    /\ result' = IF result = "none" THEN r ELSE result
    /\ sel' = NoTask
    /\ Goto(IF stopRun \/ FailFast THEN "settle" ELSE "select")
    /\ UNCHANGED <<graph, deferred>>
Result(r, stopRun) ==
    /\ deferred' = deferred \cup {sel}
    /\ result' = IF result = "none" THEN r ELSE result
    /\ sel' = NoTask
    /\ Goto(IF stopRun \/ FailFast THEN "settle" ELSE "select")
    /\ UNCHANGED graph

-----------------------------------------------------------------------------
\* executeTask: what an earlier supervisor left active is interrupted

SetRow(t, s, held) == rows' = [rows EXCEPT ![t].st = s, ![t].at = held]

InterruptAttempts ==
    /\ At("fence") /\ att[sel].st = "active"
    /\ att' = [att EXCEPT ![sel].st = "interrupted"]
    /\ Goto("refence")
    /\ UNCHANGED <<run, mat, rows, rev, tx, disk, memory, licensed, bounds>>
NoActiveAttempt ==
    /\ At("fence") /\ att[sel].st # "active"
    /\ Goto(IF mat /\ rows[sel].st \in {"verifying", "evaluating"}
            THEN "refence" ELSE "eligible")
    /\ UNCHANGED <<ledger, disk, memory, licensed, bounds>>
InterruptTask ==
    /\ At("refence")
    /\ IF rows[sel].st \in {"active", "verifying", "evaluating"}
       THEN SetRow(sel, "interrupted", FALSE)
       ELSE UNCHANGED rows
    /\ Goto("eligible")
    /\ UNCHANGED <<run, mat, att, rev, tx, disk, memory, licensed, bounds>>

\* activateTask
NotMaterialized ==
    /\ At("eligible") /\ ~mat
    /\ Throw
MakeEligible ==
    /\ At("eligible") /\ mat
    /\ IF rows[sel].st \in {"pending", "blocked"}
       THEN rows' = [rows EXCEPT ![sel].st = "eligible"]
       ELSE UNCHANGED rows
    /\ Goto("marking")
    /\ UNCHANGED <<run, mat, att, rev, tx, disk, memory, licensed, bounds>>

\* updateTaskMarker [ ] -> [~]
CompareActiveMarker ==
    /\ At("marking") /\ graph.m[sel] = "pending"
    /\ Compare
    /\ Goto("renameactive")
    /\ UNCHANGED <<ledger, file, late, memory, licensed, bounds>>
WriteActiveMarker ==
    /\ At("renameactive")
    /\ file' = Mark(graph, sel, "active")
    /\ Goto("activating")
    /\ UNCHANGED <<ledger, late, edited, memory, licensed, bounds>>
KeepActiveMarker ==
    /\ At("marking") /\ graph.m[sel] = "active"
    /\ Goto("activating")
    /\ UNCHANGED <<ledger, disk, memory, licensed, bounds>>
MarkingConflict ==
    /\ At("marking")
    /\ \/ graph.m[sel] = "completed"
       \/ graph.m[sel] = "pending" /\ MarkerConflict
    /\ Throw

\* the row becomes active with the hash of the marker that was written
Activatable(s) == s \in {"active", "eligible", "interrupted",
                         "retryable_failed"}
ActivateTask ==
    /\ At("activating") /\ Activatable(rows[sel].st)
    /\ rows' = [rows EXCEPT ![sel].st = "active",
                            ![sel].h = Mark(graph, sel, "active")]
    /\ graph' = IF graph.m[sel] = "pending" THEN file ELSE graph
    /\ Goto("attempt")
    /\ UNCHANGED <<run, mat, att, rev, tx, disk, sel, deferred, result,
                   licensed, bounds>>
TransitionInvalid ==
    /\ At("activating") /\ ~Activatable(rows[sel].st)
    /\ Throw

-----------------------------------------------------------------------------
\* runAttempt: attempt, verification, evaluation, decision

\* MUTANT of CreateAttempt: the revision budget is not looked at
CreateAttemptUnbudgeted ==
    /\ At("attempt")
    /\ att' = [att EXCEPT ![sel] = [st |-> "active", dec |-> "none"]]
    /\ rows' = [rows EXCEPT ![sel].at = TRUE]
    /\ rev' = [rev EXCEPT ![sel].used = IF rev[sel].feedback THEN @ + 1 ELSE @]
    /\ Goto("working")
    /\ UNCHANGED <<run, mat, tx, disk, memory, licensed, bounds>>
CreateAttempt ==
    /\ At("attempt")
    /\ ~(rev[sel].feedback /\ rev[sel].used >= MaxRevisions)
    /\ att' = [att EXCEPT ![sel] = [st |-> "active", dec |-> "none"]]
    /\ rows' = [rows EXCEPT ![sel].at = TRUE]
    /\ rev' = [rev EXCEPT ![sel].used = IF rev[sel].feedback THEN @ + 1 ELSE @]
    /\ Goto("working")
    /\ UNCHANGED <<run, mat, tx, disk, memory, licensed, bounds>>
BudgetExhausted ==
    /\ At("attempt")
    /\ rev[sel].feedback /\ rev[sel].used >= MaxRevisions
    /\ Goto("exhausted")
    /\ UNCHANGED <<ledger, disk, memory, licensed, bounds>>

\* the executor settled; gates run, evidence is persisted
Verify ==
    /\ At("working")
    /\ SetRow(sel, "verifying", TRUE)
    /\ Goto("verifying")
    /\ UNCHANGED <<run, mat, att, rev, tx, disk, memory, licensed, bounds>>
Evaluate ==
    /\ At("verifying")
    /\ SetRow(sel, "evaluating", TRUE)
    /\ Goto("judging")
    /\ UNCHANGED <<run, mat, att, rev, tx, disk, memory, licensed, bounds>>

\* the decision of the gates and the judge is recorded with the attempt
Decide(d) ==
    /\ At("judging")
    /\ att' = [att EXCEPT ![sel].dec = d]
    /\ rev' = [rev EXCEPT
                 ![sel].feedback = @ \/ d = "revision_required",
                 ![sel].idle = IF d = "no_change" /\ @ <= MaxNoChange
                               THEN @ + 1 ELSE @]
    /\ licensed' = IF d = "passed" THEN licensed \cup {sel} ELSE licensed
    /\ Goto(IF d = "passed" THEN "prepare" ELSE "settling")
    /\ UNCHANGED <<run, mat, rows, tx, disk, memory, bounds>>

SettleAttempt ==
    /\ At("settling")
    /\ att' = [att EXCEPT ![sel].st =
                  IF att[sel].dec = "revision_required" THEN "rejected"
                  ELSE "failed"]
    /\ Goto("resettling")
    /\ UNCHANGED <<run, mat, rows, rev, tx, disk, memory, licensed, bounds>>

\* a judge revision, or a bounded retry after no change, continues the task
Continues(t) ==
    \/ att[t].dec = "revision_required" /\ rev[t].used < MaxRevisions
    \/ att[t].dec = "no_change" /\ rev[t].idle <= MaxNoChange
SettleTask ==
    /\ At("resettling")
    /\ SetRow(sel, IF att[sel].dec = "blocked" THEN "blocked"
                   ELSE "retryable_failed", FALSE)
    /\ CASE Continues(sel) -> Goto("revise") /\ UNCHANGED memory
         [] att[sel].dec = "revision_required" ->
                Goto("exhausted") /\ UNCHANGED memory
         [] OTHER -> Result(IF att[sel].dec = "blocked" THEN "blocked"
                            ELSE "failed", FALSE)
    /\ UNCHANGED <<run, mat, att, rev, tx, disk, licensed, bounds>>
Revise ==
    /\ At("revise")
    /\ rows' = [rows EXCEPT ![sel].st = "active"]
    /\ Goto("attempt")
    /\ UNCHANGED <<run, mat, att, rev, tx, disk, memory, licensed, bounds>>

\* settleRevisionExhaustion
SettleRevisionExhaustion(policy) ==
    /\ At("exhausted")
    /\ SetRow(sel, CASE policy = "manual-review" -> "blocked"
                     [] policy = "fail" -> "rejected"
                     [] OTHER -> "retryable_failed", FALSE)
    /\ Result(IF policy = "manual-review" THEN "blocked" ELSE "failed",
              policy = "stop")
    /\ UNCHANGED <<run, mat, att, rev, tx, disk, licensed, bounds>>

-----------------------------------------------------------------------------
\* completeSelectedTask: prepare, write the marker, mark, commit

PrepareGuard == /\ rows[sel].st # "completed"
                /\ rows[sel].h = graph
                /\ rows[sel].at
                /\ att[sel].dec = "passed"
                /\ ~Pending(sel)
Prepare ==
    /\ At("prepare") /\ PrepareGuard
    /\ tx' = [tx EXCEPT ![sel] = [st |-> "prepared", before |-> graph,
                                  after |-> NoWrite]]
    /\ Goto("writing")
    /\ UNCHANGED <<run, mat, rows, att, rev, disk, memory, licensed, bounds>>
PrepareConflict ==
    /\ At("prepare") /\ ~PrepareGuard
    /\ Throw

CompareCompletedMarker ==
    /\ At("writing") /\ Compare
    /\ Goto("renamecompleted")
    /\ UNCHANGED <<ledger, file, late, memory, licensed, bounds>>
WriteCompletedMarker ==
    /\ At("renamecompleted")
    /\ file' = Mark(graph, sel, "completed")
    /\ Goto("written")
    /\ UNCHANGED <<ledger, late, edited, memory, licensed, bounds>>
WritingConflict ==
    /\ At("writing") /\ MarkerConflict
    /\ Throw

MarkCompletionMarkerWritten ==
    /\ At("written")
    /\ tx' = [tx EXCEPT ![sel].st = "marker_written",
                        ![sel].after = Mark(graph, sel, "completed")]
    /\ Goto("committing")
    /\ UNCHANGED <<run, mat, rows, att, rev, disk, memory, licensed, bounds>>
CommitCompletion ==
    /\ At("committing")
    /\ Commit(sel, Mark(graph, sel, "completed"))
    /\ Goto("recompile")
    /\ UNCHANGED <<run, mat, rev, disk, memory, licensed, bounds>>
Recompile ==
    /\ At("recompile")
    /\ graph' = file
    /\ sel' = NoTask
    /\ Goto("select")
    /\ UNCHANGED <<ledger, disk, deferred, result, licensed, bounds>>

-----------------------------------------------------------------------------
\* Deadlines, stops, errors, crashes, late writes and the user

\* the positions of executeTask that await under the deadline and the signal
Abandonable == {"eligible", "marking", "renameactive", "activating", "attempt",
                "working", "verifying", "judging", "prepare", "writing",
                "renamecompleted", "written", "committing", "recompile"}

\* withinTaskDeadline only races what it waits for: a marker write goes on,
\* and so does an activateTask whose marker is written
LateWrite(marker, stage) ==
    [from |-> graph, to |-> Mark(graph, sel, marker), stage |-> stage,
     task |-> IF marker = "active" THEN sel ELSE NoTask]
AbandonedWrites ==
    CASE pc = "marking" /\ graph.m[sel] = "pending" ->
            {LateWrite("active", "waiting")}
      [] pc = "renameactive" -> {LateWrite("active", "compared")}
      [] pc = "activating" /\ graph.m[sel] = "pending" ->
            {LateWrite("active", "landed")}
      [] pc = "writing" -> {LateWrite("completed", "waiting")}
      [] pc = "renamecompleted" -> {LateWrite("completed", "compared")}
      [] OTHER -> {}

\* the catch block of executeTask: active attempts, then the task, interrupted
Abandon ==
    /\ pc \in Abandonable /\ faults < MaxFaults
    /\ faults' = faults + 1
    /\ att' = IF att[sel].st = "active"
              THEN [att EXCEPT ![sel].st = "interrupted"] ELSE att
    /\ late' \in {late} \cup AbandonedWrites
    /\ Goto("abandoned")
    /\ UNCHANGED <<run, mat, rows, rev, tx, file, edited, memory, licensed,
                   edits>>
\* MUTANT of AbandonTask: the marker hash is refreshed from the file
AbandonTaskRehashed ==
    /\ At("abandoned")
    /\ IF mat /\ rows[sel].st \in {"active", "verifying", "evaluating"}
       THEN rows' = [rows EXCEPT ![sel].st = "interrupted", ![sel].h = file]
       ELSE UNCHANGED rows
    /\ Goto("releasing")
    /\ UNCHANGED <<run, mat, att, rev, tx, disk, memory, licensed, bounds>>
AbandonTask ==
    /\ At("abandoned")
    /\ IF mat /\ rows[sel].st \in {"active", "verifying", "evaluating"}
       THEN rows' = [rows EXCEPT ![sel].st = "interrupted"]
       ELSE UNCHANGED rows
    /\ Goto("releasing")
    /\ UNCHANGED <<run, mat, att, rev, tx, disk, memory, licensed, bounds>>
\* the writer lease is released: an abandoned activateTask stops at
\* assertWriterLease, if it gets there
Leased == {"abandoned", "releasing"}
LateUnleased ==
    IF late = NoWrite \/ late.stage = "landed" THEN NoWrite
    ELSE [late EXCEPT !.task = NoTask]
AbandonRun ==
    /\ At("releasing")
    /\ Down
    /\ run' = CatchStatus(run)
    /\ late' = LateUnleased
    /\ UNCHANGED <<mat, rows, att, rev, tx, file, edited, licensed, bounds>>

\* updateTaskMarker of an abandoned caller: only on the content it was
\* computed from
\* MUTANT of LateWriteCompared: the content is not compared before the rename
LateWriteUnchecked ==
    /\ late # NoWrite /\ late.stage = "waiting" /\ pc \notin Renaming
    /\ late' = [late EXCEPT !.stage = "compared"]
    /\ edited' = FALSE
    /\ UNCHANGED <<ledger, file, pc, memory, licensed, bounds>>
LateWriteCompared ==
    /\ late # NoWrite /\ late.stage = "waiting" /\ pc \notin Renaming
    /\ file = late.from
    /\ late' = [late EXCEPT !.stage = "compared"]
    /\ edited' = FALSE
    /\ UNCHANGED <<ledger, file, pc, memory, licensed, bounds>>
\* the rename; an activateTask that was waiting for it goes on
LateWriteLands ==
    /\ LateHolds
    /\ file' = late.to
    /\ late' = IF late.task # NoTask THEN [late EXCEPT !.stage = "landed"]
               ELSE NoWrite
    /\ UNCHANGED <<edited, ledger, pc, memory, licensed, bounds>>
\* the conflict, an error, or the end of the process
LateWriteDropped ==
    /\ late # NoWrite
    /\ late' = NoWrite
    /\ UNCHANGED <<ledger, file, edited, pc, memory, licensed, bounds>>
\* the abandoned activateTask makes the row active under the same lease
LateActivation ==
    /\ late # NoWrite /\ late.stage = "landed"
    /\ Activatable(rows[late.task].st)
    /\ rows' = [rows EXCEPT ![late.task].st = "active",
                            ![late.task].h = late.to]
    /\ late' = NoWrite
    /\ UNCHANGED <<run, mat, att, rev, tx, file, edited, pc, memory, licensed,
                   bounds>>

\* the control channel or Ctrl-C: markRunStopping
StopRequested ==
    /\ pc \in InRun \ {"settle"} /\ run = "running" /\ faults < MaxFaults
    /\ faults' = faults + 1
    /\ run' = "stopping"
    /\ UNCHANGED <<mat, rows, att, rev, tx, disk, pc, memory, licensed, edits>>
\* the abort signal is seen outside executeTask
CancelSelection ==
    /\ At("select") /\ run = "stopping"
    /\ Throw

\* any other error escapes to executeRun without touching task or attempt
OperationalError ==
    /\ pc \in Preparing \cup InTask \cup {"select"} /\ faults < MaxFaults
    /\ faults' = faults + 1
    /\ Down
    /\ run' = CatchStatus(run)
    /\ UNCHANGED <<mat, rows, att, rev, tx, disk, licensed, edits>>

\* a judge attachment failed its integrity check: exit code verificationFailed
EvidenceIntegrityError ==
    /\ At("judging") /\ faults < MaxFaults
    /\ faults' = faults + 1
    /\ Down
    /\ run' = "failed"
    /\ UNCHANGED <<mat, rows, att, rev, tx, disk, licensed, edits>>

\* the process dies; the ledger and the file stay as they are
Crash ==
    /\ pc # "down" /\ faults < MaxFaults
    /\ faults' = faults + 1
    /\ Down
    /\ late' = LateUnleased
    /\ UNCHANGED <<ledger, file, edited, licensed, edits>>

\* `ralph stop' of a dormant run, under the same writer lease
StopDormant ==
    /\ At("down") /\ run \in Resumable /\ faults < MaxFaults
    /\ faults' = faults + 1
    /\ run' = IF run \in {"running", "waiting"} THEN "stopping" ELSE run
    /\ Goto("stopcmd")
    /\ UNCHANGED <<mat, rows, att, rev, tx, disk, memory, licensed, edits>>
CancelDormant ==
    /\ At("stopcmd")
    /\ Down
    /\ run' = "cancelled"
    /\ UNCHANGED <<mat, rows, att, rev, tx, disk, licensed, bounds>>

\* the user changes a marker or the text around the tasks
UserEdit ==
    /\ edits < MaxEdits
    /\ edits' = edits + 1
    /\ edited' = (edited \/ pc \in Renaming \/ LateHolds)
    /\ \/ /\ file' = [file EXCEPT !.e = 1 - @]
          /\ UNCHANGED licensed
       \/ \E t \in Tasks, s \in Markers :
             /\ file.m[t] # s
             /\ file' = Mark(file, t, s)
             /\ licensed' = IF s = "completed" THEN licensed \cup {t}
                            ELSE licensed
    /\ UNCHANGED <<late, ledger, pc, memory, faults>>

-----------------------------------------------------------------------------
Reconcile ==
    \/ ReconcileNothing
    \/ \E t \in Tasks : \/ ReconcileExistingMarker(t)
                        \/ ReconcileCompareMarker(t)
                        \/ ReconcileWritten(t)
    \/ ReconcileWriteMarker
    \/ ReconcileMarkWritten
    \/ ReconcileCommit
    \/ ReconcileConflict
Activation ==
    \/ InterruptAttempts \/ NoActiveAttempt \/ InterruptTask
    \/ NotMaterialized \/ MakeEligible
    \/ CompareActiveMarker \/ WriteActiveMarker \/ KeepActiveMarker
    \/ MarkingConflict
    \/ ActivateTask \/ TransitionInvalid
Attempt ==
    \/ CreateAttempt \/ BudgetExhausted
    \/ Verify \/ Evaluate
    \/ \E d \in Decisions \ {"none"} : Decide(d)
    \/ SettleAttempt
    \/ SettleTask
    \/ Revise
    \/ \E policy \in ExhaustedPolicies : SettleRevisionExhaustion(policy)
Completion ==
    \/ Prepare \/ PrepareConflict
    \/ CompareCompletedMarker \/ WriteCompletedMarker \/ WritingConflict
    \/ MarkCompletionMarkerWritten
    \/ CommitCompletion
    \/ Recompile
Supervisor ==
    \/ Materialize
    \/ Reconcile
    \/ CheckParity \/ ParityConflict
    \/ ReconcileStop \/ StartRun
    \/ Select \/ Settle \/ CancelSelection
    \/ Activation \/ Attempt \/ Completion
    \/ AbandonTask \/ AbandonRun
    \/ CancelDormant
Open == OpenResumed \/ OpenNew
Environment ==
    \/ Abandon \/ LateWriteCompared \/ LateWriteLands \/ LateWriteDropped
    \/ LateActivation
    \/ StopRequested \/ OperationalError \/ EvidenceIntegrityError
    \/ Crash \/ StopDormant \/ UserEdit

Next == Open \/ Supervisor \/ Environment
Spec == Init /\ [][Next]_vars

\* a live supervisor keeps stepping, the user runs `ralph run' again, and a
\* rename ends or dies with its process
FairSpec ==
    /\ Spec
    /\ WF_vars(Supervisor) /\ WF_vars(Open)
    /\ WF_vars(LateWriteLands \/ LateWriteDropped)

-----------------------------------------------------------------------------
(* The types of the variables. *)
TypeOK ==
    /\ file \in Content /\ graph \in Content
    /\ late \in {NoWrite} \cup
                [from : Content, to : Content,
                 stage : {"waiting", "compared", "landed"},
                 task : Tasks \cup {NoTask}]
    /\ edited \in BOOLEAN
    /\ run \in RunStatus /\ mat \in BOOLEAN
    /\ rows \in [Tasks -> TypeRow]
    /\ att \in [Tasks -> [st : AttemptStatus, dec : Decisions]]
    /\ rev \in [Tasks -> [used : 0..MaxRevisions, feedback : BOOLEAN,
                          idle : 0..(MaxNoChange + 1)]]
    /\ tx \in [Tasks -> [st : {"none", "prepared", "marker_written",
                               "committed"},
                         before : Content \cup {NoWrite},
                         after : Content \cup {NoWrite}]]
    /\ pc \in Positions
    /\ sel \in Tasks \cup {NoTask}
    /\ deferred \subseteq Tasks /\ licensed \subseteq Tasks
    /\ result \in {"none", "failed", "blocked"}
    /\ faults \in 0..MaxFaults /\ edits \in 0..MaxEdits


(* reconcileCompletions runs before anything is selected, so no task is     *)
(* selected, activated or attempted while a completion is pending; only     *)
(* completeSelectedTask itself lives with a pending one.                    *)
NoSelectionWhilePending ==
    pc \in {"select", "settle"} \cup (InTask \ {"writing", "renamecompleted",
                                                "written", "committing"}) =>
        PendingTasks = {}

(* A completion that is pending can always be committed as far as the       *)
(* ledger goes: nobody moved the hash, the decision or the attempt that     *)
(* prepareCompletion checked, however the supervisors that followed ended.  *)
PendingIsCommittable ==
    \A t \in PendingTasks :
        /\ mat /\ rows[t].st # "completed"
        /\ rows[t].h = tx[t].before
        /\ att[t].dec = "passed"
        /\ att[t].st \in {"active", "interrupted"}

(* [x] in the PRD, and a completed row, are only ever produced for a task   *)
(* that a recorded decision approved or that the user ticked: no sequence   *)
(* of crashes, late writes, cancelled runs and new runs launders a task     *)
(* that was merely active, and no materialised run is settled as completed  *)
(* over one.                                                                *)
CompletedIsLicensed ==
    \A t \in Tasks :
        /\ file.m[t] = "completed" => t \in licensed
        /\ mat /\ rows[t].st = "completed" => t \in licensed
        /\ mat /\ run = "completed" => t \in licensed

(* A committed completion left all three records of the ledger in step:     *)
(* the row is completed with the hash of the written marker, its attempt    *)
(* passed on an approving decision and is no longer the active one.         *)
CommittedAgrees ==
    \A t \in Tasks : tx[t].st = "committed" =>
        /\ rows[t] = [st |-> "completed", h |-> tx[t].after, at |-> FALSE]
        /\ att[t] = [st |-> "passed", dec |-> "passed"]
        /\ tx[t].after.m[t] = "completed"

(* Attempts follow the order the scheduler promises: executeTask creates    *)
(* one only after every attempt a dead supervisor left active has been      *)
(* interrupted, and, unless the user moved a marker, a task is worked on    *)
(* only while all its dependencies are completed, although a resumed task   *)
(* is selected without looking at them.                                     *)
AttemptsAreOrdered ==
    /\ At("attempt") => att[sel].st # "active"
    /\ edits = 0 /\ pc \in InTask /\ mat =>
         \A d \in Tasks : <<sel, d>> \in Deps => Completed(rows[d].st)

(* Ralph's own steps touch the PRD only by moving one marker of the content  *)
(* they compared the file with one step forward, and that content is still  *)
(* in the file unless the user saved it again between the comparison and    *)
(* the rename: an edit made at any other time is never overwritten, not     *)
(* even by a write whose caller gave up on it long before.  (An edit made   *)
(* in that gap is lost: nothing in the code prevents it.)                   *)
OneStep(a, b) ==
    \E t \in Tasks : \/ a.m[t] = "pending" /\ b = Mark(a, t, "active")
                     \/ a.m[t] = "active" /\ b = Mark(a, t, "completed")
Compared == IF pc \in Renaming \/ late = NoWrite THEN graph ELSE late.from
MarkersAdvance ==
    [][file' # file /\ edits' = edits =>
          /\ OneStep(Compared, file')
          /\ ~edited => file = Compared]_vars

(* With restarts, every prepared completion is committed in the end, unless *)
(* `ralph stop' cancels the run: no crash, deadline, stop or late write     *)
(* leaves one that every later supervisor refuses.                          *)
PendingCommits ==
    \A t \in Tasks :
        Pending(t) ~> (tx[t].st = "committed" \/ run = "cancelled")

(* Every invocation ends: revisions, no-change retries and deferrals bound  *)
(* the selection loop.                                                      *)
InvocationEnds == (pc # "down") ~> (pc = "down")

-----------------------------------------------------------------------------
(* The inductive invariant: what the ledger and the file keep true whoever  *)
(* supervises (DurableInv), what the position of the live supervisor says   *)
(* about them (PlaceInv), and what a marker write past its comparison may   *)
(* rely on (WriteInv).                                                      *)

\* a run whose rows are not materialised has neither attempts nor completions
NothingBeforeRows ==
    ~mat => \A t \in Tasks : tx[t].st = "none" /\ att[t].st = "none"

\* everything that may end as [x] or as a completed row is licensed
MayComplete(t) ==
    \/ "completed" \in {file.m[t], graph.m[t], rows[t].st}
    \/ att[t].dec = "passed"
    \/ late # NoWrite /\ late.to.m[t] = "completed"
LicenceInv ==
    /\ \A t \in Tasks : MayComplete(t) => t \in licensed
    /\ mat /\ run = "completed" => Tasks \subseteq licensed

\* an abandoned write moves one marker one step
LateInv == late # NoWrite => OneStep(late.from, late.to)

\* while the user leaves the file alone it is ahead of what was read from it
\* and of the rows
FileAhead ==
    \A t \in Tasks : "completed" \in {graph.m[t], rows[t].st} =>
                        file.m[t] = "completed"
\* and a task that was started has its dependencies behind it
DependenciesOf(t) == {d \in Tasks : <<t, d>> \in Deps}
MayBeActive(t) == \/ "active" \in {file.m[t], graph.m[t]}
                  \/ late # NoWrite /\ late.to.m[t] = "active"
StartedInOrder ==
    \A t \in Tasks :
       /\ MayBeActive(t) =>
             \A d \in DependenciesOf(t) : file.m[d] = "completed"
       /\ rows[t].st \notin {"pending", "completed"} =>
             \A d \in DependenciesOf(t) : rows[d].st = "completed"

DurableInv ==
    /\ NothingBeforeRows /\ PendingIsCommittable /\ CommittedAgrees
    /\ LicenceInv /\ LateInv
    /\ edits = 0 => FileAhead /\ StartedInOrder

\* the task a position is about
SelectedInv ==
    /\ pc \in InTask \cup Leased \cup {"recrename", "recmark", "reccommit"} =>
          sel \in Tasks
    /\ pc \in InTask \ {"fence", "eligible"} => mat
    /\ pc \in InTask \ {"recompile"} /\ mat => rows[sel].st # "completed"
    /\ pc = "materialize" => run = "created"
    /\ pc \in {"recrename", "recmark", "reccommit"} => Pending(sel)
    /\ pc = "recrename" => graph.m[sel] = "active"

\* its attempt, and the marker its row was activated with
AttemptInv ==
    /\ pc \in {"refence", "eligible", "marking", "renameactive", "activating",
               "attempt", "resettling", "revise"} \cup Leased =>
          att[sel].st # "active"
    /\ pc \in {"working", "verifying", "judging", "prepare"} =>
          att[sel].st = "active"
    /\ pc \in {"attempt", "working", "verifying", "judging", "settling",
               "resettling", "revise", "prepare"} =>
          rows[sel].h.m[sel] = "active"
    /\ pc = "renameactive" => graph.m[sel] = "pending"
    /\ pc \in {"writing", "renamecompleted"} => graph.m[sel] = "active"

\* where completions may be pending
Completing == {"writing", "renamecompleted", "written", "committing"}
PendingInv ==
    /\ pc \in {"parity", "start", "select", "settle"}
              \cup (InTask \ Completing) => PendingTasks = {}
    /\ pc \in Completing => PendingTasks = {sel}

\* what the selected task is worked on for, while the file is left alone
SelectedInOrder ==
    /\ pc \in {"written", "committing"} => file.m[sel] = "completed"
    /\ pc \in InTask \cup Leased /\ mat =>
          \A d \in DependenciesOf(sel) : rows[d].st = "completed"

\* one write at a time is past its comparison, and the file is what it was
\* compared with until the user saves it; an activation waits for a late write
\* only under the lease of the supervisor that abandoned both
WriteInv ==
    /\ pc \in Renaming => ~LateHolds
    /\ (pc \in Renaming \/ LateHolds) /\ ~edited => file = Compared
    /\ edits = 0 => ~edited
    /\ late # NoWrite /\ late.stage = "landed" => late.task # NoTask
    /\ late # NoWrite /\ late.task # NoTask =>
          pc \in Leased /\ late.task = sel /\ mat /\ PendingTasks = {}

PlaceInv == /\ SelectedInv /\ AttemptInv /\ PendingInv
            /\ edits = 0 => SelectedInOrder

Inv == TypeOK /\ DurableInv /\ PlaceInv /\ WriteInv
=============================================================================
