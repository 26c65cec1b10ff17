-------------------------- MODULE ChildSupervision --------------------------
(***************************************************************************)
(* One pre-authored child run under its parent command: the loop that      *)
(* opens a child-run worker, binds the run-supervisor lease to it, lets it *)
(* coordinate the child run, and replaces it when the child watchdog       *)
(* confirms a stall (runner.ts, child-scheduler.ts, watchdog.ts and        *)
(* watchdog-monitor.ts).                                                   *)
(*                                                                         *)
(* Callbacks of the command share one event loop: an action is what runs   *)
(* between two awaits.  Two health samplers (the periodic one and the one  *)
(* that every watchdog action starts) interleave at their awaits, with the *)
(* monitor's timer, the lease-renewal timer, the worker process, and       *)
(* crashes of the command itself.                                          *)
(*                                                                         *)
(* Time is the age of each signal, advanced by Tick and capped just past   *)
(* the largest value a comparison distinguishes.                           *)
(***************************************************************************)
EXTENDS Integers, Sequences, FiniteSets

CONSTANTS
    HeartbeatGrace, QuietAfter, SlowAfter, SuspectAfter, HardTimeout,
                    \* the child phase profile, in ticks
    Confirmations,  \* negative probes before a destructive action
    Action,         \* the configured action on a stall
    MaxRestarts,    \* restart budget of the profile
    MaxSessions,    \* bound: worker sessions ever opened
    MaxInvocations, \* bound: invocations of the parent command
    MaxQueue        \* bound: actions delivered and not yet handled

Actions == {"notify", "cancel", "restart-attempt", "stop-run"}

(* timingIssues: the order the configuration schema enforces. *)
ASSUME ProfileAssumption ==
    /\ {HeartbeatGrace, QuietAfter, SlowAfter, SuspectAfter, HardTimeout,
        Confirmations} \subseteq Nat \ {0}
    /\ HeartbeatGrace <= QuietAfter
    /\ QuietAfter <= SlowAfter
    /\ SlowAfter <= SuspectAfter
    /\ SuspectAfter <= HardTimeout
    /\ Action \in Actions
    /\ MaxRestarts \in Nat

ASSUME BoundAssumption ==
    {MaxSessions, MaxInvocations, MaxQueue} \subseteq Nat \ {0}

Sessions == 1 .. MaxSessions
Samplers == {"periodic", "action"}
States   == {"healthy", "quiet", "slow", "suspect", "stalled", "recovered"}
None     == [action |-> "none", cause |-> "none", budget |-> 0]

VARIABLES
    \* durable, or outside the command
    worker,     \* worker processes: life, and the request they were given
    lease,      \* run-supervisor lease of the child: its owner, still fresh?
    run,        \* status of the child run: "open" or "completed"
    link,       \* status of the parent/child link
    restarts,   \* largest watchdogRestarts of child.worker.restart_started
    restarted,  \* number of child.worker.restart_started events
    sid,        \* sessions opened so far; the current one is the last
    inv,        \* invocations so far
    \* memory of the running command
    pc, budget, \* supervisePreauthoredTaskChild and its watchdogBudget
    age, gone,  \* the monitor's signal markers
    sample,     \* the two health samplers, between awaits
    monitor,    \* the WatchdogMonitor
    queue, handler,
                \* actionQueue and the handler of its head
    accepted, fatal,
                \* acceptedAction; the causes held in fatalError
    renewalFailed, leaseStop,
                \* renewalFailure, and the stop it requests in the background
    outcome,    \* how superviseChildRun ended
    \* history
    hardProbes, \* probes of this session that saw the hard timeout exceeded
    unkilled    \* some termination could not be confirmed

durable == <<worker, lease, run, link, restarts, restarted, sid, inv>>
signals == <<age, gone>>
actions == <<queue, handler, accepted, fatal>>
renewal == <<renewalFailed, leaseStop>>
history == <<hardProbes, unkilled>>
vars == <<durable, pc, budget, signals, sample, monitor, actions, renewal,
          outcome, history>>

Life == {"unborn", "up", "frozen", "dead"}
Living(w) == worker[w].life \in {"up", "frozen"}
Cap(n, most) == IF n > most THEN most ELSE n

Dead == [life |-> "dead", told |-> "no"]

NoSnapshot == [state |-> "none", n |-> 0, hard |-> FALSE]
StoppedMonitor == [running |-> FALSE, scheduled |-> FALSE, prev |-> NoSnapshot,
                   budget |-> 0, advanced |-> TRUE]
FreshAges == [elapsed |-> 0, progress |-> 0, control |-> 0, child |-> 0, health |-> 0]
AgeCap == [elapsed |-> HardTimeout, progress |-> SuspectAfter,
           control |-> HeartbeatGrace + 1, child |-> HeartbeatGrace + 1,
           health |-> QuietAfter + 1]
IdleSamplers == [s \in Samplers |-> [at |-> "idle", life |-> "dead"]]

-----------------------------------------------------------------------------
(* The evaluation of one probe (watchdog.ts), on the current markers. *)

HardTimeoutExceeded == age.elapsed >= HardTimeout

(* Heartbeat and ping are one family, the child's IPC control plane. *)
NegativeFamilies ==
    LET negative == [ipc      |-> \/ age.control > HeartbeatGrace
                                  \/ age.child > HeartbeatGrace,
                     progress |-> age.progress >= SuspectAfter,
                     process  |-> gone,
                     deadline |-> HardTimeoutExceeded]
    IN  {f \in DOMAIN negative : negative[f]}

(* settlement-running is always positive, and so is the deadline until it is
   exceeded: the process signals could only add to a count of two. *)
PositiveSignals ==
    LET positive == [settlement |-> TRUE,
                     control    |-> age.control <= HeartbeatGrace,
                     child      |-> age.child <= HeartbeatGrace,
                     progress   |-> age.progress < SlowAfter,
                     deadline   |-> ~HardTimeoutExceeded]
    IN  {s \in DOMAIN positive : positive[s]}

SuspicionWindow ==
    \/ age.progress >= SuspectAfter
    \/ age.control > HeartbeatGrace
    \/ gone

Negative(n) ==
    [state |-> IF n >= Confirmations THEN "stalled" ELSE "suspect",
     n |-> Cap(n, Confirmations), hard |-> HardTimeoutExceeded]

\* MUTANT of HardVerdict: a stalled phase is confirmed all over again.
MutHardForgetsStall(prev) == Negative((IF prev.hard THEN prev.n ELSE 0) + 1)

\* MUTANT of HardVerdict: earlier confirmations count for the hard timeout.
MutHardReusesConfirmations(prev) ==
    IF prev.state = "stalled" THEN [prev EXCEPT !.hard = TRUE] ELSE Negative(prev.n + 1)

HardVerdict(prev) ==
    IF prev.state = "stalled"
    THEN [prev EXCEPT !.hard = TRUE]
    ELSE Negative((IF prev.hard THEN prev.n ELSE 0) + 1)

Verdict(prev) ==
    CASE HardTimeoutExceeded -> HardVerdict(prev)
      [] /\ ~HardTimeoutExceeded
         /\ Cardinality(NegativeFamilies) >= 2
         /\ SuspicionWindow -> Negative(prev.n + 1)
      [] OTHER ->
           [state |-> CASE age.progress >= SlowAfter \/ age.control > HeartbeatGrace -> "slow"
                        [] age.progress \in QuietAfter .. SlowAfter - 1
                           /\ age.control <= HeartbeatGrace -> "quiet"
                        [] OTHER -> "healthy",
            n |-> 0, hard |-> FALSE]

Actionable == {"suspect", "stalled"}

classifyState(prev) ==
    LET v == Verdict(prev)
        confirmed == Cardinality(PositiveSignals) >= 2
        recovered == [v EXCEPT !.state = "recovered", !.n = 0]
    IN  IF prev.state \in Actionable /\ v.state \notin Actionable
        THEN IF confirmed THEN recovered
             ELSE [v EXCEPT !.state = prev.state, !.n = prev.n]
        ELSE IF prev.state = "slow" /\ v.state \in {"healthy", "quiet"} /\ confirmed
             THEN recovered
             ELSE v

canTransitionWatchdogState(from, to) ==
    CASE from = "none"      -> TRUE
      [] from = "healthy"   -> to # "recovered"
      [] from = "suspect"   -> to \in {"suspect", "stalled", "recovered"}
      [] from = "stalled"   -> to \in {"stalled", "recovered"}
      [] OTHER              -> TRUE

(* recoveryDecision: an action only on entering suspect or stalled. *)
recoveryDecision(prev, snap, used) ==
    LET exhausted == Action = "restart-attempt" /\ used >= MaxRestarts
        entered == snap.state # prev.state
    IN  CASE entered /\ snap.state = "suspect" ->
               [action |-> "notify", cause |-> "suspect", budget |-> used]
          [] entered /\ snap.state = "stalled" /\ exhausted ->
               [action |-> "stop-run", cause |-> "restart-budget-exhausted", budget |-> used]
          [] entered /\ snap.state = "stalled" /\ ~exhausted ->
               [action |-> Action,
                cause |-> IF snap.hard THEN "hard-timeout" ELSE "stalled",
                budget |-> IF Action = "restart-attempt" THEN used + 1 ELSE used]
          [] OTHER -> [None EXCEPT !.budget = used]

Aborted == accepted # None \/ fatal # {}

(* Aborting stops the monitor; no signal is read again, so they are dropped. *)
AbortedMonitor(m) == [m EXCEPT !.running = FALSE, !.scheduled = FALSE, !.advanced = TRUE]
DropSignals == age' = FreshAges /\ gone' = FALSE

-----------------------------------------------------------------------------
Init ==
    /\ worker = [w \in Sessions |-> [life |-> "unborn", told |-> "no"]]
    /\ lease = [holder |-> 0, live |-> FALSE]
    /\ run = "open" /\ link = "reserved"
    /\ restarts = 0 /\ restarted = 0 /\ sid = 0 /\ inv = 0
    /\ pc = "idle" /\ budget = 0
    /\ age = FreshAges /\ gone = FALSE
    /\ sample = IdleSamplers /\ monitor = StoppedMonitor
    /\ queue = <<>> /\ handler = "idle" /\ accepted = None /\ fatal = {}
    /\ renewalFailed = FALSE /\ leaseStop = FALSE
    /\ outcome = "none"
    /\ hardProbes = 0 /\ unkilled = FALSE

(* What a session keeps in memory is gone when it ends or the command dies. *)
Forget ==
    /\ age' = FreshAges /\ gone' = FALSE
    /\ sample' = IdleSamplers /\ monitor' = StoppedMonitor
    /\ queue' = <<>> /\ handler' = "idle" /\ accepted' = None /\ fatal' = {}
    /\ renewalFailed' = FALSE /\ leaseStop' = FALSE
    /\ outcome' = "none" /\ hardProbes' = 0

Return == pc' = "idle" /\ budget' = 0 /\ Forget

-----------------------------------------------------------------------------
(* supervisePreauthoredTaskChild: the budget comes from the ledger.  The guard
   ~unkilled is not in the code: a later invocation may start although the
   termination of a worker stayed unconfirmed and its lease was released.
   What is checked and proved says nothing of such invocations. *)

\* MUTANT of childWatchdogOperationalBudget: each invocation starts afresh.
MutBudgetFromMemory == 0

childWatchdogOperationalBudget == restarts

Invoke ==
    /\ pc = "idle" /\ inv < MaxInvocations /\ link # "passed" /\ ~unkilled
    /\ inv' = inv + 1
    /\ budget' = childWatchdogOperationalBudget
    /\ pc' = "open"
    /\ UNCHANGED <<worker, lease, run, link, restarts, restarted, sid, signals,
                   sample, monitor, actions, renewal, outcome, history>>

(* The session factory resolves once the worker is ready: its ready message
   is the first control heartbeat. *)
OpenSession ==
    /\ pc = "open" /\ sid < MaxSessions
    /\ sid' = sid + 1
    /\ worker' = [worker EXCEPT ![sid + 1].life = "up"]
    /\ monitor' = [monitor EXCEPT !.budget = budget]
    /\ pc' = "first"
    /\ UNCHANGED <<lease, run, link, restarts, restarted, inv, budget, signals,
                   sample, actions, renewal, outcome, history>>

OpenFails ==
    /\ pc = "open"
    /\ Return
    /\ UNCHANGED <<durable, unkilled>>

-----------------------------------------------------------------------------
(* sampleHealth, one action per await. *)

(* It begins with the heartbeat that arrived since the last sample, if one
   did; the first sample of a session always finds the ready message. *)
StartSample(s) ==
    /\ sample' = [sample EXCEPT ![s] = [at |-> "await", life |-> worker[sid].life]]
    /\ \/ age' = [age EXCEPT !.child = 0] /\ (worker[sid].life = "up" \/ pc = "first")
       \/ age' = age /\ pc # "first"
    /\ UNCHANGED gone

(* The first sample precedes the monitor; the others follow armSample. *)
PeriodicSample ==
    /\ pc \in {"first", "lease", "run"} /\ ~Aborted
    /\ sample["periodic"].at = "idle"
    /\ StartSample("periodic")
    /\ UNCHANGED <<durable, pc, budget, monitor, actions, renewal, outcome, history>>

EndSample(s, alive, pong, progressed) ==
    /\ IF Aborted THEN UNCHANGED signals
       ELSE /\ age' = [age EXCEPT
                 !.control = IF pong THEN 0 ELSE @,
                 !.health = IF alive = "yes" /\ (pong \/ age.child <= HeartbeatGrace)
                            THEN 0 ELSE @,
                 !.progress = IF progressed THEN 0 ELSE @]
            /\ gone' = (alive = "no")
    /\ sample' = [sample EXCEPT ![s] = IdleSamplers[s]]
    /\ handler' = IF s = "action" THEN "flush" ELSE handler
    /\ IF pc = "first"
       THEN /\ pc' = "lease"
            /\ monitor' = [monitor EXCEPT !.running = TRUE, !.scheduled = TRUE]
       ELSE UNCHANGED <<pc, monitor>>
    /\ UNCHANGED <<durable, budget, queue, accepted, fatal, renewal, outcome, history>>

(* The process probe answers for some moment of the await, or not at all;
   the ping is sent only to the exact process, and answered or timed out.
   The progress marker was read before the await; the first one is new. *)
AwaitHealth(s) ==
    /\ sample[s].at = "await"
    /\ \E alive \in {"yes", "no", "unknown"}, pong \in BOOLEAN, progressed \in BOOLEAN :
          /\ alive = "yes" => sample[s].life # "dead"
          /\ alive = "no" => ~Living(sid)
          /\ pong => alive = "yes" /\ worker[sid].life = "up"
          /\ progressed => pc = "first" \/ sample[s].life = "up"
          /\ pc = "first" => progressed
          /\ EndSample(s, alive, pong, progressed)

-----------------------------------------------------------------------------
(* WatchdogMonitor: a probe reads, evaluates, records and delivers without
   an await; a timed probe schedules the next one, flush() does not.  A tick
   is at most one probe interval. *)

Snapshot == classifyState(monitor.prev)
Decision == recoveryDecision(monitor.prev, Snapshot, monitor.budget)

Probed(rescheduled) ==
    [monitor EXCEPT !.prev = Snapshot, !.budget = Decision.budget,
                    !.scheduled = rescheduled, !.advanced = FALSE]

Delivered == IF Decision.action = "none" THEN <<>> ELSE <<Decision>>

CountHard ==
    hardProbes' = IF HardTimeoutExceeded THEN Cap(hardProbes + 1, Confirmations) ELSE hardProbes

launchProbe ==
    /\ monitor.running /\ monitor.scheduled /\ monitor.advanced
    /\ Len(queue \o Delivered) <= MaxQueue
    /\ monitor' = Probed(TRUE)
    /\ queue' = queue \o Delivered
    /\ CountHard
    /\ UNCHANGED <<durable, pc, budget, signals, sample, handler, accepted, fatal,
                   renewal, outcome, unkilled>>

(* An error in the monitor's hooks, or in the periodic sample, aborts the
   session: the ledger refused the write or the writer lease is lost. *)
FailClosed ==
    /\ pc \in {"lease", "run"} /\ ~Aborted
    /\ fatal' = fatal \cup {"callback"}
    /\ monitor' = AbortedMonitor(monitor) /\ DropSignals
    /\ UNCHANGED <<durable, pc, budget, sample, queue, handler, accepted,
                   renewal, outcome, history>>

FirstSampleFails ==
    /\ pc = "first"
    /\ pc' = "close" /\ outcome' = "error"
    /\ sample' = IdleSamplers
    /\ UNCHANGED <<durable, budget, signals, monitor, actions, renewal, history>>

-----------------------------------------------------------------------------
(* handleWatchdogAction, one queued action at a time: a fresh sample, a
   flushed probe, and only then a destructive step. *)

HandleAction ==
    /\ handler = "idle" /\ queue # <<>> /\ sample["action"].at = "idle"
    /\ handler' = "sample"
    /\ StartSample("action")
    /\ UNCHANGED <<durable, pc, budget, monitor, queue, accepted, fatal, renewal,
                   outcome, history>>

(* flush() evaluates nothing when the monitor is stopped, or when the clock
   has not moved since the previous probe. *)
Flushed ==
    {m \in {[monitor EXCEPT !.scheduled = FALSE], Probed(FALSE)} :
        m = Probed(FALSE) => monitor.running}
    \ (IF monitor.running /\ monitor.advanced
       THEN {[monitor EXCEPT !.scheduled = FALSE]} ELSE {})

ConfirmAction ==
    /\ handler = "flush"
    /\ \E m \in Flushed :
          LET probed == m = Probed(FALSE) /\ monitor.running
              pending == IF probed THEN queue \o Delivered ELSE queue
              cur == Head(queue)
          IN  /\ IF probed THEN CountHard ELSE UNCHANGED hardProbes
              /\ IF \/ cur.action = "notify"
                    \/ m.prev.state # "stalled"
                    \/ accepted # None
                 THEN /\ handler' = "idle" /\ queue' = Tail(pending)
                      /\ monitor' = m
                      /\ UNCHANGED <<accepted, signals>>
                 ELSE /\ handler' = "stop" /\ queue' = pending
                      /\ accepted' = cur
                      /\ monitor' = AbortedMonitor(m) /\ DropSignals
    /\ UNCHANGED <<durable, pc, budget, sample, fatal, renewal, outcome, unkilled>>

(* terminateGracefully, forceKill, close: cancel, wait, kill the tree, and
   confirm the exit of this exact process. *)
Terminated == /\ worker' = [worker EXCEPT ![sid] = Dead]
              /\ UNCHANGED unkilled

TerminationFails == /\ Living(sid)
                    /\ unkilled' = TRUE
                    /\ UNCHANGED worker

StopWorker ==
    /\ handler = "stop"
    /\ \/ Terminated /\ UNCHANGED fatal
       \/ TerminationFails /\ fatal' = fatal \cup {"callback"}
    /\ handler' = "idle" /\ queue' = Tail(queue)
    /\ UNCHANGED <<lease, run, link, restarts, restarted, sid, inv, pc, budget, signals,
                   sample, monitor, accepted, renewal, outcome, hardProbes>>

-----------------------------------------------------------------------------
(* superviseChildRun: lease, execution, settlement of the link, release. *)

\* MUTANT of Claimable: the owner of a lapsed lease is not probed.
MutTakesStaleLease == lease.holder = 0 \/ ~lease.live

Claimable ==
    \/ lease.holder = 0
    \/ ~lease.live /\ ~Living(lease.holder)

AcquireLease ==
    /\ pc = "lease"
    /\ IF Claimable
       THEN /\ lease' = [holder |-> sid, live |-> TRUE]
            /\ worker' = [worker EXCEPT ![sid].told =
                             IF run = "completed" THEN "reconcile" ELSE "execute"]
            /\ link' = IF run = "completed" THEN link ELSE "active"
            /\ pc' = "run"
            /\ UNCHANGED outcome
       ELSE /\ pc' = "ended" /\ outcome' = "error"
            /\ UNCHANGED <<lease, worker, link>>
    /\ UNCHANGED <<run, restarts, restarted, sid, inv, budget, signals, sample, monitor,
                   actions, renewal, history>>

\* MUTANT of leaseRenewalAuthorized: renewal needs no proof of health.
MutRenewsUnproven == ~Aborted

leaseRenewalAuthorized == ~Aborted /\ age.health <= QuietAfter

(* renewOnce: a refused renewal fails the watchdog closed and asks the
   worker to stop, without waiting for it. *)
RenewalRefused ==
    /\ pc = "run" /\ ~renewalFailed
    /\ ~leaseRenewalAuthorized
    /\ renewalFailed' = TRUE /\ leaseStop' = TRUE
    /\ fatal' = fatal \cup {"renewal"}
    /\ monitor' = AbortedMonitor(monitor) /\ DropSignals
    /\ UNCHANGED <<durable, pc, budget, sample, queue, handler, accepted,
                   outcome, history>>

StopAfterRenewal ==
    /\ leaseStop
    /\ leaseStop' = FALSE
    /\ Terminated \/ TerminationFails
    /\ UNCHANGED <<lease, run, link, restarts, restarted, sid, inv, pc, budget, signals,
                   sample, monitor, actions, renewalFailed, outcome, hardProbes>>

(* execute() settles: the worker answered, died, was aborted or met its
   lifetime deadline.  Its finally block terminates the worker first. *)
EndExecution(ok) ==
    /\ pc' = "ended"
    /\ lease' = IF lease.holder = sid THEN [holder |-> 0, live |-> FALSE] ELSE lease
    /\ \/ Terminated
          /\ LET settled == ok /\ ~renewalFailed IN
             /\ outcome' = IF settled THEN "settled" ELSE "error"
             /\ link' = CASE settled /\ run = "completed" -> "passed"
                          [] run = "open" -> "interrupted"
                          [] OTHER -> link
       \/ TerminationFails
          /\ outcome' = "error"
          /\ link' = IF run = "open" THEN "interrupted" ELSE link
    /\ UNCHANGED <<run, restarts, restarted, sid, inv, budget, signals, sample, monitor,
                   actions, renewal, hardProbes>>

ExecuteReturns ==
    /\ pc = "run" /\ worker[sid].life = "up"
    /\ EndExecution(TRUE)

ExecuteRejects ==
    /\ pc = "run" /\ (worker[sid].life = "dead" \/ Aborted)
    /\ EndExecution(FALSE)

(* The lifetime deadline of the worker lies one probe and a grace after the
   hard timeout, but it is wall-clock time counted from before the session is
   opened: opening may have used up any part of it, so no age of the monitor
   bounds it.  It waits for no confirmation of the watchdog. *)
WorkerDeadline ==
    /\ pc = "run"
    /\ EndExecution(FALSE)

-----------------------------------------------------------------------------
(* watchdog.stop (whose last flush may fail), session.close, and what the
   loop makes of the outcome. *)

StopWatchdog ==
    /\ pc = "ended"
    /\ sample["periodic"].at = "idle" /\ handler = "idle" /\ queue = <<>>
    /\ monitor' = StoppedMonitor
    /\ pc' = "close"
    /\ \/ UNCHANGED fatal
       \/ outcome = "settled" /\ ~Aborted /\ fatal' = {"callback"}
    /\ DropSignals
    /\ UNCHANGED <<durable, budget, sample, queue, handler, accepted, renewal,
                   outcome, history>>

RecordRestart ==
    /\ restarts' = IF accepted.budget > restarts THEN accepted.budget ELSE restarts
    /\ restarted' = restarted + 1
    /\ budget' = accepted.budget
    /\ pc' = IF link = "passed" THEN "idle" ELSE "open"
    /\ Forget

CloseSession ==
    /\ pc = "close"
    /\ \/ /\ Terminated
          /\ IF fatal = {} /\ accepted.action = "restart-attempt"
             THEN RecordRestart
             ELSE Return /\ UNCHANGED <<restarts, restarted>>
       \/ /\ TerminationFails
          /\ Return /\ UNCHANGED <<restarts, restarted>>
    /\ UNCHANGED <<lease, run, link, sid, inv>>

-----------------------------------------------------------------------------
(* The worker process, the clock, and the death of the command. *)

(* The worker revalidates its lease before it coordinates or writes. *)
CompleteRun(w) ==
    /\ worker[w].life = "up" /\ worker[w].told = "execute" /\ lease.holder = w
    /\ run = "open"
    /\ run' = "completed"
    /\ UNCHANGED <<worker, lease, link, restarts, restarted, sid, inv, pc, budget, signals,
                   sample, monitor, actions, renewal, outcome, history>>

(* A process stalls, resumes, or exits; one that lost its supervisor exits
   at the disconnect as soon as it runs. *)
ChangeLife(w) ==
    /\ \/ worker[w].life = "up" /\ worker' = [worker EXCEPT ![w].life = "frozen"]
       \/ worker[w].life = "frozen" /\ worker' = [worker EXCEPT ![w].life = "up"]
       \/ Living(w) /\ worker' = [worker EXCEPT ![w] = Dead]
    /\ UNCHANGED <<lease, run, link, restarts, restarted, sid, inv, pc, budget, signals,
                   sample, monitor, actions, renewal, outcome, history>>

LeaseExpires ==
    /\ lease.live /\ (pc # "run" \/ lease.holder # sid \/ renewalFailed)
    /\ lease' = [lease EXCEPT !.live = FALSE]
    /\ UNCHANGED <<worker, run, link, restarts, restarted, sid, inv, pc, budget, signals,
                   sample, monitor, actions, renewal, outcome, history>>

Tick ==
    /\ pc \in {"first", "lease", "run", "ended"} /\ ~Aborted
    /\ age' = [a \in DOMAIN age |-> Cap(age[a] + 1, AgeCap[a])]
    /\ monitor' = [monitor EXCEPT !.advanced = TRUE]
    /\ UNCHANGED <<durable, pc, budget, gone, sample, actions, renewal,
                   outcome, history>>

Crash ==
    /\ pc # "idle"
    /\ Return
    /\ UNCHANGED <<durable, unkilled>>

-----------------------------------------------------------------------------
Next ==
    \/ Invoke \/ OpenSession \/ OpenFails
    \/ PeriodicSample \/ FirstSampleFails
    \/ \E s \in Samplers : AwaitHealth(s)
    \/ launchProbe \/ FailClosed
    \/ HandleAction \/ ConfirmAction \/ StopWorker
    \/ AcquireLease \/ RenewalRefused \/ StopAfterRenewal
    \/ ExecuteReturns \/ ExecuteRejects \/ WorkerDeadline
    \/ StopWatchdog \/ CloseSession
    \/ \E w \in Sessions : CompleteRun(w) \/ ChangeLife(w)
    \/ LeaseExpires \/ Tick \/ Crash

Spec == Init /\ [][Next]_vars

(* Timers fire, answers or their timeouts arrive, and the event loop runs
   what is ready; the worker, errors and crashes owe nothing. *)
Supervise == ExecuteRejects \/ StopWatchdog \/ CloseSession
ActOnDecision ==
    HandleAction \/ AwaitHealth("action") \/ ConfirmAction \/ StopWorker

Fairness ==
    /\ WF_vars(Tick) /\ WF_vars(RenewalRefused)
    /\ WF_vars(AwaitHealth("periodic"))
    /\ WF_vars(ActOnDecision) /\ WF_vars(Supervise)

LiveSpec == Spec /\ Fairness

-----------------------------------------------------------------------------
(* The types of the variables. *)
TypeOK ==
    /\ worker \in [Sessions -> [life : Life, told : {"no", "execute", "reconcile"}]]
    /\ lease \in [holder : 0 .. MaxSessions, live : BOOLEAN]
    /\ run \in {"open", "completed"}
    /\ link \in {"reserved", "active", "interrupted", "passed"}
    /\ restarts \in Nat /\ restarted \in Nat
    /\ sid \in 0 .. MaxSessions /\ inv \in 0 .. MaxInvocations
    /\ pc \in {"idle", "open", "first", "lease", "run", "ended", "close"}
    /\ budget \in Nat
    /\ DOMAIN age = DOMAIN AgeCap /\ \A a \in DOMAIN age : age[a] \in 0 .. AgeCap[a]
    /\ gone \in BOOLEAN
    /\ sample \in [Samplers -> [at : {"idle", "await"}, life : Life]]
    /\ monitor \in [running : BOOLEAN, scheduled : BOOLEAN, advanced : BOOLEAN,
                    prev : [state : States \cup {"none"}, n : 0 .. Confirmations,
                            hard : BOOLEAN],
                    budget : Nat]
    /\ Len(queue) <= MaxQueue + 1 /\ \A i \in DOMAIN queue : queue[i].action \in Actions
    /\ handler \in {"idle", "sample", "flush", "stop"}
    /\ accepted.action \in Actions \cup {"none"}
    /\ fatal \subseteq {"callback", "renewal"}
    /\ renewalFailed \in BOOLEAN /\ leaseStop \in BOOLEAN
    /\ outcome \in {"none", "settled", "error"}
    /\ hardProbes \in 0 .. Confirmations /\ unkilled \in BOOLEAN

(* The classification never makes a transition that WATCHDOG_STATE_TRANSITIONS
   forbids, whatever signals arrive between two probes: classifyState throws
   on one, which would abort a healthy session (watchdog.ts). *)
TransitionsLegal ==
    canTransitionWatchdogState(monitor.prev.state, Snapshot.state)

(* The watchdog decides to act for the hard timeout only after the configured
   number of probes of this session saw the deadline exceeded: confirmations
   of an earlier suspicion do not count (classifyState, docs/10).  It is said
   of decisions whose cause is the hard timeout, and of nothing else that may
   stop a worker after it: WorkerDeadline needs no confirmation, and with the
   default of three it comes first; a decision to stop the run because the
   restart budget is exhausted carries that cause instead. *)
HardKillConfirmed ==
    accepted.cause = "hard-timeout" => hardProbes = Confirmations

(* The restart budget of the profile bounds the restarts of a child over all
   invocations, through crashes between a stop and its event
   (childWatchdogOperationalBudget). *)
RestartsBounded == restarted <= MaxRestarts

Coordinators == {w \in Sessions : Living(w) /\ worker[w].told # "no"}

(* At most one living worker was ever told to coordinate the child run, and
   none outlives the settlement of the link, although a command may die with
   its worker alive and the next one starts another (child-scheduler.ts).
   The guard ~unkilled of Invoke, which the code lacks, excludes the one way
   out that is known: superviseChildRun releases the lease of a worker whose
   termination it could not confirm, and a later invocation may then start a
   second one beside it. *)
OneCoordinator ==
    Cardinality(Coordinators) <= (IF link = "passed" THEN 0 ELSE 1)

(* A worker that stops answering does not hold its session for ever: it comes
   back, or the loop gets past it, by the watchdog or by the refused renewal
   of its lease (leaseRenewalAuthorized). *)
StuckSessionEnds ==
    (pc = "run" /\ worker[sid].life = "frozen")
        ~> (pc \in {"idle", "open"} \/ worker[sid].life = "up")

(* What docs/10 says of a suspect phase: probes are repeated up to the
   configured number.  A running monitor that suspects has its next probe on
   the timer, or an action whose handler will flush one.  flush() takes the
   timer away and does not arm it again. *)
SuspectKeepsProbing ==
    monitor.running /\ monitor.prev.state = "suspect"
        => monitor.scheduled \/ handler # "idle" \/ queue # <<>>

-----------------------------------------------------------------------------
(* The inductive invariant. *)

Decisions ==
    [action : Actions \cup {"none"}, budget : Nat,
     cause : {"none", "suspect", "stalled", "hard-timeout", "restart-budget-exhausted"}]

(* What an action of the watchdog that was delivered rests on. *)
Justified(d) ==
    /\ d.action = "restart-attempt" => restarts < d.budget /\ d.budget <= MaxRestarts
    /\ d.cause = "hard-timeout" => hardProbes = Confirmations

DecisionInv ==
    /\ queue \in Seq(Decisions) /\ accepted \in Decisions
    /\ Justified(accepted) /\ \A i \in DOMAIN queue : Justified(queue[i])

(* The session and its queue of actions. *)
SessionInv ==
    /\ pc \notin {"idle", "open"} => sid \in Sessions
    /\ \A w \in Sessions : w > sid => worker[w].told = "no"
    /\ pc \in {"idle", "open", "first"} => queue = <<>> /\ ~monitor.running
    /\ handler # "idle" => queue # <<>>
    /\ sample["action"].at = "await" => handler = "sample"
    /\ monitor.running => Len(queue) <= MaxQueue

(* The confirmations of the last probe. *)
ProbeInv ==
    /\ monitor.prev.state = "stalled" => monitor.prev.n = Confirmations
    /\ monitor.prev.hard /\ monitor.prev.state # "stalled" => monitor.prev.n <= hardProbes

(* The budget in memory is never behind the ledger's. *)
BudgetInv ==
    /\ restarted <= restarts /\ restarts <= MaxRestarts
    /\ pc = "open" => restarts <= budget
    /\ pc = "first" \/ monitor.running => restarts <= monitor.budget

(* Who may coordinate: the owner of the lease, or the worker of a session
   whose termination could not be confirmed, after its release. *)
LeaseInv ==
    /\ \A w \in Coordinators :
          \/ w = lease.holder
          \/ /\ w = sid /\ lease.holder = 0 /\ unkilled
             /\ pc \in {"ended", "close", "idle"}
    /\ pc = "run" => lease.holder = sid
    /\ link = "passed" => Coordinators = {} /\ pc \in {"ended", "close", "idle"}

Inv == /\ TypeOK /\ DecisionInv /\ SessionInv
       /\ ProbeInv /\ BudgetInv /\ LeaseInv

=============================================================================
