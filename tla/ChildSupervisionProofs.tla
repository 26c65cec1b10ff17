----------------------- MODULE ChildSupervisionProofs -----------------------
(***************************************************************************)
(* TLAPS proofs about ChildSupervision, for any phase profile that the     *)
(* configuration schema accepts, any action and restart budget, and any    *)
(* number of sessions, invocations and queued actions.                     *)
(*                                                                         *)
(* The lemmas about the evaluation of a probe come first: Classified says  *)
(* what classifyState keeps of the confirmations, Decided what a delivered *)
(* action rests on.  Then each action keeps the parts of Inv.              *)
(***************************************************************************)
EXTENDS ChildSupervision, TLAPS, FiniteSetTheorems

USE DEF durable, signals, actions, renewal, history

WorkerRec == [life : Life, told : {"no", "execute", "reconcile"}]
SnapRec == [state : States \cup {"none"}, n : 0 .. Confirmations, hard : BOOLEAN]
MonitorRec == [running : BOOLEAN, scheduled : BOOLEAN, advanced : BOOLEAN,
               prev : SnapRec, budget : Nat]
SampleRec == [at : {"idle", "await"}, life : Life]

\* the actions that may be in the queue
Good == {d \in Decisions : d.action \in Actions /\ Justified(d)}

\* The constants, one by one.
LEMMA Constants ==
  /\ HeartbeatGrace \in Nat /\ QuietAfter \in Nat /\ SlowAfter \in Nat
  /\ SuspectAfter \in Nat /\ HardTimeout \in Nat
  /\ Confirmations \in Nat /\ Confirmations >= 1
  /\ Action \in Actions /\ MaxRestarts \in Nat
  /\ MaxSessions \in Nat /\ MaxInvocations \in Nat /\ MaxQueue \in Nat
  BY ProfileAssumption, BoundAssumption

-----------------------------------------------------------------------------
(* The evaluation of a probe. *)

\* A negative probe is a snapshot, stalled exactly with all confirmations.
LEMMA NegativeIs ==
  ASSUME NEW k \in Nat, k >= 1
  PROVE  /\ Negative(k) \in SnapRec
         /\ Negative(k).state \in Actionable
         /\ Negative(k).hard = HardTimeoutExceeded
         /\ Negative(k).state = "stalled" <=> k >= Confirmations
         /\ Negative(k).state = "stalled" => Negative(k).n = Confirmations
         /\ Negative(k).n <= k
  <1>1. PICK s, c, h : /\ s = IF k >= Confirmations THEN "stalled" ELSE "suspect"
                       /\ c = Cap(k, Confirmations)
                       /\ h = HardTimeoutExceeded
    OBVIOUS
  <1>2. c \in 0 .. Confirmations /\ c <= k /\ (k >= Confirmations => c = Confirmations)
    BY <1>1, Constants DEF Cap
  <1>3. Negative(k) = [state |-> s, n |-> c, hard |-> h]
    BY <1>1 DEF Negative
  <1>4. /\ s \in {"stalled", "suspect"} /\ (s = "stalled" <=> k >= Confirmations)
        /\ h \in BOOLEAN
    BY <1>1 DEF HardTimeoutExceeded
  <1>5. Negative(k) \in SnapRec
    BY <1>2, <1>3, <1>4 DEF SnapRec, States
  <1>. QED
    BY <1>1, <1>2, <1>3, <1>4, <1>5 DEF Actionable

\* What is known of the verdict on a snapshot.
LEMMA VerdictIs ==
  ASSUME NEW prev \in SnapRec, NEW hp \in 0 .. Confirmations,
         prev.state = "stalled" => prev.n = Confirmations,
         prev.hard /\ prev.state # "stalled" => prev.n <= hp
  PROVE  LET v == Verdict(prev) IN
         /\ v \in SnapRec /\ v.state \in States \ {"recovered"}
         /\ v.state = "stalled" => v.n = Confirmations
         /\ v.state = "suspect" => prev.state # "stalled"
         /\ v.hard => v.state \in Actionable /\ HardTimeoutExceeded
         /\ v.hard /\ v.state # "stalled" => v.n <= hp + 1
         /\ v.hard /\ v.state = "stalled" /\ prev.state # "stalled" =>
              hp + 1 >= Confirmations
  <1>1. prev.n \in Nat /\ prev.hard \in BOOLEAN /\ hp \in Nat
    BY Constants DEF SnapRec
  <1>2. CASE HardTimeoutExceeded
    <2>1. Verdict(prev) = HardVerdict(prev)
      BY <1>2 DEF Verdict
    <2>2. CASE prev.state = "stalled"
      <3>1. PICK v : v = [prev EXCEPT !.hard = TRUE]
        OBVIOUS
      <3>2. v \in SnapRec /\ v.state = prev.state /\ v.n = prev.n /\ v.hard = TRUE
        BY <3>1 DEF SnapRec
      <3>3. Verdict(prev) = v
        BY <2>1, <2>2, <3>1 DEF HardVerdict
      <3>. QED
        BY <1>2, <2>2, <3>2, <3>3 DEF States, Actionable
    <2>3. CASE prev.state # "stalled"
      <3>1. PICK k \in Nat : k = (IF prev.hard THEN prev.n ELSE 0) + 1
        BY <1>1
      <3>2. k >= 1 /\ k <= hp + 1
        BY <1>1, <2>3, <3>1
      <3>3. Verdict(prev) = Negative(k)
        BY <2>1, <2>3, <3>1 DEF HardVerdict
      <3>4. /\ Negative(k) \in SnapRec
            /\ Negative(k).state \in Actionable
            /\ Negative(k).state = "stalled" <=> k >= Confirmations
            /\ Negative(k).state = "stalled" => Negative(k).n = Confirmations
            /\ Negative(k).n <= k
        BY <3>2, NegativeIs
      <3>5. Negative(k).n \in Nat
        BY <3>4, Constants DEF SnapRec
      <3>6. Negative(k).n <= hp + 1
        BY <1>1, <3>2, <3>4, <3>5
      <3>7. k >= Confirmations => hp + 1 >= Confirmations
        BY <1>1, <3>2, Constants
      <3>. QED
        BY <1>2, <2>3, <3>3, <3>4, <3>6, <3>7 DEF States, Actionable
    <2>. QED
      BY <2>2, <2>3
  <1>3. CASE /\ ~HardTimeoutExceeded
             /\ Cardinality(NegativeFamilies) >= 2
             /\ SuspicionWindow
    <2>1. PICK k \in Nat : k = prev.n + 1
      BY <1>1
    <2>2. k >= 1 /\ (prev.state = "stalled" => k >= Confirmations)
      BY <1>1, <2>1, Constants
    <2>3. Verdict(prev) = Negative(k)
      BY <1>3, <2>1 DEF Verdict
    <2>4. /\ Negative(k) \in SnapRec
          /\ Negative(k).state \in Actionable
          /\ Negative(k).hard = HardTimeoutExceeded
          /\ Negative(k).state = "stalled" <=> k >= Confirmations
          /\ Negative(k).state = "stalled" => Negative(k).n = Confirmations
      BY <2>2, NegativeIs
    <2>. QED
      BY <1>3, <2>2, <2>3, <2>4 DEF States, Actionable
  <1>4. CASE /\ ~HardTimeoutExceeded
             /\ ~(Cardinality(NegativeFamilies) >= 2 /\ SuspicionWindow)
    <2>. DEFINE S == CASE age.progress >= SlowAfter \/ age.control > HeartbeatGrace -> "slow"
                       [] age.progress \in QuietAfter .. SlowAfter - 1
                          /\ age.control <= HeartbeatGrace -> "quiet"
                       [] OTHER -> "healthy"
    <2>1. Verdict(prev) = [state |-> S, n |-> 0, hard |-> FALSE]
      BY <1>4 DEF Verdict
    <2>2. S \in {"slow", "quiet", "healthy"}
      OBVIOUS
    <2>. HIDE DEF S
    <2>3. 0 \in 0 .. Confirmations
      BY Constants
    <2>. QED
      BY <2>1, <2>2, <2>3 DEF SnapRec, States, Actionable
  <1>. QED
    BY <1>2, <1>3, <1>4

\* What is known of a classified snapshot: the transition is one the table
\* allows, and the confirmations are counted as Verdict counts them.
LEMMA Classified ==
  ASSUME NEW prev \in SnapRec, NEW hp \in 0 .. Confirmations,
         prev.state = "stalled" => prev.n = Confirmations,
         prev.hard /\ prev.state # "stalled" => prev.n <= hp
  PROVE  LET v == classifyState(prev) IN
         /\ v \in SnapRec /\ v.state \in States
         /\ v.state = "stalled" => v.n = Confirmations
         /\ v.state = "suspect" => prev.state # "stalled"
         /\ v.state = "recovered" => prev.state \in {"suspect", "stalled", "slow"}
         /\ prev.state \in Actionable => v.state \in Actionable \cup {"recovered"}
         /\ v.hard => v.state \in Actionable /\ HardTimeoutExceeded
         /\ v.hard /\ v.state # "stalled" => v.n <= hp + 1
         /\ v.hard /\ v.state = "stalled" /\ prev.state # "stalled" =>
              hp + 1 >= Confirmations
  <1>1. PICK v : v = Verdict(prev)
    OBVIOUS
  <1>2. /\ v \in SnapRec /\ v.state \in States \ {"recovered"}
        /\ v.state = "stalled" => v.n = Confirmations
        /\ v.state = "suspect" => prev.state # "stalled"
        /\ v.hard => v.state \in Actionable /\ HardTimeoutExceeded
        /\ v.hard /\ v.state # "stalled" => v.n <= hp + 1
        /\ v.hard /\ v.state = "stalled" /\ prev.state # "stalled" =>
             hp + 1 >= Confirmations
    BY <1>1, VerdictIs
  <1>3. PICK r : r = [v EXCEPT !.state = "recovered", !.n = 0]
    OBVIOUS
  <1>4. r \in SnapRec /\ r.state = "recovered" /\ r.hard = v.hard
    <2>1. 0 \in 0 .. Confirmations /\ "recovered" \in States
      BY Constants DEF States
    <2>. QED
      BY <1>2, <1>3, <2>1 DEF SnapRec
  <1>5. PICK s : s = [v EXCEPT !.state = prev.state, !.n = prev.n]
    OBVIOUS
  <1>6. /\ s \in SnapRec /\ s.state = prev.state /\ s.hard = v.hard
        /\ s.n = prev.n
    BY <1>2, <1>5 DEF SnapRec
  <1>7. classifyState(prev) =
          IF prev.state \in Actionable /\ v.state \notin Actionable
          THEN IF Cardinality(PositiveSignals) >= 2 THEN r ELSE s
          ELSE IF /\ prev.state = "slow" /\ v.state \in {"healthy", "quiet"}
                  /\ Cardinality(PositiveSignals) >= 2
               THEN r ELSE v
    BY <1>1, <1>3, <1>5 DEF classifyState
  <1>8. v.state \notin Actionable => ~v.hard
    BY <1>2
  <1>9. CASE prev.state \in Actionable /\ v.state \notin Actionable
    BY <1>2, <1>4, <1>6, <1>7, <1>8, <1>9 DEF Actionable, States
  <1>10. CASE /\ ~(prev.state \in Actionable /\ v.state \notin Actionable)
              /\ prev.state = "slow" /\ v.state \in {"healthy", "quiet"}
              /\ Cardinality(PositiveSignals) >= 2
    BY <1>2, <1>4, <1>7, <1>8, <1>10 DEF Actionable, States
  <1>11. CASE /\ ~(prev.state \in Actionable /\ v.state \notin Actionable)
              /\ ~(/\ prev.state = "slow" /\ v.state \in {"healthy", "quiet"}
                   /\ Cardinality(PositiveSignals) >= 2)
    BY <1>2, <1>7, <1>11 DEF Actionable, States
  <1>. QED
    BY <1>9, <1>10, <1>11

\* A restart is decided only within the budget, a hard-timeout action only on
\* entering stalled with the deadline exceeded.
LEMMA Decided ==
  ASSUME NEW prev \in SnapRec, NEW snap \in SnapRec, NEW used \in Nat
  PROVE  LET d == recoveryDecision(prev, snap, used) IN
         /\ d \in Decisions /\ used <= d.budget
         /\ d.action = "restart-attempt" =>
              d.budget = used + 1 /\ d.budget <= MaxRestarts
         /\ d.cause = "hard-timeout" =>
              snap.state = "stalled" /\ prev.state # "stalled" /\ snap.hard
  <1>. DEFINE d == recoveryDecision(prev, snap, used)
              exhausted == Action = "restart-attempt" /\ used >= MaxRestarts
              entered == snap.state # prev.state
  <1>1. CASE entered /\ snap.state = "suspect"
    <2>1. d = [action |-> "notify", cause |-> "suspect", budget |-> used]
      BY <1>1 DEF recoveryDecision
    <2>. QED
      BY <2>1 DEF Decisions, Actions
  <1>2. CASE entered /\ snap.state = "stalled" /\ exhausted
    <2>1. d = [action |-> "stop-run", cause |-> "restart-budget-exhausted",
               budget |-> used]
      BY <1>2 DEF recoveryDecision
    <2>. QED
      BY <2>1 DEF Decisions, Actions
  <1>3. CASE entered /\ snap.state = "stalled" /\ ~exhausted
    <2>1. PICK c, b : /\ c = IF snap.hard THEN "hard-timeout" ELSE "stalled"
                      /\ b = IF Action = "restart-attempt" THEN used + 1 ELSE used
      OBVIOUS
    <2>2. d = [action |-> Action, cause |-> c, budget |-> b]
      BY <1>3, <2>1 DEF recoveryDecision
    <2>3. /\ b \in Nat /\ used <= b
          /\ Action = "restart-attempt" => b = used + 1 /\ b <= MaxRestarts
      BY <1>3, <2>1, Constants
    <2>4. c \in {"hard-timeout", "stalled"} /\ (c = "hard-timeout" => snap.hard)
      BY <2>1
    <2>5. d \in Decisions
      BY <2>2, <2>3, <2>4, Constants DEF Decisions
    <2>. QED
      BY <1>3, <2>2, <2>3, <2>4, <2>5
  <1>4. CASE ~(entered /\ snap.state \in {"suspect", "stalled"})
    <2>1. d = [None EXCEPT !.budget = used]
      BY <1>4 DEF recoveryDecision
    <2>2. d = [action |-> "none", cause |-> "none", budget |-> used]
      BY <2>1 DEF None
    <2>. QED
      BY <2>2 DEF Decisions
  <1>. QED
    BY <1>1, <1>2, <1>3, <1>4

-----------------------------------------------------------------------------
(* The monitor, the queue and the workers. *)

\* An aborted monitor keeps its snapshot.
LEMMA AbortedIs ==
  ASSUME NEW m \in MonitorRec
  PROVE  /\ AbortedMonitor(m) \in MonitorRec
         /\ AbortedMonitor(m).running = FALSE
         /\ AbortedMonitor(m).prev = m.prev
         /\ AbortedMonitor(m).budget = m.budget
  BY DEF AbortedMonitor, MonitorRec

\* A stopped monitor has none.
LEMMA StoppedIs ==
  /\ StoppedMonitor \in MonitorRec /\ StoppedMonitor.running = FALSE
  /\ StoppedMonitor.prev = NoSnapshot /\ StoppedMonitor.budget = 0
  /\ NoSnapshot.state = "none" /\ NoSnapshot.hard = FALSE
  <1>1. NoSnapshot \in SnapRec
    BY Constants DEF NoSnapshot, SnapRec
  <1>. QED
    BY <1>1 DEF StoppedMonitor, MonitorRec, NoSnapshot

\* A monitor that has probed.
LEMMA ProbedIs ==
  ASSUME monitor \in MonitorRec, NEW r \in BOOLEAN, NEW s \in SnapRec,
         NEW b \in Nat, s = Snapshot, b = Decision.budget
  PROVE  /\ Probed(r) \in MonitorRec
         /\ Probed(r).running = monitor.running
         /\ Probed(r).prev = s /\ Probed(r).budget = b
  <1>1. Probed(r) = [monitor EXCEPT !.prev = s, !.budget = b, !.scheduled = r,
                                    !.advanced = FALSE]
    BY DEF Probed
  <1>. QED
    BY <1>1 DEF MonitorRec

\* The queue of actions, as one set of sequences.
LEMMA QueueIsGood ==
  ASSUME Inv PROVE queue \in Seq(Good)
  <1>1. /\ queue \in Seq(Decisions)
        /\ \A i \in DOMAIN queue : queue[i].action \in Actions /\ Justified(queue[i])
    BY DEF Inv, TypeOK, DecisionInv
  <1>2. \A i \in 1 .. Len(queue) : queue[i] \in Good
    BY <1>1 DEF Good
  <1>. QED
    BY <1>1, <1>2

\* A set of justified actions stays one while the restarts on record do not
\* change and the probes that saw the hard timeout only grow.
LEMMA GoodGrows ==
  ASSUME UNCHANGED restarts, hardProbes = Confirmations => hardProbes' = Confirmations
  PROVE  Good \subseteq Good'
  BY DEF Good, Justified

\* A step of the queue.
LEMMA QueueMoves ==
  ASSUME NEW S, NEW q \in Seq(S)
  PROVE  /\ q # <<>> => Head(q) \in S /\ Tail(q) \in Seq(S)
                        /\ Len(Tail(q)) = Len(q) - 1 /\ Len(q) >= 1
         /\ Len(q) \in Nat /\ q \o <<>> = q
         /\ \A d \in S : /\ q \o <<d>> \in Seq(S) /\ Len(q \o <<d>>) = Len(q) + 1
                         /\ q \o <<d>> # <<>>
         /\ \A T : S \subseteq T => q \in Seq(T)
  <1>1. Len(q) \in Nat /\ q \o <<>> = q
    OBVIOUS
  <1>2. q # <<>> => Head(q) \in S /\ Tail(q) \in Seq(S)
                    /\ Len(Tail(q)) = Len(q) - 1 /\ Len(q) >= 1
    OBVIOUS
  <1>3. ASSUME NEW d \in S
        PROVE  /\ q \o <<d>> \in Seq(S) /\ Len(q \o <<d>>) = Len(q) + 1
               /\ q \o <<d>> # <<>>
    OBVIOUS
  <1>4. ASSUME NEW T, S \subseteq T PROVE q \in Seq(T)
    BY <1>4
  <1>. QED
    BY <1>1, <1>2, <1>3, <1>4

\* A queue of justified actions is what the invariant asks of it.
LEMMA GoodQueue ==
  ASSUME queue \in Seq(Good)
  PROVE  /\ queue \in Seq(Decisions)
         /\ \A i \in DOMAIN queue : queue[i].action \in Actions /\ Justified(queue[i])
  <1>1. \A i \in 1 .. Len(queue) : queue[i] \in Good
    OBVIOUS
  <1>2. queue \in Seq(Decisions)
    BY DEF Good
  <1>. QED
    BY <1>1, <1>2 DEF Good

\* A worker changes its life.
LEMMA LifeSet ==
  ASSUME worker \in [Sessions -> WorkerRec], NEW w \in Sessions, NEW l \in Life,
         worker' = [worker EXCEPT ![w].life = l]
  PROVE  /\ worker' \in [Sessions -> WorkerRec]
         /\ worker'[w].life = l /\ worker'[w].told = worker[w].told
         /\ \A x \in Sessions \ {w} : worker'[x] = worker[x]
  <1>1. worker' \in [Sessions -> WorkerRec]
    BY DEF WorkerRec
  <1>2. worker'[w].life = l /\ worker'[w].told = worker[w].told
    BY DEF WorkerRec
  <1>. QED
    BY <1>1, <1>2

\* It is given a request.
LEMMA ToldSet ==
  ASSUME worker \in [Sessions -> WorkerRec], NEW w \in Sessions,
         NEW r \in {"no", "execute", "reconcile"},
         worker' = [worker EXCEPT ![w].told = r]
  PROVE  /\ worker' \in [Sessions -> WorkerRec]
         /\ \A x \in Sessions \ {w} : worker'[x] = worker[x]
  <1>1. worker' \in [Sessions -> WorkerRec]
    BY DEF WorkerRec
  <1>. QED
    BY <1>1

\* It dies.
LEMMA DeadSet ==
  ASSUME worker \in [Sessions -> WorkerRec], NEW w,
         worker' = [worker EXCEPT ![w] = Dead]
  PROVE  /\ worker' \in [Sessions -> WorkerRec]
         /\ w \in Sessions => worker'[w] = Dead
         /\ \A x \in Sessions \ {w} : worker'[x] = worker[x]
         /\ w \notin Coordinators' /\ Coordinators' \subseteq Coordinators
         /\ \A x \in Sessions : worker[x].told = "no" => worker'[x].told = "no"
  <1>1. Dead \in WorkerRec /\ Dead.life = "dead" /\ Dead.told = "no"
    BY DEF Dead, WorkerRec, Life
  <1>2. /\ worker' \in [Sessions -> WorkerRec]
        /\ w \in Sessions => worker'[w] = Dead
        /\ \A x \in Sessions \ {w} : worker'[x] = worker[x]
    BY <1>1
  <1>3. \A x \in Sessions : worker'[x] = worker[x] \/ (x = w /\ worker'[x] = Dead)
    BY <1>2
  <1>. QED
    BY <1>1, <1>2, <1>3 DEF Coordinators, Living

\* The termination of the worker of a session, confirmed or not.
LEMMA Killed ==
  ASSUME worker \in [Sessions -> WorkerRec], unkilled \in BOOLEAN,
         Terminated \/ TerminationFails
  PROVE  /\ worker' \in [Sessions -> WorkerRec] /\ unkilled' \in BOOLEAN
         /\ Coordinators' \subseteq Coordinators
         /\ unkilled => unkilled'
         /\ sid \in Coordinators' => unkilled'
         /\ \A x \in Sessions : worker[x].told = "no" => worker'[x].told = "no"
  <1>1. CASE Terminated
    BY <1>1, DeadSet DEF Terminated
  <1>2. CASE TerminationFails
    BY <1>2 DEF TerminationFails, Coordinators, Living
  <1>. QED
    BY <1>1, <1>2

-----------------------------------------------------------------------------
(* How the parts of the invariant are kept. *)

AgeOK == DOMAIN age = DOMAIN AgeCap /\ \A a \in DOMAIN age : age[a] \in 0 .. AgeCap[a]

\* what TypeOK says of the other variables
Plain ==
  /\ lease \in [holder : 0 .. MaxSessions, live : BOOLEAN]
  /\ run \in {"open", "completed"}
  /\ link \in {"reserved", "active", "interrupted", "passed"}
  /\ restarts \in Nat /\ restarted \in Nat
  /\ sid \in 0 .. MaxSessions /\ inv \in 0 .. MaxInvocations
  /\ pc \in {"idle", "open", "first", "lease", "run", "ended", "close"}
  /\ budget \in Nat /\ gone \in BOOLEAN
  /\ Len(queue) <= MaxQueue + 1 /\ \A i \in DOMAIN queue : queue[i].action \in Actions
  /\ handler \in {"idle", "sample", "flush", "stop"}
  /\ accepted.action \in Actions \cup {"none"}
  /\ fatal \subseteq {"callback", "renewal"}
  /\ renewalFailed \in BOOLEAN /\ leaseStop \in BOOLEAN
  /\ outcome \in {"none", "settled", "error"}
  /\ hardProbes \in 0 .. Confirmations /\ unkilled \in BOOLEAN

\* The types of the next state.
LEMMA TypeNext ==
  ASSUME Plain', worker' \in [Sessions -> WorkerRec], monitor' \in MonitorRec,
         sample' \in [Samplers -> SampleRec], AgeOK'
  PROVE  TypeOK'
  <1>1. /\ DOMAIN age' = DOMAIN AgeCap /\ \A a \in DOMAIN age' : age'[a] \in 0 .. AgeCap[a]
    BY DEF AgeOK, AgeCap
  <1>. QED
    BY <1>1 DEF Plain, TypeOK, WorkerRec, MonitorRec, SnapRec, SampleRec, AgeCap

\* The types, by their names here.
LEMMA Types ==
  ASSUME Inv
  PROVE  /\ worker \in [Sessions -> WorkerRec] /\ unkilled \in BOOLEAN
         /\ monitor \in MonitorRec /\ sample \in [Samplers -> SampleRec]
         /\ AgeOK /\ hardProbes \in 0 .. Confirmations
         /\ lease \in [holder : 0 .. MaxSessions, live : BOOLEAN]
         /\ monitor.prev \in SnapRec /\ monitor.budget \in Nat
         /\ restarts \in Nat /\ restarted \in Nat /\ budget \in Nat
         /\ sid \in 0 .. MaxSessions /\ Plain
  BY DEF Inv, TypeOK, WorkerRec, MonitorRec, SnapRec, SampleRec, AgeOK, Plain

\* The markers of a session that has just begun.
LEMMA AgesFresh ==
  ASSUME age' = FreshAges PROVE AgeOK'
  <1>1. DOMAIN FreshAges = DOMAIN AgeCap
    BY DEF FreshAges, AgeCap
  <1>2. \A a \in DOMAIN FreshAges : FreshAges[a] \in 0 .. AgeCap[a]
    BY Constants DEF FreshAges, AgeCap
  <1>3. AgeCap' = AgeCap
    BY DEF AgeCap
  <1>. QED
    BY <1>1, <1>2, <1>3 DEF AgeOK

\* A signal renews a marker.
LEMMA AgesRenewed ==
  ASSUME AgeOK, DOMAIN age' = DOMAIN age, \A a \in DOMAIN age : age'[a] \in {0, age[a]}
  PROVE  AgeOK'
  <1>1. AgeCap' = AgeCap
    BY DEF AgeCap
  <1>2. \A a \in DOMAIN AgeCap : AgeCap[a] \in Nat
    BY Constants DEF AgeCap
  <1>3. ASSUME NEW a \in DOMAIN AgeCap PROVE age'[a] \in 0 .. AgeCap[a]
    <2>1. AgeCap[a] \in Nat /\ age[a] \in 0 .. AgeCap[a] /\ age'[a] \in {0, age[a]}
      BY <1>2 DEF AgeOK
    <2>. QED
      BY <2>1
  <1>. QED
    BY <1>1, <1>3 DEF AgeOK

\* The actions delivered stay justified.
LEMMA DecisionsKept ==
  ASSUME Inv, UNCHANGED restarts,
         hardProbes = Confirmations => hardProbes' = Confirmations,
         queue' \in Seq(Good'), accepted' \in {accepted, None} \cup Good'
  PROVE  /\ DecisionInv' /\ \A i \in DOMAIN queue' : queue'[i].action \in Actions
         /\ accepted'.action \in Actions \cup {"none"}
  <1>1. /\ queue' \in Seq(Decisions)
        /\ (\A i \in DOMAIN queue : queue[i].action \in Actions /\ Justified(queue[i]))'
    <2>1. \A i \in 1 .. Len(queue') : queue'[i] \in Good'
      OBVIOUS
    <2>2. queue' \in Seq(Decisions)
      <3>1. Good' \subseteq Decisions
        BY DEF Good, Decisions
      <3>. QED
        BY <3>1
    <2>3. DOMAIN queue' = 1 .. Len(queue')
      OBVIOUS
    <2>. QED
      BY <2>1, <2>2, <2>3 DEF Good, Justified
  <1>2. None \in Decisions /\ None.action = "none" /\ None.cause = "none"
    BY DEF None, Decisions
  <1>3. accepted \in Decisions /\ Justified(accepted)
    BY DEF Inv, DecisionInv
  <1>4. accepted' \in Decisions /\ Justified(accepted)'
    <2>1. CASE accepted' = accepted
      BY <1>3, <2>1 DEF Justified
    <2>2. CASE accepted' = None
      BY <1>2, <2>2 DEF Justified
    <2>3. CASE accepted' \in Good'
      BY <2>3 DEF Good, Justified
    <2>. QED
      BY <2>1, <2>2, <2>3
  <1>. QED
    BY <1>1, <1>4 DEF DecisionInv, Decisions

\* In most steps neither they nor what justifies them changes.
LEMMA DecisionsSame ==
  ASSUME Inv, UNCHANGED <<restarts, hardProbes, accepted>>,
         queue' = queue \/ (queue # <<>> /\ queue' = Tail(queue))
  PROVE  /\ DecisionInv' /\ \A i \in DOMAIN queue' : queue'[i].action \in Actions
         /\ accepted'.action \in Actions \cup {"none"}
         /\ Len(queue') <= Len(queue) /\ Len(queue') <= MaxQueue + 1
  <1>1. queue \in Seq(Good) /\ Len(queue) <= MaxQueue + 1
    BY QueueIsGood DEF Inv, TypeOK
  <1>2. Good \subseteq Good'
    BY GoodGrows
  <1>3. /\ queue' \in Seq(Good) /\ Len(queue') \in Nat /\ Len(queue) \in Nat
        /\ Len(queue') <= Len(queue)
    BY <1>1, QueueMoves
  <1>4. queue' \in Seq(Good')
    BY <1>2, <1>3, QueueMoves
  <1>5. /\ DecisionInv' /\ \A i \in DOMAIN queue' : queue'[i].action \in Actions
        /\ accepted'.action \in Actions \cup {"none"}
    BY <1>4, DecisionsKept
  <1>6. Len(queue') <= MaxQueue + 1
    BY <1>1, <1>3, Constants
  <1>. QED
    BY <1>3, <1>5, <1>6

\* The last probe is unchanged or forgotten.
LEMMA ProbeKept ==
  ASSUME Inv, UNCHANGED hardProbes,
         monitor'.prev = monitor.prev \/ monitor'.prev = NoSnapshot
  PROVE  ProbeInv'
  BY StoppedIs DEF Inv, ProbeInv

\* The budgets stay as they were.
LEMMA BudgetKept ==
  ASSUME Inv, UNCHANGED <<restarts, restarted, budget>>,
         pc' = "open" => pc = "open", pc' = "first" => pc = "first",
         monitor'.running => (monitor.running \/ pc = "first"),
         monitor'.budget = monitor.budget \/ (pc' # "first" /\ ~monitor'.running)
  PROVE  BudgetInv'
  BY DEF Inv, BudgetInv

\* The owner of the lease stays, and nobody begins to coordinate.
LEMMA LeaseKept ==
  ASSUME Inv, UNCHANGED <<sid, link>>, lease'.holder = lease.holder,
         Coordinators' \subseteq Coordinators, unkilled => unkilled',
         \/ pc' = pc \/ pc' \in {"idle", "ended", "close"}
         \/ pc' # "run" /\ pc \notin {"idle", "ended", "close"}
  PROVE  LeaseInv'
  <1>1. ASSUME NEW w \in Coordinators'
        PROVE  \/ w = lease'.holder
               \/ /\ w = sid' /\ lease'.holder = 0 /\ unkilled'
                  /\ pc' \in {"ended", "close", "idle"}
    BY <1>1 DEF Inv, LeaseInv
  <1>2. pc' = "run" => lease'.holder = sid'
    BY DEF Inv, LeaseInv
  <1>3. link' = "passed" => Coordinators' = {} /\ pc' \in {"ended", "close", "idle"}
    BY DEF Inv, LeaseInv
  <1>. QED
    BY <1>1, <1>2, <1>3 DEF LeaseInv

\* Nobody coordinates anew when the workers stay.
LEMMA SameWorkers ==
  ASSUME UNCHANGED worker PROVE Coordinators' = Coordinators
  BY DEF Coordinators, Living

\* The session and its queue go on.
LEMMA SessionKept ==
  ASSUME Inv, UNCHANGED sid,
         \A x \in Sessions : worker[x].told = "no" => worker'[x].told = "no",
         pc' = pc \/ (pc \notin {"idle", "open"} /\ pc' \notin {"idle", "open", "first"}),
         monitor'.running => monitor.running,
         pc' = "first" => queue' = queue, Len(queue') <= Len(queue) \/ ~monitor'.running,
         pc' \in {"idle", "open"} => queue' = queue,
         Len(queue') \in Nat, Len(queue) \in Nat,
         handler' # "idle" => queue' # <<>>,
         sample'["action"].at = "await" => handler' = "sample"
  PROVE  SessionInv'
  <1>1. pc' \notin {"idle", "open"} => sid' \in Sessions
    BY DEF Inv, SessionInv
  <1>2. \A w \in Sessions : w > sid' => worker'[w].told = "no"
    BY DEF Inv, SessionInv
  <1>3. pc' \in {"idle", "open", "first"} => queue' = <<>> /\ ~monitor'.running
    BY DEF Inv, SessionInv
  <1>4. monitor'.running => Len(queue') <= MaxQueue
    <2>1. monitor'.running => Len(queue) <= MaxQueue
      BY DEF Inv, SessionInv
    <2>. QED
      BY <2>1, Constants
  <1>. QED
    BY <1>1, <1>2, <1>3, <1>4 DEF SessionInv

-----------------------------------------------------------------------------
(* The actions. *)

\* Nothing was opened yet.
LEMMA InitInv == ASSUME Init PROVE Inv
  <1>1. worker \in [Sessions -> WorkerRec] /\ \A w \in Sessions : worker[w].told = "no"
    <2>1. [life |-> "unborn", told |-> "no"] \in WorkerRec
      BY DEF WorkerRec, Life
    <2>. QED
      BY <2>1 DEF Init
  <1>2. /\ monitor \in MonitorRec /\ ~monitor.running
        /\ monitor.prev.state = "none" /\ monitor.prev.hard = FALSE
    BY StoppedIs DEF Init
  <1>3. sample \in [Samplers -> SampleRec] /\ sample["action"].at = "idle"
    BY DEF Init, IdleSamplers, Samplers, SampleRec, Life
  <1>4. AgeOK
    <2>1. DOMAIN FreshAges = DOMAIN AgeCap
      BY DEF FreshAges, AgeCap
    <2>2. \A a \in DOMAIN FreshAges : FreshAges[a] \in 0 .. AgeCap[a]
      BY Constants DEF FreshAges, AgeCap
    <2>. QED
      BY <2>1, <2>2 DEF Init, AgeOK
  <1>5. /\ None \in Decisions /\ None.action = "none" /\ None.cause = "none"
        /\ accepted = None /\ queue = <<>>
    BY DEF None, Decisions, Init
  <1>6. lease \in [holder : 0 .. MaxSessions, live : BOOLEAN]
    BY Constants DEF Init
  <1>7. TypeOK
    <2>1. /\ sid \in 0 .. MaxSessions /\ inv \in 0 .. MaxInvocations
          /\ hardProbes \in 0 .. Confirmations /\ Len(queue) <= MaxQueue + 1
      BY <1>5, Constants DEF Init
    <2>2. /\ run \in {"open", "completed"} /\ link \in {"reserved", "active", "interrupted", "passed"}
          /\ restarts \in Nat /\ restarted \in Nat /\ budget \in Nat
          /\ pc \in {"idle", "open", "first", "lease", "run", "ended", "close"}
          /\ gone \in BOOLEAN /\ handler \in {"idle", "sample", "flush", "stop"}
          /\ fatal \subseteq {"callback", "renewal"} /\ unkilled \in BOOLEAN
          /\ renewalFailed \in BOOLEAN /\ leaseStop \in BOOLEAN
          /\ outcome \in {"none", "settled", "error"}
      BY DEF Init
    <2>. QED
      BY <1>1, <1>2, <1>3, <1>4, <1>5, <1>6, <2>1, <2>2
         DEF TypeOK, WorkerRec, MonitorRec, SnapRec, SampleRec, AgeOK
  <1>8. DecisionInv
    <2>1. queue \in Seq(Decisions)
      BY <1>5
    <2>. QED
      BY <1>5, <2>1 DEF DecisionInv, Justified
  <1>9. SessionInv /\ ProbeInv
    BY <1>1, <1>2, <1>3 DEF Init, SessionInv, ProbeInv
  <1>10. BudgetInv
    BY <1>2, Constants DEF Init, BudgetInv
  <1>11. LeaseInv
    BY <1>1 DEF Init, LeaseInv, Coordinators
  <1>. QED
    BY <1>7, <1>8, <1>9, <1>10, <1>11 DEF Inv

\* The memory of a session is gone.
LEMMA Forgotten ==
  ASSUME Forget
  PROVE  /\ AgeOK' /\ gone' \in BOOLEAN
         /\ sample' \in [Samplers -> SampleRec] /\ sample'["action"].at = "idle"
         /\ monitor' \in MonitorRec /\ ~monitor'.running
         /\ monitor'.prev.state = "none" /\ monitor'.prev.hard = FALSE
         /\ queue' = <<>> /\ queue' \in Seq(Decisions) /\ Len(queue') = 0
         /\ handler' = "idle" /\ accepted' = None /\ None \in Decisions
         /\ Justified(None)' /\ None.action = "none"
         /\ fatal' = {} /\ renewalFailed' = FALSE /\ leaseStop' = FALSE
         /\ outcome' = "none" /\ hardProbes' = 0 /\ 0 \in 0 .. Confirmations
  <1>1. AgeOK'
    BY AgesFresh DEF Forget
  <1>2. sample' \in [Samplers -> SampleRec] /\ sample'["action"].at = "idle"
    BY DEF Forget, IdleSamplers, Samplers, SampleRec, Life
  <1>3. /\ monitor' \in MonitorRec /\ ~monitor'.running
        /\ monitor'.prev.state = "none" /\ monitor'.prev.hard = FALSE
    BY StoppedIs DEF Forget
  <1>4. queue' = <<>> /\ queue' \in Seq(Decisions) /\ Len(queue') = 0
    BY DEF Forget
  <1>5. None \in Decisions /\ Justified(None)' /\ None.action = "none"
    BY DEF None, Decisions, Justified
  <1>. QED
    <2>1. /\ gone' = FALSE /\ handler' = "idle" /\ accepted' = None /\ fatal' = {}
          /\ renewalFailed' = FALSE /\ leaseStop' = FALSE
          /\ outcome' = "none" /\ hardProbes' = 0
      BY DEF Forget
    <2>2. 0 \in 0 .. Confirmations
      BY Constants
    <2>. QED
      BY <1>1, <1>2, <1>3, <1>4, <1>5, <2>1, <2>2

\* A session ends, and its memory with it.
LEMMA SessionEnds ==
  ASSUME Inv, Forget, pc' \in {"idle", "open"}, budget' \in Nat,
         UNCHANGED <<lease, run, link, sid, inv>>,
         worker' \in [Sessions -> WorkerRec], unkilled' \in BOOLEAN,
         \A x \in Sessions : worker[x].told = "no" => worker'[x].told = "no",
         Coordinators' \subseteq Coordinators, unkilled => unkilled',
         restarts' \in Nat, restarted' \in Nat,
         restarted' <= restarts', restarts' <= MaxRestarts,
         pc' = "open" => restarts' <= budget' /\ link # "passed"
                         /\ sid \notin Coordinators'
  PROVE  Inv'
  <1>1. /\ AgeOK' /\ gone' \in BOOLEAN
        /\ sample' \in [Samplers -> SampleRec] /\ sample'["action"].at = "idle"
        /\ monitor' \in MonitorRec /\ ~monitor'.running
        /\ monitor'.prev.state = "none" /\ monitor'.prev.hard = FALSE
        /\ queue' = <<>> /\ queue' \in Seq(Decisions) /\ Len(queue') = 0
        /\ handler' = "idle" /\ accepted' = None /\ None \in Decisions
        /\ Justified(None)' /\ None.action = "none"
        /\ fatal' = {} /\ renewalFailed' = FALSE /\ leaseStop' = FALSE
        /\ outcome' = "none" /\ hardProbes' = 0 /\ 0 \in 0 .. Confirmations
    BY Forgotten
  <1>2. TypeOK'
    <2>1. Len(queue') <= MaxQueue + 1 /\ \A i \in DOMAIN queue' : FALSE
      BY <1>1, Constants
    <2>2. /\ pc' \in {"idle", "open", "first", "lease", "run", "ended", "close"}
          /\ handler' \in {"idle", "sample", "flush", "stop"}
          /\ accepted'.action \in Actions \cup {"none"}
          /\ fatal' \subseteq {"callback", "renewal"}
          /\ renewalFailed' \in BOOLEAN /\ leaseStop' \in BOOLEAN
          /\ outcome' \in {"none", "settled", "error"}
          /\ hardProbes' \in 0 .. Confirmations
      BY <1>1
    <2>3. /\ lease' \in [holder : 0 .. MaxSessions, live : BOOLEAN]
          /\ run' \in {"open", "completed"}
          /\ link' \in {"reserved", "active", "interrupted", "passed"}
          /\ sid' \in 0 .. MaxSessions /\ inv' \in 0 .. MaxInvocations
      BY DEF Inv, TypeOK
    <2>4. /\ DOMAIN age' = DOMAIN AgeCap /\ \A a \in DOMAIN age' : age'[a] \in 0 .. AgeCap[a]
      BY <1>1 DEF AgeOK, AgeCap
    <2>. QED
      BY <1>1, <2>1, <2>2, <2>3, <2>4
         DEF TypeOK, WorkerRec, MonitorRec, SnapRec, SampleRec, AgeCap
  <1>3. DecisionInv'
    BY <1>1 DEF DecisionInv
  <1>4. SessionInv'
    BY <1>1 DEF Inv, SessionInv
  <1>5. ProbeInv'
    BY <1>1 DEF ProbeInv
  <1>6. BudgetInv'
    BY <1>1 DEF BudgetInv
  <1>7. LeaseInv'
    <2>1. CASE pc' = "idle"
      BY <2>1, LeaseKept
    <2>2. CASE pc' = "open"
      BY <2>2 DEF Inv, LeaseInv
    <2>. QED
      BY <2>1, <2>2
  <1>. QED
    BY <1>2, <1>3, <1>4, <1>5, <1>6, <1>7 DEF Inv

\* The parent command is invoked: the budget comes from the ledger.
LEMMA InvokeStep == ASSUME Inv, Invoke PROVE Inv'
  <1>1. /\ pc = "idle" /\ pc' = "open" /\ inv < MaxInvocations /\ inv' = inv + 1
        /\ budget' = restarts /\ link # "passed" /\ ~unkilled
        /\ UNCHANGED <<worker, lease, run, link, restarts, restarted, sid, signals,
                       sample, monitor, actions, renewal, outcome, history>>
    BY DEF Invoke, childWatchdogOperationalBudget
  <1>2. TypeOK'
    <2>1. inv \in 0 .. MaxInvocations /\ restarts \in Nat
      BY DEF Inv, TypeOK
    <2>2. inv' \in 0 .. MaxInvocations
      BY <1>1, <2>1, Constants
    <2>. QED
      BY <1>1, <2>1, <2>2 DEF Inv, TypeOK, AgeCap
  <1>3. DecisionInv'
    BY <1>1, DecisionsSame
  <1>4. SessionInv'
    BY <1>1 DEF Inv, SessionInv
  <1>5. ProbeInv'
    BY <1>1, ProbeKept
  <1>6. BudgetInv'
    <2>1. restarts \in Nat /\ ~monitor.running
      BY <1>1 DEF Inv, TypeOK, SessionInv
    <2>. QED
      BY <1>1, <2>1 DEF Inv, BudgetInv
  <1>7. LeaseInv'
    BY <1>1, SameWorkers DEF Inv, LeaseInv
  <1>. QED
    BY <1>2, <1>3, <1>4, <1>5, <1>6, <1>7 DEF Inv

\* A session is opened: its worker was not told anything.
LEMMA OpenSessionStep == ASSUME Inv, OpenSession PROVE Inv'
  <1>1. /\ pc = "open" /\ pc' = "first" /\ sid < MaxSessions /\ sid' = sid + 1
        /\ worker' = [worker EXCEPT ![sid + 1].life = "up"]
        /\ monitor' = [monitor EXCEPT !.budget = budget]
        /\ UNCHANGED <<lease, run, link, restarts, restarted, inv, budget, signals,
                       sample, actions, renewal, outcome, history>>
    BY DEF OpenSession
  <1>2. /\ worker \in [Sessions -> WorkerRec] /\ monitor \in MonitorRec
        /\ budget \in Nat /\ sid \in 0 .. MaxSessions
    BY Types
  <1>3. PICK s \in Sessions : s = sid + 1
    BY <1>1, <1>2, Constants DEF Sessions
  <1>4. PICK l \in Life : l = "up"
    BY DEF Life
  <1>5. /\ worker' \in [Sessions -> WorkerRec]
        /\ worker'[s].life = l /\ worker'[s].told = worker[s].told
        /\ \A x \in Sessions \ {s} : worker'[x] = worker[x]
    BY <1>1, <1>2, <1>3, <1>4, LifeSet
  <1>6. /\ monitor' \in MonitorRec /\ monitor'.running = monitor.running
        /\ monitor'.prev = monitor.prev /\ monitor'.budget = budget
    BY <1>1, <1>2 DEF MonitorRec
  <1>7. worker[s].told = "no"
    <2>1. s > sid
      BY <1>2, <1>3
    <2>. QED
      BY <2>1 DEF Inv, SessionInv
  <1>8. Coordinators' \subseteq Coordinators /\ s \notin Coordinators'
    BY <1>5, <1>7 DEF Coordinators, Living
  <1>9. TypeOK'
    <2>1. sid' \in 0 .. MaxSessions
      BY <1>1, <1>2, Constants
    <2>. QED
      <3>1. Plain'
        BY <1>1, <2>1, Types DEF Plain
      <3>2. sample' \in [Samplers -> SampleRec] /\ AgeOK'
        BY <1>1, Types DEF AgeOK, AgeCap
      <3>. QED
        BY <1>5, <1>6, <3>1, <3>2, TypeNext
  <1>10. DecisionInv'
    BY <1>1, DecisionsSame
  <1>11. SessionInv'
    <2>1. \A w \in Sessions : w > sid' => w > sid /\ w # s
      BY <1>1, <1>2, <1>3 DEF Sessions
    <2>2. \A w \in Sessions : w > sid' => worker'[w].told = "no"
      BY <1>5, <2>1 DEF Inv, SessionInv
    <2>3. queue' = <<>> /\ ~monitor'.running
      BY <1>1, <1>6 DEF Inv, SessionInv
    <2>4. sid' \in Sessions
      BY <1>1, <1>3
    <2>. QED
      BY <1>1, <2>2, <2>3, <2>4 DEF Inv, SessionInv
  <1>12. ProbeInv'
    BY <1>1, <1>6, ProbeKept
  <1>13. BudgetInv'
    BY <1>1, <1>6 DEF Inv, BudgetInv
  <1>14. LeaseInv'
    BY <1>1, <1>8 DEF Inv, LeaseInv
  <1>. QED
    BY <1>9, <1>10, <1>11, <1>12, <1>13, <1>14 DEF Inv

\* The session factory fails, or the command dies.
LEMMA CommandEndsStep == ASSUME Inv, OpenFails \/ Crash PROVE Inv'
  <1>1. pc' = "idle" /\ budget' = 0 /\ Forget /\ UNCHANGED <<durable, unkilled>>
    BY DEF OpenFails, Crash, Return
  <1>2. /\ worker \in [Sessions -> WorkerRec] /\ unkilled \in BOOLEAN
        /\ restarts \in Nat /\ restarted \in Nat
        /\ restarted <= restarts /\ restarts <= MaxRestarts
    BY Types DEF Inv, BudgetInv
  <1>. QED
    BY <1>1, <1>2, SameWorkers, SessionEnds

\* A step that moves neither the monitor's verdict nor the records.
LEMMA QuietStep ==
  ASSUME Inv, UNCHANGED <<worker, lease, run, link, restarts, restarted, sid, inv, budget,
                          queue, accepted, history>>,
         TypeOK', monitor'.prev = monitor.prev, monitor'.budget = monitor.budget,
         monitor'.running => monitor.running,
         pc' = pc \/ (pc \notin {"idle", "open"} /\ pc' = "close"),
         handler' # "idle" => queue # <<>>,
         sample'["action"].at = "await" => handler' = "sample"
  PROVE  Inv'
  <1>1. DecisionInv'
    BY DecisionsSame
  <1>2. SessionInv'
    <2>1. Len(queue) \in Nat
      BY QueueIsGood, QueueMoves
    <2>2. Len(queue') <= Len(queue)
      BY <2>1
    <2>. QED
      BY <2>1, <2>2, SessionKept
  <1>3. ProbeInv'
    BY ProbeKept
  <1>4. BudgetInv'
    BY BudgetKept
  <1>5. LeaseInv'
    BY SameWorkers, LeaseKept
  <1>. QED
    BY <1>1, <1>2, <1>3, <1>4, <1>5 DEF Inv

\* A health sampler starts.
LEMMA SampleStarts ==
  ASSUME Inv, NEW s \in Samplers, StartSample(s), sid \in Sessions
  PROVE  /\ sample' \in [Samplers -> SampleRec] /\ AgeOK' /\ gone' = gone
         /\ \A x \in Samplers \ {s} : sample'[x] = sample[x]
  <1>1. /\ sample \in [Samplers -> SampleRec] /\ worker \in [Sessions -> WorkerRec]
        /\ AgeOK
    BY Types
  <1>2. PICK r \in SampleRec : r = [at |-> "await", life |-> worker[sid].life]
    <2>1. worker[sid].life \in Life
      BY <1>1 DEF WorkerRec
    <2>. QED
      BY <2>1 DEF SampleRec
  <1>3. sample' = [sample EXCEPT ![s] = r] /\ gone' = gone
    BY <1>2 DEF StartSample
  <1>4. age' = age \/ age' = [age EXCEPT !.child = 0]
    BY DEF StartSample
  <1>5. DOMAIN age' = DOMAIN age /\ \A a \in DOMAIN age : age'[a] \in {0, age[a]}
    BY <1>4
  <1>6. AgeOK'
    BY <1>1, <1>5, AgesRenewed
  <1>. QED
    BY <1>1, <1>3, <1>6

\* The periodic sampler starts.
LEMMA PeriodicSampleStep == ASSUME Inv, PeriodicSample PROVE Inv'
  <1>1. /\ pc \in {"first", "lease", "run"} /\ StartSample("periodic")
        /\ UNCHANGED <<durable, pc, budget, monitor, actions, renewal, outcome, history>>
    BY DEF PeriodicSample
  <1>2. PICK s \in Samplers : s = "periodic"
    BY DEF Samplers
  <1>3. sid \in Sessions
    BY <1>1 DEF Inv, SessionInv
  <1>4. /\ sample' \in [Samplers -> SampleRec] /\ AgeOK' /\ gone' = gone
        /\ \A x \in Samplers \ {s} : sample'[x] = sample[x]
    BY <1>1, <1>2, <1>3, SampleStarts
  <1>5. TypeOK'
    BY SMTT(30), <1>1, <1>4 DEF Inv, TypeOK, SampleRec, AgeOK, AgeCap
  <1>6. sample'["action"] = sample["action"]
    BY <1>2, <1>4 DEF Samplers
  <1>. QED
    BY <1>1, <1>5, <1>6, QuietStep DEF Inv, SessionInv

\* The handler of the first action samples.
LEMMA HandleActionStep == ASSUME Inv, HandleAction PROVE Inv'
  <1>1. /\ queue # <<>> /\ handler' = "sample" /\ StartSample("action")
        /\ UNCHANGED <<durable, pc, budget, monitor, queue, accepted, fatal, renewal,
                       outcome, history>>
    BY DEF HandleAction
  <1>2. PICK s \in Samplers : s = "action"
    BY DEF Samplers
  <1>3. sid \in Sessions
    BY <1>1 DEF Inv, SessionInv
  <1>4. sample' \in [Samplers -> SampleRec] /\ AgeOK' /\ gone' = gone
    BY <1>1, <1>2, <1>3, SampleStarts
  <1>5. TypeOK'
    BY SMTT(30), <1>1, <1>4 DEF Inv, TypeOK, SampleRec, AgeOK, AgeCap
  <1>. QED
    BY <1>1, <1>5, QuietStep

\* A step that aborts the session: its monitor stops.
LEMMA AbortStep ==
  ASSUME Inv, FailClosed \/ RenewalRefused PROVE Inv'
  <1>1. /\ monitor' = AbortedMonitor(monitor)
        /\ age' = FreshAges /\ gone' = FALSE
        /\ UNCHANGED <<durable, pc, budget, sample, queue, handler, accepted, outcome, history>>
    BY DEF FailClosed, RenewalRefused, DropSignals
  <1>2. /\ monitor' \in MonitorRec /\ monitor'.running = FALSE
        /\ monitor'.prev = monitor.prev /\ monitor'.budget = monitor.budget
    BY <1>1, AbortedIs, Types
  <1>3. AgeOK'
    BY <1>1, AgesFresh
  <1>4. /\ fatal' \subseteq {"callback", "renewal"}
        /\ renewalFailed' \in BOOLEAN /\ leaseStop' \in BOOLEAN
    BY DEF FailClosed, RenewalRefused, Inv, TypeOK
  <1>5. TypeOK'
    <2>1. Plain'
      <3>1. Plain /\ gone' \in BOOLEAN
        BY <1>1, Types
      <3>. QED
        BY <1>1, <1>4, <3>1 DEF Plain
    <2>2. worker' \in [Sessions -> WorkerRec] /\ sample' \in [Samplers -> SampleRec]
      BY <1>1, Types
    <2>. QED
      BY <1>2, <1>3, <2>1, <2>2, TypeNext
  <1>. QED
    BY <1>1, <1>2, <1>5, QuietStep DEF Inv, SessionInv

\* The first sample of a session fails.
LEMMA FirstSampleFailsStep == ASSUME Inv, FirstSampleFails PROVE Inv'
  <1>1. /\ pc = "first" /\ pc' = "close" /\ outcome' = "error"
        /\ sample' = IdleSamplers
        /\ UNCHANGED <<durable, budget, signals, monitor, actions, renewal, history>>
    BY DEF FirstSampleFails
  <1>2. sample' \in [Samplers -> SampleRec] /\ sample'["action"].at = "idle"
    BY <1>1 DEF IdleSamplers, Samplers, SampleRec, Life
  <1>3. TypeOK'
    BY <1>1, <1>2 DEF Inv, TypeOK, SampleRec, AgeCap
  <1>. QED
    BY <1>1, <1>2, <1>3, QuietStep DEF Inv, SessionInv

\* Time passes.
LEMMA TickStep == ASSUME Inv, Tick PROVE Inv'
  <1>1. /\ age' = [a \in DOMAIN age |-> Cap(age[a] + 1, AgeCap[a])]
        /\ monitor' = [monitor EXCEPT !.advanced = TRUE]
        /\ UNCHANGED <<durable, pc, budget, gone, sample, actions, renewal, outcome, history>>
    BY DEF Tick
  <1>2. monitor \in MonitorRec /\ AgeOK
    BY Types
  <1>3. /\ monitor' \in MonitorRec /\ monitor'.running = monitor.running
        /\ monitor'.prev = monitor.prev /\ monitor'.budget = monitor.budget
    BY <1>1, <1>2 DEF MonitorRec
  <1>4. AgeOK'
    <2>1. AgeCap' = AgeCap
      BY DEF AgeCap
    <2>2. \A a \in DOMAIN AgeCap : AgeCap[a] \in Nat
      BY Constants DEF AgeCap
    <2>3. ASSUME NEW a \in DOMAIN AgeCap
          PROVE  Cap(age[a] + 1, AgeCap[a]) \in 0 .. AgeCap[a]
      <3>1. PICK c \in Nat, n \in Nat : c = AgeCap[a] /\ n = age[a]
        BY <1>2, <2>2 DEF AgeOK
      <3>2. (IF n + 1 > c THEN c ELSE n + 1) \in 0 .. c
        OBVIOUS
      <3>. QED
        BY <3>1, <3>2 DEF Cap
    <2>4. DOMAIN age' = DOMAIN AgeCap /\ \A a \in DOMAIN age' : age'[a] \in 0 .. AgeCap[a]
      BY <1>1, <1>2, <2>3 DEF AgeOK
    <2>. QED
      BY <2>1, <2>4 DEF AgeOK
  <1>5. TypeOK'
    <2>1. Plain'
      BY <1>1, Types DEF Plain
    <2>2. worker' \in [Sessions -> WorkerRec] /\ sample' \in [Samplers -> SampleRec]
      BY <1>1, Types
    <2>. QED
      BY <1>3, <1>4, <2>1, <2>2, TypeNext
  <1>. QED
    BY <1>1, <1>3, <1>5, QuietStep DEF Inv, SessionInv

\* A sampler ends, and the first one starts the monitor.
LEMMA AwaitHealthStep ==
  ASSUME Inv, NEW s \in Samplers, AwaitHealth(s) PROVE Inv'
  <1>1. PICK alive \in {"yes", "no", "unknown"}, pong \in BOOLEAN, progressed \in BOOLEAN :
          EndSample(s, alive, pong, progressed)
    BY DEF AwaitHealth
  <1>2. /\ sample' = [sample EXCEPT ![s] = IdleSamplers[s]]
        /\ handler' = IF s = "action" THEN "flush" ELSE handler
        /\ UNCHANGED <<durable, budget, queue, accepted, fatal, renewal, outcome, history>>
    BY <1>1 DEF EndSample
  <1>3. \/ /\ pc = "first" /\ pc' = "lease"
           /\ monitor' = [monitor EXCEPT !.running = TRUE, !.scheduled = TRUE]
        \/ pc # "first" /\ UNCHANGED <<pc, monitor>>
    BY <1>1 DEF EndSample
  <1>4. AgeOK' /\ gone' \in BOOLEAN
    <2>1. AgeOK /\ gone \in BOOLEAN
      BY Types DEF Plain
    <2>2. CASE Aborted
      <3>1. UNCHANGED <<age, gone>>
        BY <1>1, <2>2 DEF EndSample
      <3>. QED
        BY <2>1, <3>1 DEF AgeOK, AgeCap
    <2>3. CASE ~Aborted
      <3>1. /\ age' = [age EXCEPT
                 !.control = IF pong THEN 0 ELSE @,
                 !.health = IF alive = "yes" /\ (pong \/ age.child <= HeartbeatGrace)
                            THEN 0 ELSE @,
                 !.progress = IF progressed THEN 0 ELSE @]
            /\ gone' = (alive = "no")
        BY <1>1, <2>3 DEF EndSample
      <3>2. DOMAIN age' = DOMAIN age /\ \A a \in DOMAIN age : age'[a] \in {0, age[a]}
        BY <3>1
      <3>. QED
        BY <2>1, <3>1, <3>2, AgesRenewed
    <2>. QED
      BY <2>2, <2>3
  <1>5. /\ sample' \in [Samplers -> SampleRec] /\ sample'[s].at = "idle"
        /\ \A x \in Samplers \ {s} : sample'[x] = sample[x]
    <2>1. IdleSamplers[s] \in SampleRec /\ IdleSamplers[s].at = "idle"
      BY DEF IdleSamplers, SampleRec, Life
    <2>. QED
      BY <1>2, <2>1, Types
  <1>6. /\ monitor' \in MonitorRec /\ monitor'.prev = monitor.prev
        /\ monitor'.budget = monitor.budget
        /\ monitor'.running => monitor.running \/ pc = "first"
    <2>1. monitor \in MonitorRec
      BY Types
    <2>2. CASE pc = "first"
      <3>1. monitor' = [monitor EXCEPT !.running = TRUE, !.scheduled = TRUE]
        BY <1>3, <2>2
      <3>. QED
        BY <2>1, <2>2, <3>1 DEF MonitorRec
    <2>3. CASE pc # "first"
      BY <1>3, <2>1, <2>3
    <2>. QED
      BY <2>2, <2>3
  <1>7. /\ sample[s].at = "await"
        /\ sample["action"].at = "await" => handler = "sample"
        /\ handler # "idle" => queue # <<>>
    BY DEF AwaitHealth, Inv, SessionInv
  <1>8. /\ handler' # "idle" => queue # <<>>
        /\ sample'["action"].at = "await" => handler' = "sample"
        /\ handler' \in {"idle", "sample", "flush", "stop"}
    <2>1. handler \in {"idle", "sample", "flush", "stop"}
      BY DEF Inv, TypeOK
    <2>2. CASE s = "action"
      BY <1>2, <1>5, <1>7, <2>2
    <2>3. CASE s # "action"
      <3>1. sample'["action"] = sample["action"]
        BY <1>5, <2>3 DEF Samplers
      <3>. QED
        BY <1>2, <1>7, <2>1, <2>3, <3>1
    <2>. QED
      BY <2>2, <2>3
  <1>9. TypeOK'
    <2>1. Plain /\ worker' \in [Sessions -> WorkerRec]
      BY <1>2, Types
    <2>2. pc' \in {"idle", "open", "first", "lease", "run", "ended", "close"}
      BY <1>3, <2>1 DEF Plain
    <2>3. Plain'
      BY <1>2, <1>4, <1>8, <2>1, <2>2 DEF Plain
    <2>. QED
      BY <1>4, <1>5, <1>6, <2>1, <2>3, TypeNext
  <1>10. DecisionInv'
    BY <1>2, DecisionsSame
  <1>11. SessionInv'
    <2>1. Len(queue) \in Nat
      BY QueueIsGood, QueueMoves
    <2>2. CASE pc = "first"
      <3>1. /\ pc' = "lease" /\ sid' \in Sessions /\ queue' = <<>>
            /\ \A w \in Sessions : w > sid' => worker'[w].told = "no"
        BY <1>2, <1>3, <2>2 DEF Inv, SessionInv
      <3>2. Len(queue') <= MaxQueue
        BY <3>1, Constants
      <3>. QED
        BY <1>2, <1>8, <3>1, <3>2 DEF SessionInv
    <2>3. CASE pc # "first"
      <3>1. UNCHANGED <<pc, monitor>> /\ Len(queue') <= Len(queue)
        BY <1>2, <1>3, <2>1, <2>3
      <3>. QED
        BY <1>2, <1>8, <2>1, <3>1, SessionKept
    <2>. QED
      BY <2>2, <2>3
  <1>12. ProbeInv'
    BY <1>2, <1>6, ProbeKept
  <1>13. BudgetInv'
    BY <1>2, <1>3, <1>6, BudgetKept
  <1>14. LeaseInv'
    BY <1>2, <1>3, SameWorkers, LeaseKept
  <1>. QED
    BY <1>9, <1>10, <1>11, <1>12, <1>13, <1>14 DEF Inv

-----------------------------------------------------------------------------
(* Probes. *)

\* What a probe finds: its snapshot, the action it decides, and the count of
\* the probes that saw the hard timeout.
LEMMA ProbeFinds ==
  ASSUME Inv, CountHard, monitor.running, UNCHANGED restarts, NEW r \in BOOLEAN
  PROVE  /\ Probed(r) \in MonitorRec
         /\ Probed(r).running = monitor.running
         /\ Probed(r).prev = Snapshot
         /\ restarts <= Probed(r).budget
         /\ Snapshot.state = "stalled" => Snapshot.n = Confirmations
         /\ Snapshot.hard /\ Snapshot.state # "stalled" => Snapshot.n <= hardProbes'
         /\ hardProbes' \in 0 .. Confirmations
         /\ hardProbes = Confirmations => hardProbes' = Confirmations
         /\ Decision.action # "none" => Decision \in Good'
  <1>1. /\ monitor \in MonitorRec /\ monitor.prev \in SnapRec /\ monitor.budget \in Nat
        /\ hardProbes \in 0 .. Confirmations /\ restarts \in Nat
    BY Types
  <1>2. PICK p \in SnapRec, u \in Nat, hp \in 0 .. Confirmations :
          p = monitor.prev /\ u = monitor.budget /\ hp = hardProbes
    BY <1>1
  <1>3. /\ p.state = "stalled" => p.n = Confirmations
        /\ p.hard /\ p.state # "stalled" => p.n <= hp
    BY <1>2 DEF Inv, ProbeInv
  <1>4. PICK v : v = classifyState(p)
    OBVIOUS
  <1>5. /\ v \in SnapRec /\ v.state \in States
        /\ v.state = "stalled" => v.n = Confirmations
        /\ v.hard => HardTimeoutExceeded
        /\ v.hard /\ v.state # "stalled" => v.n <= hp + 1
        /\ v.hard /\ v.state = "stalled" /\ p.state # "stalled" =>
             hp + 1 >= Confirmations
    BY <1>3, <1>4, Classified
  <1>6. Snapshot = v
    BY <1>2, <1>4 DEF Snapshot
  <1>7. PICK d : d = recoveryDecision(p, v, u)
    OBVIOUS
  <1>8. Decision = d
    BY <1>2, <1>6, <1>7 DEF Decision
  <1>9. /\ d \in Decisions /\ u <= d.budget
        /\ d.action = "restart-attempt" => d.budget = u + 1 /\ d.budget <= MaxRestarts
        /\ d.cause = "hard-timeout" =>
             v.state = "stalled" /\ p.state # "stalled" /\ v.hard
    BY <1>5, <1>7, Decided
  <1>10. d.budget \in Nat /\ hp \in Nat /\ v.n \in Nat /\ v.n <= Confirmations
    BY <1>5, <1>9, Constants DEF Decisions, SnapRec
  <1>11. restarts <= u /\ restarts <= d.budget
    <2>1. restarts <= u
      BY <1>2 DEF Inv, BudgetInv
    <2>. QED
      BY <1>1, <1>9, <1>10, <2>1
  <1>12. hardProbes' = IF HardTimeoutExceeded THEN Cap(hp + 1, Confirmations) ELSE hp
    BY <1>2 DEF CountHard
  <1>13. /\ hardProbes' \in 0 .. Confirmations
         /\ hp = Confirmations => hardProbes' = Confirmations
         /\ HardTimeoutExceeded /\ hp + 1 >= Confirmations => hardProbes' = Confirmations
         /\ \A n \in Nat : HardTimeoutExceeded /\ n <= hp + 1 /\ n <= Confirmations
                              => n <= hardProbes'
    BY <1>2, <1>10, <1>12, Constants DEF Cap
  <1>14. /\ Probed(r) \in MonitorRec
         /\ Probed(r).running = monitor.running
         /\ Probed(r).prev = v /\ Probed(r).budget = d.budget
    BY <1>1, <1>5, <1>6, <1>8, <1>10, ProbedIs
  <1>15. d.action # "none" => d \in Good'
    <2>1. Justified(d)'
      <3>1. d.action = "restart-attempt" => restarts < d.budget /\ d.budget <= MaxRestarts
        BY <1>1, <1>9, <1>10, <1>11
      <3>2. d.cause = "hard-timeout" => hardProbes' = Confirmations
        BY <1>5, <1>9, <1>13
      <3>. QED
        BY <3>1, <3>2 DEF Justified
    <2>2. d.action # "none" => d \in Decisions /\ d.action \in Actions
      BY <1>9 DEF Decisions
    <2>. QED
      BY <2>1, <2>2 DEF Good, Decisions
  <1>16. v.hard /\ v.state # "stalled" => v.n <= hardProbes'
    BY <1>5, <1>10, <1>13
  <1>. QED
    BY <1>2, <1>5, <1>6, <1>8, <1>11, <1>13, <1>14, <1>15, <1>16

\* What is delivered is appended to the queue.
LEMMA Pending ==
  ASSUME Inv, Good \subseteq Good', Decision.action # "none" => Decision \in Good'
  PROVE  /\ queue \o Delivered \in Seq(Good') /\ queue \in Seq(Good')
         /\ Len(queue) \in Nat /\ Len(queue \o Delivered) \in Nat
         /\ Len(queue \o Delivered) <= Len(queue) + 1
         /\ queue # <<>> => queue \o Delivered # <<>>
  <1>1. queue \in Seq(Good)
    BY QueueIsGood
  <1>2. queue \in Seq(Good') /\ Len(queue) \in Nat
    BY <1>1, QueueMoves
  <1>3. CASE Decision.action = "none"
    <2>1. queue \o Delivered = queue
      BY <1>1, <1>3, QueueMoves DEF Delivered
    <2>. QED
      BY <1>2, <2>1
  <1>4. CASE Decision.action # "none"
    <2>1. PICK d \in Good' : d = Decision
      BY <1>4
    <2>2. Delivered = <<d>>
      BY <1>4, <2>1 DEF Delivered
    <2>3. /\ queue \o <<d>> \in Seq(Good') /\ Len(queue \o <<d>>) = Len(queue) + 1
          /\ queue \o <<d>> # <<>>
      BY <1>2, <2>1, QueueMoves
    <2>. QED
      BY <1>2, <2>2, <2>3
  <1>. QED
    BY <1>3, <1>4

\* A probe, or a flush: the monitor and the queue move together.
LEMMA ProbeMoves ==
  ASSUME Inv, pc \notin {"idle", "open", "first"}, monitor' \in MonitorRec,
         UNCHANGED <<worker, lease, run, link, restarts, restarted, sid, inv, pc, budget,
                     sample, fatal, renewal, outcome, unkilled>>,
         AgeOK', gone' \in BOOLEAN, hardProbes' \in 0 .. Confirmations,
         hardProbes = Confirmations => hardProbes' = Confirmations,
         ProbeInv', monitor'.running => restarts <= monitor'.budget,
         queue' \in Seq(Good'), Len(queue') <= MaxQueue + 1,
         monitor'.running => Len(queue') <= MaxQueue,
         accepted' \in {accepted} \cup Good',
         handler' \in {"idle", "sample", "flush", "stop"},
         handler' # "idle" => queue' # <<>>,
         sample["action"].at = "await" => handler' = "sample"
  PROVE  Inv'
  <1>1. /\ DecisionInv' /\ \A i \in DOMAIN queue' : queue'[i].action \in Actions
        /\ accepted'.action \in Actions \cup {"none"}
    BY DecisionsKept
  <1>2. TypeOK'
    <2>1. Plain /\ worker' \in [Sessions -> WorkerRec] /\ sample' \in [Samplers -> SampleRec]
      BY Types
    <2>2. Plain'
      BY <1>1, <2>1 DEF Plain
    <2>. QED
      BY <2>1, <2>2, TypeNext
  <1>3. SessionInv'
    BY DEF Inv, SessionInv
  <1>4. BudgetInv'
    BY DEF Inv, BudgetInv
  <1>5. LeaseInv'
    BY SameWorkers, LeaseKept
  <1>. QED
    BY <1>1, <1>2, <1>3, <1>4, <1>5 DEF Inv

\* The timer launches a probe.
LEMMA launchProbeStep == ASSUME Inv, launchProbe PROVE Inv'
  <1>1. /\ monitor.running /\ Len(queue \o Delivered) <= MaxQueue
        /\ monitor' = Probed(TRUE) /\ queue' = queue \o Delivered /\ CountHard
        /\ UNCHANGED <<durable, pc, budget, signals, sample, handler, accepted, fatal,
                       renewal, outcome, unkilled>>
    BY DEF launchProbe
  <1>2. PICK r \in BOOLEAN : r = TRUE
    OBVIOUS
  <1>3. /\ Probed(r) \in MonitorRec
        /\ Probed(r).running = monitor.running
        /\ Probed(r).prev = Snapshot
        /\ restarts <= Probed(r).budget
        /\ Snapshot.state = "stalled" => Snapshot.n = Confirmations
        /\ Snapshot.hard /\ Snapshot.state # "stalled" => Snapshot.n <= hardProbes'
        /\ hardProbes' \in 0 .. Confirmations
        /\ hardProbes = Confirmations => hardProbes' = Confirmations
        /\ Decision.action # "none" => Decision \in Good'
    BY <1>1, ProbeFinds
  <1>4. Good \subseteq Good'
    BY <1>1, <1>3, GoodGrows
  <1>5. /\ queue \o Delivered \in Seq(Good') /\ queue \in Seq(Good')
        /\ Len(queue) \in Nat /\ Len(queue \o Delivered) \in Nat
        /\ Len(queue \o Delivered) <= Len(queue) + 1
        /\ queue # <<>> => queue \o Delivered # <<>>
    BY <1>3, <1>4, Pending
  <1>6. Len(queue') <= MaxQueue /\ Len(queue') <= MaxQueue + 1
    BY <1>1, <1>5, Constants
  <1>7. ProbeInv'
    BY <1>1, <1>2, <1>3 DEF ProbeInv
  <1>8. /\ pc \notin {"idle", "open", "first"}
        /\ handler' # "idle" => queue' # <<>>
        /\ sample["action"].at = "await" => handler' = "sample"
        /\ handler' \in {"idle", "sample", "flush", "stop"}
    BY <1>1, <1>5 DEF Inv, SessionInv, TypeOK
  <1>9. AgeOK' /\ gone' \in BOOLEAN
    BY <1>1, Types DEF AgeOK, AgeCap, Plain
  <1>. QED
    BY <1>1, <1>2, <1>3, <1>5, <1>6, <1>7, <1>8, <1>9, ProbeMoves

\* The handler flushes a probe, and accepts the action only while the phase is
\* stalled.
LEMMA ConfirmActionStep == ASSUME Inv, ConfirmAction PROVE Inv'
  <1>1. /\ handler = "flush"
        /\ UNCHANGED <<durable, pc, budget, sample, fatal, renewal, outcome, unkilled>>
    BY DEF ConfirmAction
  <1>. DEFINE probed(m) == m = Probed(FALSE) /\ monitor.running
              pending(m) == IF probed(m) THEN queue \o Delivered ELSE queue
  <1>2. PICK m \in Flushed :
          /\ IF probed(m) THEN CountHard ELSE UNCHANGED hardProbes
          /\ IF \/ Head(queue).action = "notify"
                \/ m.prev.state # "stalled"
                \/ accepted # None
             THEN /\ handler' = "idle" /\ queue' = Tail(pending(m))
                  /\ monitor' = m
                  /\ UNCHANGED <<accepted, signals>>
             ELSE /\ handler' = "stop" /\ queue' = pending(m)
                  /\ accepted' = Head(queue)
                  /\ monitor' = AbortedMonitor(m) /\ DropSignals
    BY DEF ConfirmAction
  <1>3. /\ monitor \in MonitorRec /\ hardProbes \in 0 .. Confirmations
        /\ queue # <<>> /\ pc \notin {"idle", "open", "first"}
        /\ sample["action"].at # "await"
        /\ monitor.running => restarts <= monitor.budget /\ Len(queue) <= MaxQueue
        /\ Len(queue) <= MaxQueue + 1
        /\ monitor.prev.state = "stalled" => monitor.prev.n = Confirmations
        /\ monitor.prev.hard /\ monitor.prev.state # "stalled" => monitor.prev.n <= hardProbes
    BY <1>1, Types DEF Inv, SessionInv, BudgetInv, ProbeInv, TypeOK
  <1>4. /\ m \in MonitorRec /\ m.running = monitor.running
        /\ m.running => restarts <= m.budget
        /\ m.prev.state = "stalled" => m.prev.n = Confirmations
        /\ m.prev.hard /\ m.prev.state # "stalled" => m.prev.n <= hardProbes'
        /\ hardProbes' \in 0 .. Confirmations
        /\ hardProbes = Confirmations => hardProbes' = Confirmations
        /\ pending(m) \in Seq(Good') /\ queue \in Seq(Good') /\ pending(m) # <<>>
        /\ Len(queue) \in Nat /\ Len(pending(m)) \in Nat
        /\ Len(pending(m)) <= Len(queue) + (IF m.running THEN 1 ELSE 0)
    <2>1. CASE probed(m)
      <3>1. PICK r \in BOOLEAN : r = FALSE
        OBVIOUS
      <3>2. CountHard /\ m = Probed(r) /\ monitor.running
        BY <1>2, <2>1, <3>1
      <3>3. /\ Probed(r) \in MonitorRec
            /\ Probed(r).running = monitor.running
            /\ Probed(r).prev = Snapshot
            /\ restarts <= Probed(r).budget
            /\ Snapshot.state = "stalled" => Snapshot.n = Confirmations
            /\ Snapshot.hard /\ Snapshot.state # "stalled" => Snapshot.n <= hardProbes'
            /\ hardProbes' \in 0 .. Confirmations
            /\ hardProbes = Confirmations => hardProbes' = Confirmations
            /\ Decision.action # "none" => Decision \in Good'
        BY <1>1, <3>2, ProbeFinds
      <3>4. Good \subseteq Good'
        BY <1>1, <3>3, GoodGrows
      <3>5. /\ queue \o Delivered \in Seq(Good') /\ queue \in Seq(Good')
            /\ Len(queue) \in Nat /\ Len(queue \o Delivered) \in Nat
            /\ Len(queue \o Delivered) <= Len(queue) + 1
            /\ queue # <<>> => queue \o Delivered # <<>>
        BY <3>3, <3>4, Pending
      <3>6. pending(m) = queue \o Delivered
        BY <2>1
      <3>. HIDE DEF pending, probed
      <3>. QED
        BY <1>3, <3>2, <3>3, <3>5, <3>6
    <2>2. CASE ~probed(m)
      <3>1. UNCHANGED hardProbes /\ m = [monitor EXCEPT !.scheduled = FALSE]
        BY <1>2, <2>2 DEF Flushed
      <3>2. /\ m \in MonitorRec /\ m.running = monitor.running
            /\ m.prev = monitor.prev /\ m.budget = monitor.budget
        BY <1>3, <3>1 DEF MonitorRec
      <3>3. pending(m) = queue
        BY <2>2
      <3>4. queue \in Seq(Good) /\ Good \subseteq Good'
        BY <1>1, <3>1, QueueIsGood, GoodGrows
      <3>5. queue \in Seq(Good') /\ Len(queue) \in Nat
        BY <3>4, QueueMoves
      <3>. HIDE DEF pending, probed
      <3>6. Len(pending(m)) <= Len(queue) + (IF m.running THEN 1 ELSE 0)
        BY <3>3, <3>5
      <3>. QED
        BY <1>3, <3>1, <3>2, <3>3, <3>5, <3>6
    <2>. QED
      BY <2>1, <2>2
  <1>. HIDE DEF pending, probed
  <1>5. PICK q \in Seq(Good') : q = pending(m)
    BY <1>4
  <1>6. /\ q # <<>> /\ Len(q) \in Nat /\ Len(q) <= MaxQueue + 1
        /\ Tail(q) \in Seq(Good') /\ Len(Tail(q)) = Len(q) - 1
        /\ m.running => Len(q) <= MaxQueue + 1
        /\ Head(queue) \in Good'
    <2>1. q # <<>> /\ Len(q) \in Nat /\ Len(q) <= Len(queue) + (IF m.running THEN 1 ELSE 0)
      BY <1>4, <1>5
    <2>2. Len(q) <= MaxQueue + 1
      BY <1>3, <1>4, <2>1, Constants
    <2>3. Tail(q) \in Seq(Good') /\ Len(Tail(q)) = Len(q) - 1
      BY <2>1, QueueMoves
    <2>4. Head(queue) \in Good'
      BY <1>3, <1>4, QueueMoves
    <2>. QED
      BY <2>1, <2>2, <2>3, <2>4
  <1>7. CASE /\ handler' = "idle" /\ queue' = Tail(q) /\ monitor' = m
             /\ UNCHANGED <<accepted, signals>>
    <2>1. Len(queue') <= MaxQueue /\ Len(queue') <= MaxQueue + 1
      BY <1>6, <1>7, Constants
    <2>2. ProbeInv'
      BY <1>4, <1>7 DEF ProbeInv
    <2>3. AgeOK' /\ gone' \in BOOLEAN
      BY <1>7, Types DEF AgeOK, AgeCap, Plain
    <2>. QED
      BY <1>1, <1>3, <1>4, <1>6, <1>7, <2>1, <2>2, <2>3, ProbeMoves
  <1>8. CASE /\ handler' = "stop" /\ queue' = q /\ accepted' = Head(queue)
             /\ monitor' = AbortedMonitor(m) /\ DropSignals
    <2>1. /\ monitor' \in MonitorRec /\ monitor'.running = FALSE
          /\ monitor'.prev = m.prev
      BY <1>4, <1>8, AbortedIs
    <2>2. ProbeInv'
      BY <1>4, <2>1 DEF ProbeInv
    <2>3. AgeOK' /\ gone' \in BOOLEAN
      BY <1>8, AgesFresh DEF DropSignals
    <2>. QED
      BY <1>1, <1>3, <1>4, <1>6, <1>8, <2>1, <2>2, <2>3, ProbeMoves
  <1>. QED
    BY <1>2, <1>5, <1>7, <1>8

-----------------------------------------------------------------------------
(* The worker, its lease and the end of a session. *)

\* A step in which workers only stop: the records of the command stay.
LEMMA WorkersStop ==
  ASSUME Inv, UNCHANGED <<lease, run, link, restarts, restarted, sid, inv, pc, budget, signals,
                          sample, monitor, accepted, outcome, hardProbes>>,
         worker' \in [Sessions -> WorkerRec], unkilled' \in BOOLEAN,
         Coordinators' \subseteq Coordinators, unkilled => unkilled',
         \A x \in Sessions : worker[x].told = "no" => worker'[x].told = "no",
         fatal' \subseteq {"callback", "renewal"},
         renewalFailed' \in BOOLEAN, leaseStop' \in BOOLEAN,
         \/ UNCHANGED <<queue, handler>>
         \/ /\ handler # "idle" /\ handler' = "idle" /\ queue' = Tail(queue)
            /\ sample["action"].at # "await"
  PROVE  Inv'
  <1>1. handler # "idle" => queue # <<>>
    BY DEF Inv, SessionInv
  <1>2. /\ DecisionInv' /\ \A i \in DOMAIN queue' : queue'[i].action \in Actions
        /\ accepted'.action \in Actions \cup {"none"}
        /\ Len(queue') <= Len(queue) /\ Len(queue') <= MaxQueue + 1
    BY <1>1, DecisionsSame
  <1>3. TypeOK'
    <2>1. Plain /\ monitor' \in MonitorRec /\ sample' \in [Samplers -> SampleRec] /\ AgeOK
      BY Types
    <2>2. handler' \in {"idle", "sample", "flush", "stop"}
      BY <2>1 DEF Plain
    <2>3. Plain'
      BY <1>2, <2>1, <2>2 DEF Plain
    <2>4. AgeOK'
      BY <2>1 DEF AgeOK, AgeCap
    <2>. QED
      BY <2>1, <2>3, <2>4, TypeNext
  <1>4. SessionInv'
    <2>1. queue \in Seq(Good)
      BY QueueIsGood
    <2>2. Len(queue) \in Nat /\ Len(queue') \in Nat
      BY <1>1, <2>1, QueueMoves
    <2>3. pc' \in {"idle", "open", "first"} => queue' = queue
      BY <1>1 DEF Inv, SessionInv
    <2>4. /\ handler' # "idle" => queue' # <<>>
          /\ sample'["action"].at = "await" => handler' = "sample"
      BY <1>1 DEF Inv, SessionInv
    <2>. QED
      BY <1>2, <2>2, <2>3, <2>4, SessionKept
  <1>5. ProbeInv'
    BY ProbeKept
  <1>6. BudgetInv'
    BY BudgetKept
  <1>7. LeaseInv'
    BY LeaseKept
  <1>. QED
    BY <1>2, <1>3, <1>4, <1>5, <1>6, <1>7 DEF Inv

\* The worker is stopped for an accepted action.
LEMMA StopWorkerStep == ASSUME Inv, StopWorker PROVE Inv'
  <1>1. /\ handler = "stop"
        /\ handler' = "idle" /\ queue' = Tail(queue)
        /\ UNCHANGED <<lease, run, link, restarts, restarted, sid, inv, pc, budget, signals,
                       sample, monitor, accepted, renewal, outcome, hardProbes>>
    BY DEF StopWorker
  <1>2. /\ handler # "idle" /\ sample["action"].at # "await"
        /\ renewalFailed \in BOOLEAN /\ leaseStop \in BOOLEAN
    BY <1>1 DEF Inv, SessionInv, TypeOK
  <1>3. fatal' \subseteq {"callback", "renewal"}
    BY DEF StopWorker, Inv, TypeOK
  <1>4. Terminated \/ TerminationFails
    BY DEF StopWorker
  <1>5. /\ worker' \in [Sessions -> WorkerRec] /\ unkilled' \in BOOLEAN
        /\ Coordinators' \subseteq Coordinators
        /\ unkilled => unkilled'
        /\ \A x \in Sessions : worker[x].told = "no" => worker'[x].told = "no"
    BY <1>4, Types, Killed
  <1>. QED
    BY <1>1, <1>2, <1>3, <1>5, WorkersStop

\* It is stopped after a refused renewal.
LEMMA StopAfterRenewalStep == ASSUME Inv, StopAfterRenewal PROVE Inv'
  <1>1. /\ leaseStop' = FALSE /\ (Terminated \/ TerminationFails)
        /\ UNCHANGED <<lease, run, link, restarts, restarted, sid, inv, pc, budget, signals,
                       sample, monitor, actions, renewalFailed, outcome, hardProbes>>
    BY DEF StopAfterRenewal
  <1>2. /\ fatal' \subseteq {"callback", "renewal"}
        /\ renewalFailed' \in BOOLEAN /\ leaseStop' \in BOOLEAN
    BY <1>1 DEF Inv, TypeOK
  <1>3. /\ worker' \in [Sessions -> WorkerRec] /\ unkilled' \in BOOLEAN
        /\ Coordinators' \subseteq Coordinators
        /\ unkilled => unkilled'
        /\ \A x \in Sessions : worker[x].told = "no" => worker'[x].told = "no"
    BY <1>1, Types, Killed
  <1>. QED
    BY <1>1, <1>2, <1>3, WorkersStop

\* A process stalls, resumes or exits.
LEMMA ChangeLifeStep ==
  ASSUME Inv, NEW w \in Sessions, ChangeLife(w) PROVE Inv'
  <1>1. UNCHANGED <<lease, run, link, restarts, restarted, sid, inv, pc, budget, signals,
                    sample, monitor, actions, renewal, outcome, history>>
    BY DEF ChangeLife
  <1>2. worker \in [Sessions -> WorkerRec]
    BY Types
  <1>3. /\ worker' \in [Sessions -> WorkerRec]
        /\ Coordinators' \subseteq Coordinators
        /\ \A x \in Sessions : worker[x].told = "no" => worker'[x].told = "no"
    <2>1. CASE worker' = [worker EXCEPT ![w] = Dead]
      BY <1>2, <2>1, DeadSet
    <2>2. CASE Living(w) /\ \E l \in {"up", "frozen"} : worker' = [worker EXCEPT ![w].life = l]
      <3>1. PICK l \in Life : worker' = [worker EXCEPT ![w].life = l]
        BY <2>2 DEF Life
      <3>2. /\ worker' \in [Sessions -> WorkerRec]
            /\ worker'[w].life = l /\ worker'[w].told = worker[w].told
            /\ \A x \in Sessions \ {w} : worker'[x] = worker[x]
        BY <1>2, <3>1, LifeSet
      <3>. QED
        BY <2>2, <3>2 DEF Coordinators, Living
    <2>. QED
      BY <2>1, <2>2 DEF ChangeLife, Living
  <1>4. /\ fatal' \subseteq {"callback", "renewal"} /\ unkilled' \in BOOLEAN
        /\ renewalFailed' \in BOOLEAN /\ leaseStop' \in BOOLEAN
    BY <1>1 DEF Inv, TypeOK
  <1>. QED
    BY <1>1, <1>3, <1>4, WorkersStop

\* The child run completes, or the lease of an absent owner lapses.
LEMMA RecordsStep ==
  ASSUME Inv, LeaseExpires \/ \E w \in Sessions : CompleteRun(w) PROVE Inv'
  <1>1. /\ UNCHANGED <<worker, link, restarts, restarted, sid, inv, pc, budget, signals,
                       sample, monitor, actions, renewal, outcome, history>>
        /\ run' \in {"open", "completed"}
    BY DEF LeaseExpires, CompleteRun, Inv, TypeOK
  <1>2. /\ lease' \in [holder : 0 .. MaxSessions, live : BOOLEAN]
        /\ lease'.holder = lease.holder
    <2>1. lease \in [holder : 0 .. MaxSessions, live : BOOLEAN]
      BY Types
    <2>2. lease' = lease \/ lease' = [lease EXCEPT !.live = FALSE]
      BY DEF LeaseExpires, CompleteRun
    <2>. QED
      BY <2>1, <2>2
  <1>3. TypeOK'
    BY <1>1, <1>2 DEF Inv, TypeOK, AgeCap
  <1>4. DecisionInv'
    BY <1>1, DecisionsSame
  <1>5. SessionInv' /\ ProbeInv' /\ BudgetInv'
    BY <1>1 DEF Inv, SessionInv, ProbeInv, BudgetInv
  <1>6. LeaseInv'
    BY <1>1, <1>2, SameWorkers, LeaseKept
  <1>. QED
    BY <1>3, <1>4, <1>5, <1>6 DEF Inv

\* The lease is bound to the worker of the session, which may then
\* coordinate: nobody else does.
LEMMA AcquireLeaseStep == ASSUME Inv, AcquireLease PROVE Inv'
  <1>1. /\ pc = "lease"
        /\ UNCHANGED <<run, restarts, restarted, sid, inv, budget, signals, sample, monitor,
                       actions, renewal, history>>
    BY DEF AcquireLease
  <1>2. sid \in Sessions /\ worker \in [Sessions -> WorkerRec] /\ sid \in 0 .. MaxSessions
    BY <1>1, Types DEF Inv, SessionInv
  <1>3. DecisionInv'
    BY <1>1, DecisionsSame
  <1>4. CASE Claimable
    <2>1. PICK r \in {"no", "execute", "reconcile"} :
            r = IF run = "completed" THEN "reconcile" ELSE "execute"
      OBVIOUS
    <2>2. /\ lease' = [holder |-> sid, live |-> TRUE]
          /\ worker' = [worker EXCEPT ![sid].told = r]
          /\ link' = IF run = "completed" THEN link ELSE "active"
          /\ pc' = "run" /\ UNCHANGED outcome
      BY <1>4, <2>1 DEF AcquireLease
    <2>3. /\ worker' \in [Sessions -> WorkerRec]
          /\ \A x \in Sessions \ {sid} : worker'[x] = worker[x]
      BY <1>2, <2>2, ToldSet
    <2>4. /\ lease' \in [holder : 0 .. MaxSessions, live : BOOLEAN]
          /\ lease'.holder = sid
      BY <1>2, <2>2
    <2>5. TypeOK'
      <3>1. /\ Plain /\ monitor' \in MonitorRec /\ sample' \in [Samplers -> SampleRec]
            /\ AgeOK
        BY <1>1, Types
      <3>2. AgeOK'
        BY <1>1, <3>1 DEF AgeOK, AgeCap
      <3>3. Plain'
        BY <1>1, <2>2, <2>4, <3>1 DEF Plain
      <3>. QED
        BY <2>3, <3>1, <3>2, <3>3, TypeNext
    <2>6. SessionInv'
      <3>1. \A w \in Sessions : w > sid => w # sid /\ worker[w].told = "no"
        BY <1>2 DEF Inv, SessionInv, Sessions
      <3>2. \A w \in Sessions : w > sid' => worker'[w].told = "no"
        BY <1>1, <2>3, <3>1
      <3>. QED
        BY <1>1, <1>2, <2>2, <3>2 DEF Inv, SessionInv
    <2>7. ProbeInv' /\ BudgetInv'
      BY <1>1, <2>2 DEF Inv, ProbeInv, BudgetInv
    <2>8. LeaseInv'
      <3>1. \A w \in Coordinators : w = lease.holder
        BY <1>1 DEF Inv, LeaseInv
      <3>2. Coordinators = {}
        BY <1>4, <3>1 DEF Claimable, Coordinators, Sessions
      <3>3. Coordinators' \subseteq {sid}
        BY <2>3, <3>2 DEF Coordinators, Living
      <3>4. link # "passed"
        BY <1>1 DEF Inv, LeaseInv
      <3>. QED
        BY <1>1, <2>2, <2>4, <3>3, <3>4 DEF LeaseInv
    <2>. QED
      BY <1>3, <2>5, <2>6, <2>7, <2>8 DEF Inv
  <1>5. CASE ~Claimable
    <2>1. /\ pc' = "ended" /\ outcome' = "error"
          /\ UNCHANGED <<lease, worker, link>>
      BY <1>5 DEF AcquireLease
    <2>2. TypeOK'
      BY <1>1, <2>1 DEF Inv, TypeOK, AgeCap
    <2>3. SessionInv' /\ ProbeInv' /\ BudgetInv'
      BY <1>1, <2>1 DEF Inv, SessionInv, ProbeInv, BudgetInv
    <2>4. LeaseInv'
      BY <1>1, <2>1, SameWorkers, LeaseKept
    <2>. QED
      BY <1>3, <2>2, <2>3, <2>4 DEF Inv
  <1>. QED
    BY <1>4, <1>5

\* The execution ends: the lease is released, and its worker terminated or
\* known not to be.
LEMMA EndExecutionStep ==
  ASSUME Inv, pc = "run", NEW ok \in BOOLEAN, EndExecution(ok) PROVE Inv'
  <1>1. /\ pc' = "ended"
        /\ UNCHANGED <<run, restarts, restarted, sid, inv, budget, signals, sample, monitor,
                       actions, renewal, hardProbes>>
    BY DEF EndExecution
  <1>2. Terminated \/ TerminationFails
    BY DEF EndExecution
  <1>3. lease.holder = sid /\ link # "passed"
    BY DEF Inv, LeaseInv
  <1>4. lease' = [holder |-> 0, live |-> FALSE]
    BY <1>3 DEF EndExecution
  <1>5. /\ lease' \in [holder : 0 .. MaxSessions, live : BOOLEAN]
        /\ lease'.holder = 0
    BY <1>4, Constants
  <1>6. /\ worker' \in [Sessions -> WorkerRec] /\ unkilled' \in BOOLEAN
        /\ Coordinators' \subseteq Coordinators
        /\ unkilled => unkilled'
        /\ sid \in Coordinators' => unkilled'
        /\ \A x \in Sessions : worker[x].told = "no" => worker'[x].told = "no"
    BY <1>2, Types, Killed
  <1>7. \A w \in Coordinators : w = sid
    BY <1>3 DEF Inv, LeaseInv
  <1>8. link' = "passed" => Terminated
    <2>1. CASE Terminated
      BY <2>1
    <2>2. CASE ~Terminated
      <3>1. link' = IF run = "open" THEN "interrupted" ELSE link
        BY <2>2 DEF EndExecution
      <3>. QED
        BY <1>3, <3>1
    <2>. QED
      BY <2>1, <2>2
  <1>9. link' = "passed" => Coordinators' = {}
    <2>1. ASSUME Terminated PROVE sid \notin Coordinators'
      BY <2>1, Types, DeadSet DEF Terminated
    <2>. QED
      BY <1>6, <1>7, <1>8, <2>1
  <1>10. /\ outcome' \in {"none", "settled", "error"}
         /\ link' \in {"reserved", "active", "interrupted", "passed"}
    <2>1. link \in {"reserved", "active", "interrupted", "passed"} /\ run \in {"open", "completed"}
      BY DEF Inv, TypeOK
    <2>2. outcome' \in {"settled", "error"}
      BY DEF EndExecution
    <2>3. link' \in {"passed", "interrupted", link}
      BY <2>1 DEF EndExecution
    <2>. QED
      BY <2>1, <2>2, <2>3
  <1>11. TypeOK'
    <2>1. /\ Plain /\ monitor' \in MonitorRec /\ sample' \in [Samplers -> SampleRec]
          /\ AgeOK
      BY <1>1, Types
    <2>2. AgeOK'
      BY <1>1, <2>1 DEF AgeOK, AgeCap
    <2>3. Plain'
      BY <1>1, <1>5, <1>6, <1>10, <2>1 DEF Plain
    <2>. QED
      BY <1>6, <2>1, <2>2, <2>3, TypeNext
  <1>12. DecisionInv'
    BY <1>1, DecisionsSame
  <1>13. SessionInv'
    BY <1>1, <1>6 DEF Inv, SessionInv
  <1>14. ProbeInv' /\ BudgetInv'
    BY <1>1 DEF Inv, ProbeInv, BudgetInv
  <1>15. LeaseInv'
    BY <1>1, <1>5, <1>6, <1>7, <1>9 DEF LeaseInv
  <1>. QED
    BY <1>11, <1>12, <1>13, <1>14, <1>15 DEF Inv

\* The watchdog is stopped.
LEMMA StopWatchdogStep == ASSUME Inv, StopWatchdog PROVE Inv'
  <1>1. /\ pc = "ended" /\ pc' = "close" /\ handler = "idle"
        /\ monitor' = StoppedMonitor /\ DropSignals
        /\ UNCHANGED <<durable, budget, sample, queue, handler, accepted, renewal,
                       outcome, history>>
    BY DEF StopWatchdog
  <1>2. fatal' \subseteq {"callback", "renewal"}
    BY DEF StopWatchdog, Inv, TypeOK
  <1>3. /\ monitor' \in MonitorRec /\ monitor'.running = FALSE
        /\ monitor'.prev = NoSnapshot
    BY <1>1, StoppedIs
  <1>4. AgeOK' /\ gone' \in BOOLEAN
    BY <1>1, AgesFresh DEF DropSignals
  <1>5. TypeOK'
    <2>1. Plain /\ worker' \in [Sessions -> WorkerRec] /\ sample' \in [Samplers -> SampleRec]
      BY <1>1, Types
    <2>2. Plain'
      BY <1>1, <1>2, <1>4, <2>1 DEF Plain
    <2>. QED
      BY <1>3, <1>4, <2>1, <2>2, TypeNext
  <1>6. DecisionInv'
    BY <1>1, DecisionsSame
  <1>7. SessionInv'
    BY <1>1, <1>3 DEF Inv, SessionInv
  <1>8. ProbeInv'
    BY <1>1, <1>3, ProbeKept
  <1>9. BudgetInv'
    BY <1>1, <1>3, BudgetKept
  <1>10. LeaseInv'
    BY <1>1, SameWorkers, LeaseKept
  <1>. QED
    BY <1>5, <1>6, <1>7, <1>8, <1>9, <1>10 DEF Inv

\* The session is closed: a restart is recorded within the budget, and only
\* once its worker is known to be dead.
LEMMA CloseSessionStep == ASSUME Inv, CloseSession PROVE Inv'
  <1>1. /\ pc = "close" /\ (Terminated \/ TerminationFails)
        /\ UNCHANGED <<lease, run, link, sid, inv>>
    BY DEF CloseSession
  <1>2. /\ worker' \in [Sessions -> WorkerRec] /\ unkilled' \in BOOLEAN
        /\ Coordinators' \subseteq Coordinators
        /\ unkilled => unkilled'
        /\ \A x \in Sessions : worker[x].told = "no" => worker'[x].told = "no"
    BY <1>1, Types, Killed
  <1>3. /\ restarts \in Nat /\ restarted \in Nat
        /\ restarted <= restarts /\ restarts <= MaxRestarts
    BY Types DEF Inv, BudgetInv
  <1>4. CASE Return /\ UNCHANGED <<restarts, restarted>>
    <2>1. Forget /\ pc' = "idle" /\ budget' = 0
      BY <1>4 DEF Return
    <2>. QED
      BY <1>1, <1>2, <1>3, <1>4, <2>1, SessionEnds
  <1>5. CASE Terminated /\ accepted.action = "restart-attempt" /\ RecordRestart
    <2>1. sid \notin Coordinators'
      BY <1>5, Types, DeadSet DEF Terminated
    <2>2. /\ restarts' = IF accepted.budget > restarts THEN accepted.budget ELSE restarts
          /\ restarted' = restarted + 1 /\ budget' = accepted.budget
          /\ pc' = IF link = "passed" THEN "idle" ELSE "open"
          /\ Forget
      BY <1>5 DEF RecordRestart
    <2>3. /\ accepted.budget \in Nat
          /\ restarts < accepted.budget /\ accepted.budget <= MaxRestarts
      BY <1>5 DEF Inv, DecisionInv, Justified, Decisions
    <2>4. PICK b \in Nat : b = accepted.budget
      BY <2>3
    <2>5. /\ restarts' = b /\ budget' = b /\ restarted' <= restarts'
          /\ restarted' \in Nat /\ restarts' <= MaxRestarts /\ restarts' <= budget'
      BY <1>3, <2>2, <2>3, <2>4, Constants
    <2>6. pc' \in {"idle", "open"} /\ (pc' = "open" => link # "passed")
      BY <2>2
    <2>. QED
      BY <1>1, <1>2, <2>1, <2>2, <2>5, <2>6, SessionEnds
  <1>. QED
    BY <1>4, <1>5 DEF CloseSession

-----------------------------------------------------------------------------
\* Every step keeps the invariant.
LEMMA NextInv == ASSUME Inv, [Next]_vars PROVE Inv'
  <1>1. CASE Invoke \/ OpenSession \/ OpenFails \/ Crash
    BY <1>1, InvokeStep, OpenSessionStep, CommandEndsStep
  <1>2. CASE PeriodicSample \/ FirstSampleFails \/ Tick
             \/ \E s \in Samplers : AwaitHealth(s)
    BY <1>2, PeriodicSampleStep, FirstSampleFailsStep, AwaitHealthStep, TickStep
  <1>3. CASE launchProbe \/ FailClosed \/ RenewalRefused
    BY <1>3, launchProbeStep, AbortStep
  <1>4. CASE HandleAction \/ ConfirmAction \/ StopWorker \/ StopAfterRenewal
    BY <1>4, HandleActionStep, ConfirmActionStep, StopWorkerStep, StopAfterRenewalStep
  <1>5. CASE ExecuteReturns \/ ExecuteRejects \/ WorkerDeadline
    BY <1>5, EndExecutionStep DEF ExecuteReturns, ExecuteRejects, WorkerDeadline
  <1>6. CASE AcquireLease \/ StopWatchdog \/ CloseSession
    BY <1>6, AcquireLeaseStep, StopWatchdogStep, CloseSessionStep
  <1>7. CASE LeaseExpires \/ \E w \in Sessions : CompleteRun(w) \/ ChangeLife(w)
    BY <1>7, RecordsStep, ChangeLifeStep
  <1>8. CASE UNCHANGED vars
    <2>1. UNCHANGED <<worker, lease, run, link, restarts, restarted, sid, inv, pc, budget,
            age, gone, sample, monitor, queue, handler, accepted, fatal, renewalFailed,
            leaseStop, outcome, hardProbes, unkilled>>
      BY <1>8 DEF vars
    <2>2. TypeOK'
      BY <2>1 DEF Inv, TypeOK, AgeCap
    <2>. QED
      BY <2>1, <2>2, QuietStep DEF Inv, SessionInv
  <1>. QED
    BY <1>1, <1>2, <1>3, <1>4, <1>5, <1>6, <1>7, <1>8 DEF Next

\* The invariant holds throughout.
THEOREM Invariance == Spec => []Inv
  BY InitInv, NextInv, PTL DEF Spec

\* Every variable keeps its type; the queue of actions never holds more than
\* one beyond its bound.
THEOREM TypeCorrect == Spec => []TypeOK
  <1>1. Inv => TypeOK
    BY DEF Inv
  <1>. QED
    BY <1>1, Invariance, PTL

\* Whatever signals a probe finds, classifyState makes no transition that the
\* table of watchdog.ts forbids: it never throws.
THEOREM ClassificationIsLegal == Spec => []TransitionsLegal
  <1>1. ASSUME Inv PROVE TransitionsLegal
    <2>1. PICK p \in SnapRec, hp \in 0 .. Confirmations :
            p = monitor.prev /\ hp = hardProbes
      BY <1>1, Types
    <2>2. /\ p.state = "stalled" => p.n = Confirmations
          /\ p.hard /\ p.state # "stalled" => p.n <= hp
      BY <1>1, <2>1 DEF Inv, ProbeInv
    <2>3. PICK v : v = classifyState(p)
      OBVIOUS
    <2>4. /\ v.state \in States
          /\ v.state = "suspect" => p.state # "stalled"
          /\ v.state = "recovered" => p.state \in {"suspect", "stalled", "slow"}
          /\ p.state \in Actionable => v.state \in Actionable \cup {"recovered"}
      BY <2>2, <2>3, Classified
    <2>5. canTransitionWatchdogState(p.state, v.state)
      BY <2>4 DEF canTransitionWatchdogState, Actionable, States
    <2>. QED
      BY <2>1, <2>3, <2>5 DEF TransitionsLegal, Snapshot
  <1>. QED
    BY <1>1, Invariance, PTL

\* An action is accepted for the hard timeout only after Confirmations probes
\* of this session saw the deadline exceeded.
THEOREM HardKillsAreConfirmed == Spec => []HardKillConfirmed
  <1>1. Inv => HardKillConfirmed
    BY DEF Inv, DecisionInv, Justified, HardKillConfirmed
  <1>. QED
    BY <1>1, Invariance, PTL

\* The restarts of a child never exceed the budget of its profile, over all
\* invocations and through crashes.
THEOREM RestartsStayInBudget == Spec => []RestartsBounded
  <1>1. ASSUME Inv PROVE RestartsBounded
    <2>1. /\ restarts \in Nat /\ restarted \in Nat /\ MaxRestarts \in Nat
          /\ restarted <= restarts /\ restarts <= MaxRestarts
      BY <1>1, Types, Constants DEF Inv, BudgetInv
    <2>. QED
      BY <2>1 DEF RestartsBounded
  <1>. QED
    BY <1>1, Invariance, PTL

\* At most one living worker coordinates the child run, and none once its
\* link is settled as passed.
THEOREM OneWorkerCoordinates == Spec => []OneCoordinator
  <1>1. ASSUME Inv PROVE OneCoordinator
    <2>1. \A v, w \in Coordinators : v = w
      BY <1>1 DEF Inv, LeaseInv, Coordinators, Sessions
    <2>2. link = "passed" => Coordinators = {}
      BY <1>1 DEF Inv, LeaseInv
    <2>3. CASE Coordinators = {}
      <3>1. Cardinality(Coordinators) = 0
        BY <2>3, FS_EmptySet
      <3>. QED
        BY <3>1 DEF OneCoordinator
    <2>4. CASE Coordinators # {}
      <3>1. PICK w : w \in Coordinators
        BY <2>4
      <3>2. Coordinators = {w}
        BY <2>1, <3>1
      <3>3. Cardinality(Coordinators) = 1
        BY <3>2, FS_Singleton
      <3>. QED
        BY <2>2, <2>4, <3>3 DEF OneCoordinator
    <2>. QED
      BY <2>3, <2>4
  <1>. QED
    BY <1>1, Invariance, PTL
=============================================================================
