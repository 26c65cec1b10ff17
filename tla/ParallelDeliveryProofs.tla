----------------------- MODULE ParallelDeliveryProofs -----------------------
(***************************************************************************)
(* TLAPS proofs about ParallelDelivery, for any finite set of tasks with   *)
(* any dependencies, any waves, and any number of invocations, crashes and *)
(* commits of others.                                                      *)
(*                                                                         *)
(* DurableInv is about the records and the target branch, PlaceInv about   *)
(* the place of the command.  Most actions write the records of one task:  *)
(* RecordsMove shows DurableInv for all of them, and the lemma of each     *)
(* action shows what it writes there.                                      *)
(***************************************************************************)
EXTENDS ParallelDelivery, TLAPS, FiniteSetTheorems, WellFoundedInduction

USE DEF durable, recovery, integration, supervisor, others, None, Edit

WtRec == [st : WtStatus, why : {"none", "resumable", "fresh"},
          tree : {"base", "dirty", "committed"}, known : BOOLEAN, base : Heads]
IntegRec == [live : Live, before : Heads, retried : BOOLEAN]
AtRec == [t : Tasks \cup {None}, was : BOOLEAN,
          to : {None, "retained", "conflicted"}]

-----------------------------------------------------------------------------
(* The records as the actions write them. *)

\* A worktree gets a status.
LEMMA WtStatusSet ==
  ASSUME wt \in [Tasks -> WtRec], NEW t \in Tasks, NEW s \in WtStatus,
         wt' = [wt EXCEPT ![t].st = s]
  PROVE  /\ wt' \in [Tasks -> WtRec]
         /\ wt'[t].st = s /\ wt'[t].tree = wt[t].tree
         /\ \A x \in Tasks \ {t} : wt'[x] = wt[x]
  <1>1. wt' \in [Tasks -> WtRec]
    BY DEF WtRec
  <1>2. wt'[t].st = s /\ wt'[t].tree = wt[t].tree
    BY DEF WtRec
  <1>3. \A x \in Tasks \ {t} : wt'[x] = wt[x]
    OBVIOUS
  <1>. QED
    BY <1>1, <1>2, <1>3

\* A worktree gets a status and a mark.
LEMMA WtStatusMarkSet ==
  ASSUME wt \in [Tasks -> WtRec], NEW t \in Tasks, NEW s \in WtStatus,
         NEW y \in {"none", "resumable", "fresh"},
         wt' = [wt EXCEPT ![t].st = s, ![t].why = y]
  PROVE  /\ wt' \in [Tasks -> WtRec]
         /\ wt'[t].st = s /\ wt'[t].tree = wt[t].tree
         /\ \A x \in Tasks \ {t} : wt'[x] = wt[x]
  <1>1. wt' \in [Tasks -> WtRec]
    BY ZenonT(30) DEF WtRec
  <1>2. wt'[t].st = s /\ wt'[t].tree = wt[t].tree
    BY DEF WtRec
  <1>3. \A x \in Tasks \ {t} : wt'[x] = wt[x]
    OBVIOUS
  <1>. QED
    BY <1>1, <1>2, <1>3

\* The content of a worktree changes.
LEMMA WtTreeSet ==
  ASSUME wt \in [Tasks -> WtRec], NEW t \in Tasks,
         NEW r \in {"base", "dirty", "committed"},
         wt' = [wt EXCEPT ![t].tree = r]
  PROVE  /\ wt' \in [Tasks -> WtRec]
         /\ wt'[t].st = wt[t].st /\ wt'[t].tree = r
         /\ \A x \in Tasks \ {t} : wt'[x] = wt[x]
  <1>1. wt' \in [Tasks -> WtRec]
    BY DEF WtRec
  <1>2. wt'[t].st = wt[t].st /\ wt'[t].tree = r
    BY DEF WtRec
  <1>3. \A x \in Tasks \ {t} : wt'[x] = wt[x]
    OBVIOUS
  <1>. QED
    BY <1>1, <1>2, <1>3

\* The content of a worktree changes, and whether its HEAD is recorded.
LEMMA WtTreeKnownSet ==
  ASSUME wt \in [Tasks -> WtRec], NEW t \in Tasks,
         NEW r \in {"base", "dirty", "committed"}, NEW k \in BOOLEAN,
         wt' = [wt EXCEPT ![t].tree = r, ![t].known = k]
  PROVE  /\ wt' \in [Tasks -> WtRec]
         /\ wt'[t].st = wt[t].st /\ wt'[t].tree = r
         /\ \A x \in Tasks \ {t} : wt'[x] = wt[x]
  <1>1. wt' \in [Tasks -> WtRec]
    BY ZenonT(30) DEF WtRec
  <1>2. wt'[t].st = wt[t].st /\ wt'[t].tree = r
    BY DEF WtRec
  <1>3. \A x \in Tasks \ {t} : wt'[x] = wt[x]
    OBVIOUS
  <1>. QED
    BY <1>1, <1>2, <1>3

\* Its HEAD is recorded and its mark removed.
LEMMA WtKnownMarkSet ==
  ASSUME wt \in [Tasks -> WtRec], NEW t \in Tasks, NEW k \in BOOLEAN,
         NEW y \in {"none", "resumable", "fresh"},
         wt' = [wt EXCEPT ![t].known = k, ![t].why = y]
  PROVE  /\ wt' \in [Tasks -> WtRec]
         /\ wt'[t].st = wt[t].st /\ wt'[t].tree = wt[t].tree
         /\ \A x \in Tasks \ {t} : wt'[x] = wt[x]
  <1>1. wt' \in [Tasks -> WtRec]
    <2>1. PICK w : w = [wt[t] EXCEPT !.known = k, !.why = y]
      OBVIOUS
    <2>2. w \in WtRec
      BY <2>1 DEF WtRec
    <2>3. wt' = [wt EXCEPT ![t] = w]
      BY <2>1
    <2>. QED
      BY <2>2, <2>3
  <1>2. wt'[t].st = wt[t].st /\ wt'[t].tree = wt[t].tree
    BY DEF WtRec
  <1>3. \A x \in Tasks \ {t} : wt'[x] = wt[x]
    OBVIOUS
  <1>. QED
    BY <1>1, <1>2, <1>3

\* A worktree record replaces another.
LEMMA WtReplaced ==
  ASSUME wt \in [Tasks -> WtRec], NEW t \in Tasks, NEW w \in WtRec,
         wt' = [wt EXCEPT ![t] = w]
  PROVE  /\ wt' \in [Tasks -> WtRec] /\ wt'[t] = w
         /\ \A x \in Tasks \ {t} : wt'[x] = wt[x]
  OBVIOUS

\* An integration gets a status.
LEMMA LiveSet ==
  ASSUME integ \in [Tasks -> IntegRec], NEW t \in Tasks, NEW s \in Live,
         integ' = [integ EXCEPT ![t].live = s]
  PROVE  /\ integ' \in [Tasks -> IntegRec] /\ integ'[t].live = s
         /\ \A x \in Tasks \ {t} : integ'[x] = integ[x]
  BY DEF IntegRec

\* A worktree is retained.
LEMMA Retained ==
  ASSUME NEW w \in WtRec
  PROVE  /\ Retain(w) \in WtRec /\ Retain(w).tree = w.tree
         /\ Retain(w).st \in {w.st, "retained"}
  BY DEF WtRec, WtStatus, Retain

\* The catch of executeWorker keeps the content of the worktree.
LEMMA CaughtKeeps ==
  ASSUME wt \in [Tasks -> WtRec], NEW t \in Tasks, Caught(t)
  PROVE  /\ wt' \in [Tasks -> WtRec] /\ wt'[t].tree = wt[t].tree
         /\ wt'[t].st \in {wt[t].st, "retained", "failed"}
         /\ \A x \in Tasks \ {t} : wt'[x] = wt[x]
  <1>1. PICK q : q = IF task[t] = "completed" /\ wt[t].st = "active"
                     THEN [wt[t] EXCEPT !.st = "failed", !.why = "none"]
                     ELSE Retain(wt[t])
    OBVIOUS
  <1>2. /\ q \in WtRec /\ q.tree = wt[t].tree
        /\ q.st \in {wt[t].st, "retained", "failed"}
    <2>1. CASE q = Retain(wt[t])
      BY <2>1, Retained
    <2>2. CASE q = [wt[t] EXCEPT !.st = "failed", !.why = "none"]
      <3>1. PICK r \in WtRec : r = wt[t]
        OBVIOUS
      <3>2. PICK s \in WtStatus, y \in {"none", "resumable", "fresh"} :
              s = "failed" /\ y = "none"
        BY DEF WtStatus
      <3>3. q = [r EXCEPT !.st = s, !.why = y]
        BY <2>2, <3>1, <3>2
      <3>4. q \in WtRec /\ q.st = s /\ q.tree = r.tree
        BY <3>3 DEF WtRec
      <3>. QED
        BY <3>1, <3>2, <3>4
    <2>. QED
      BY <1>1, <2>1, <2>2
  <1>3. wt' = [wt EXCEPT ![t] = q]
    BY <1>1 DEF Caught
  <1>. QED
    BY <1>2, <1>3

-----------------------------------------------------------------------------
USE DeliveryAssumption, NamesAssumption

(* The order of the integrations. *)

\* A set of naturals has a least element.
LEMMA LeastNatural ==
  ASSUME NEW S, S \subseteq Nat, S # {}
  PROVE  \E m \in S : \A n \in S : m <= n
  <1>. DEFINE R == OpToRel(<, Nat)
  <1>1. IsWellFoundedOn(R, Nat)
    BY NatLessThanWellFounded
  <1>. HIDE DEF R
  <1>2. PICK m \in S : \A n \in S : ~(<<n, m>> \in R)
    BY <1>1, WFMin
  <1>3. ASSUME NEW n \in S PROVE m <= n
    <2>1. ~(<<n, m>> \in R) /\ m \in Nat /\ n \in Nat
      BY <1>2
    <2>2. ~(n < m)
      BY <2>1 DEF R, OpToRel
    <2>. QED
      BY <2>1, <2>2
  <1>. QED
    BY <1>3

\* The first task of a set in graph order is one of the set.
LEMMA FirstIsMember ==
  ASSUME NEW S \in SUBSET Tasks, S # {}
  PROVE  First(S) \in S
  <1>. DEFINE I == {i \in DOMAIN Order : Order[i] \in S}
              IsFirst(t) == \E i \in DOMAIN Order :
                 Order[i] = t /\ \A j \in DOMAIN Order : Order[j] \in S => i <= j
  <1>1. I \subseteq Nat /\ I # {}
    <2>1. DOMAIN Order = 1..Len(Order) /\ Len(Order) \in Nat
      BY DeliveryAssumption
    <2>2. PICK t \in Tasks : t \in S
      OBVIOUS
    <2>3. PICK k \in 1..Len(Order) : Order[k] = t
      BY <2>2, DeliveryAssumption
    <2>4. I \subseteq Nat
      BY <2>1
    <2>5. k \in I
      BY <2>1, <2>2, <2>3
    <2>. QED
      BY <2>4, <2>5
  <1>2. PICK m \in I : \A n \in I : m <= n
    <2>. HIDE DEF I
    <2>. QED
      BY <1>1, LeastNatural
  <1>3. \A j \in DOMAIN Order : Order[j] \in S => m <= j
    BY <1>2
  <1>4. Order[m] \in S /\ IsFirst(Order[m])
    BY <1>2, <1>3
  <1>5. (CHOOSE t \in S : IsFirst(t)) \in S
    <2>. HIDE DEF IsFirst
    <2>. QED
      BY <1>4
  <1>. QED
    BY <1>5 DEF First

\* The task whose integration is in progress.
LEMMA CurrentIsQueued ==
  ASSUME TypeOK, queue # {}
  PROVE  Current \in queue /\ Current \in Tasks
  BY FirstIsMember DEF TypeOK, Current

-----------------------------------------------------------------------------
(* The target branch. *)

\* What is delivered changes only with the target.
LEMMA SameTarget ==
  ASSUME UNCHANGED log
  PROVE  \A t : Delivered(t)' <=> Delivered(t)
  BY DEF Delivered, ContentAt

\* One commit is added to the target.
LEMMA Appended ==
  ASSUME NEW l \in Seq(Tasks \cup {Edit}), NEW x \in Tasks \cup {Edit}, NEW b,
         b = Append(l, x)
  PROVE  /\ b \in Seq(Tasks \cup {Edit}) /\ Len(b) = Len(l) + 1
         /\ Len(l) \in Nat
         /\ \A k \in 1..Len(l) : b[k] = l[k]
         /\ b[Len(l) + 1] = x
  OBVIOUS

\* Then what is delivered grows by it.
LEMMA DeliveredGrows ==
  ASSUME log \in Seq(Tasks \cup {Edit}), NEW x \in Tasks \cup {Edit},
         log' = Append(log, x)
  PROVE  \A t : Delivered(t)' <=> Delivered(t) \/ t = x
  <1>1. PICK b : b = log'
    OBVIOUS
  <1>2. /\ Len(b) = Len(log) + 1 /\ Len(log) \in Nat
        /\ \A k \in 1..Len(log) : b[k] = log[k]
        /\ b[Len(log) + 1] = x
    BY <1>1, Appended
  <1>3. ASSUME NEW t
        PROVE  (\E k \in 1..Len(b) : b[k] = t)
                 <=> (\E k \in 1..Len(log) : log[k] = t) \/ t = x
    <2>1. ASSUME NEW k \in 1..Len(b), b[k] = t
          PROVE  (\E j \in 1..Len(log) : log[j] = t) \/ t = x
      <3>1. CASE k \in 1..Len(log)
        BY <1>2, <2>1, <3>1
      <3>2. CASE k = Len(log) + 1
        BY <1>2, <2>1, <3>2
      <3>3. PICK n \in Nat : n = Len(log)
        BY <1>2
      <3>4. k \in 1..(n + 1)
        BY <1>2, <3>3
      <3>5. k \in 1..n \/ k = n + 1
        BY <3>4
      <3>. QED
        BY <3>1, <3>2, <3>3, <3>5
    <2>2. ASSUME NEW k \in 1..Len(log), log[k] = t
          PROVE  \E j \in 1..Len(b) : b[j] = t
      BY <1>2, <2>2
    <2>3. ASSUME t = x PROVE \E j \in 1..Len(b) : b[j] = t
      <3>1. Len(log) + 1 \in 1..Len(b)
        BY <1>2
      <3>. QED
        BY <1>2, <2>3, <3>1
    <2>. QED
      BY <2>1, <2>2, <2>3
  <1>4. \A t : Delivered(t) <=> \E k \in 1..Len(log) : log[k] = t
    BY DEF Delivered, ContentAt
  <1>5. \A t : Delivered(t)' <=> \E k \in 1..Len(b) : b[k] = t
    BY <1>1 DEF Delivered, ContentAt
  <1>. QED
    BY <1>3, <1>4, <1>5

\* A target that holds no task twice holds at most every task and the commits
\* of others.
LEMMA TargetBounded ==
  ASSUME NEW l \in Seq(Tasks \cup {Edit}),
         \A j, k \in 1..Len(l) : l[j] = l[k] /\ l[j] # Edit => j = k,
         Cardinality({k \in 1..Len(l) : l[k] = Edit}) <= MaxEdits
  PROVE  Len(l) \in Heads
  <1>. DEFINE E == {k \in 1..Len(l) : l[k] = Edit}
              K == {k \in 1..Len(l) : l[k] \in Tasks}
              f == [k \in K |-> l[k]]
  <1>1. Len(l) \in Nat /\ IsFiniteSet(1..Len(l)) /\ Cardinality(1..Len(l)) = Len(l)
    <2>1. Len(l) \in Nat
      OBVIOUS
    <2>. QED
      BY <2>1, FS_Interval
  <1>2. IsFiniteSet(E) /\ IsFiniteSet(K)
    BY <1>1, FS_Subset
  <1>3. Cardinality(K) <= Cardinality(Tasks)
    <2>1. f \in Injection(K, Tasks)
      BY DEF Injection, IsInjective
    <2>. HIDE DEF f, K
    <2>. QED
      BY <2>1, FS_Injection
  <1>4. E \cup K = 1..Len(l)
    OBVIOUS
  <1>5. /\ Cardinality(E) \in Nat /\ Cardinality(K) \in Nat
        /\ Cardinality(E \cap K) \in Nat /\ Cardinality(Tasks) \in Nat
    BY <1>2, FS_CardinalityType, FS_Intersection
  <1>6. Len(l) = Cardinality(E) + Cardinality(K) - Cardinality(E \cap K)
    <2>. HIDE DEF E, K
    <2>. QED
      BY <1>1, <1>2, <1>4, FS_Union
  <1>7. Len(l) <= MaxEdits + Cardinality(Tasks)
    <2>1. Cardinality(E) <= MaxEdits
      OBVIOUS
    <2>. HIDE DEF E, K
    <2>2. PICK e, k, i, c, n \in Nat :
            /\ e = Cardinality(E) /\ k = Cardinality(K)
            /\ i = Cardinality(E \cap K) /\ c = Cardinality(Tasks) /\ n = Len(l)
      BY <1>1, <1>5
    <2>3. e <= MaxEdits /\ k <= c /\ n = e + k - i
      BY <1>3, <1>6, <2>1, <2>2
    <2>4. n <= MaxEdits + c
      BY <2>3
    <2>. QED
      BY <2>2, <2>4
  <1>. QED
    BY <1>1, <1>5, <1>7 DEF Heads

\* A task or a commit of others is merged.
LEMMA TargetGrows ==
  ASSUME TypeOK, TargetInv, NEW x \in Tasks \cup {Edit}, log' = Append(log, x),
         x \in Tasks => ~Delivered(x),
         x = Edit => Cardinality({k \in 1..Len(log) : log[k] = Edit}) < MaxEdits
  PROVE  /\ \A j, k \in 1..Len(log') : log'[j] = log'[k] /\ log'[j] # Edit => j = k
         /\ Cardinality({k \in 1..Len(log') : log'[k] = Edit}) <= MaxEdits
         /\ log' \in Seq(Tasks \cup {Edit}) /\ Len(log') \in Heads
         /\ Len(log) \in Nat /\ Len(log') = Len(log) + 1
  <1>. DEFINE E == {k \in 1..Len(log) : log[k] = Edit}
  <1>1. PICK b : b = log'
    OBVIOUS
  <1>2. /\ b \in Seq(Tasks \cup {Edit}) /\ Len(b) = Len(log) + 1
        /\ Len(log) \in Nat
        /\ \A k \in 1..Len(log) : b[k] = log[k]
        /\ b[Len(log) + 1] = x
    <2>1. log \in Seq(Tasks \cup {Edit}) /\ b = Append(log, x)
      BY <1>1 DEF TypeOK
    <2>. QED
      BY <2>1, Appended
  <1>3. \A j, k \in 1..Len(b) : b[j] = b[k] /\ b[j] # Edit => j = k
    <2>1. x # Edit => \A k \in 1..Len(log) : log[k] # x
      BY DEF Delivered, ContentAt
    <2>2. \A k \in 1..Len(b) : k \in 1..Len(log) \/ k = Len(log) + 1
      BY <1>2
    <2>3. \A j, k \in 1..Len(log) : log[j] = log[k] /\ log[j] # Edit => j = k
      BY DEF TargetInv
    <2>. QED
      BY <1>2, <2>1, <2>2, <2>3
  <1>4. Cardinality({k \in 1..Len(b) : b[k] = Edit}) <= MaxEdits
    <2>1. IsFiniteSet(E) /\ Cardinality(E) \in Nat
      <3>1. IsFiniteSet(1..Len(log))
        BY <1>2, FS_Interval
      <3>2. IsFiniteSet(E)
        BY <3>1, FS_Subset
      <3>. HIDE DEF E
      <3>. QED
        BY <3>2, FS_CardinalityType
    <2>2. CASE x = Edit
      <3>1. {k \in 1..Len(b) : b[k] = Edit} = E \cup {Len(log) + 1}
        BY <1>2, <2>2
      <3>2. Len(log) + 1 \notin E
        BY <1>2
      <3>3. Cardinality(E \cup {Len(log) + 1}) = Cardinality(E) + 1
        <4>. HIDE DEF E
        <4>. QED
          BY <2>1, <3>2, FS_AddElement
      <3>4. Cardinality(E) < MaxEdits
        BY <2>2
      <3>. HIDE DEF E
      <3>5. Cardinality(E) + 1 <= MaxEdits
        BY <2>1, <3>4
      <3>. QED
        BY <3>1, <3>3, <3>5
    <2>3. CASE x # Edit
      <3>1. {k \in 1..Len(b) : b[k] = Edit} = E
        BY SMTT(30), <1>2, <2>3
      <3>2. Cardinality(E) <= MaxEdits
        BY DEF TargetInv
      <3>. QED
        BY <3>1, <3>2
    <2>. QED
      BY <2>2, <2>3
  <1>5. Len(b) \in Heads
    BY <1>2, <1>3, <1>4, TargetBounded
  <1>. QED
    BY <1>1, <1>2, <1>3, <1>4, <1>5

-----------------------------------------------------------------------------
(* The ways in which the records change. *)

\* The command moves on: no record changes.
LEMMA RecordsSame ==
  ASSUME Inv, UNCHANGED <<task, wt, integ, log, unmerged, gated>>,
         run' = run \/ run' # "completed" \/ \A t \in Tasks : Delivered(t),
         seen' \in {seen, 0, Len(log)}
  PROVE  DurableInv'
  <1>1. \A t : Delivered(t)' <=> Delivered(t)
    BY SameTarget
  <1>2. seen' <= Len(log)
    <2>1. log \in Seq(Tasks \cup {Edit}) /\ seen <= Len(log)
      BY DEF Inv, DurableInv, TargetInv, TypeOK
    <2>2. Len(log) \in Nat
      BY <2>1
    <2>. QED
      BY <2>1, <2>2
  <1>3. TargetInv'
    BY <1>1, <1>2 DEF Inv, DurableInv, TargetInv, Mergeable
  <1>4. RecordInv' /\ PassedIsApproved' /\ WorkIsKept'
    BY <1>1 DEF Inv, DurableInv, RecordInv, PassedIsApproved, WorkIsKept
  <1>5. CompletedRunIsDelivered'
    BY <1>1 DEF Inv, DurableInv, CompletedRunIsDelivered
  <1>. QED
    BY <1>3, <1>4, <1>5 DEF DurableInv

\* The records of one task change, and the target does not.
LEMMA RecordsMove ==
  ASSUME Inv, NEW t \in Tasks,
         \A x \in Tasks \ {t} :
            task'[x] = task[x] /\ wt'[x] = wt[x] /\ integ'[x] = integ[x],
         UNCHANGED <<run, log, unmerged, seen>>, gated \subseteq gated',
         Mergeable(t)' => Mergeable(t),
         task'[t] # "completed" => integ'[t].live = "none",
         wt'[t].st \in {"integrated", "removed"} => Delivered(t),
         integ'[t].live = "passed" =>
            Delivered(t) /\ (t \in Verified => t \in gated'),
         task'[t] = "completed" =>
            \/ Delivered(t)
            \/ wt'[t].st \notin {"none", "removed"} /\ wt'[t].tree # "base"
  PROVE  DurableInv'
  <1>1. \A x : Delivered(x)' <=> Delivered(x)
    BY SameTarget
  <1>2. \A x \in Tasks : Mergeable(x)' => Mergeable(x)
    BY DEF Mergeable
  <1>3. TargetInv'
    BY <1>1, <1>2 DEF Inv, DurableInv, TargetInv
  <1>4. RecordInv' /\ PassedIsApproved' /\ WorkIsKept'
    BY ZenonT(30), <1>1 DEF Inv, DurableInv, RecordInv, PassedIsApproved, WorkIsKept
  <1>5. CompletedRunIsDelivered'
    BY <1>1 DEF Inv, DurableInv, CompletedRunIsDelivered
  <1>. QED
    BY <1>3, <1>4, <1>5 DEF DurableInv

\* Something is merged into the target.
LEMMA RecordsMerged ==
  ASSUME Inv, NEW x \in Tasks \cup {Edit}, log' = Append(log, x),
         x \in Tasks => ~Delivered(x) /\ ~Mergeable(x),
         x = Edit => Cardinality({k \in 1..Len(log) : log[k] = Edit}) < MaxEdits,
         unmerged' \in {unmerged, None}, unmerged' # x,
         UNCHANGED <<run, task, wt, integ, seen, gated>>
  PROVE  DurableInv' /\ log' \in Seq(Tasks \cup {Edit}) /\ Len(log') \in Heads
  <1>1. TypeOK /\ TargetInv /\ log \in Seq(Tasks \cup {Edit})
    BY DEF Inv, DurableInv, TypeOK
  <1>2. /\ \A j, k \in 1..Len(log') : log'[j] = log'[k] /\ log'[j] # Edit => j = k
        /\ Cardinality({k \in 1..Len(log') : log'[k] = Edit}) <= MaxEdits
        /\ log' \in Seq(Tasks \cup {Edit}) /\ Len(log') \in Heads
        /\ Len(log) \in Nat /\ Len(log') = Len(log) + 1
    BY <1>1, TargetGrows
  <1>3. \A t : Delivered(t)' <=> Delivered(t) \/ t = x
    BY <1>1, DeliveredGrows
  <1>4. seen' <= Len(log')
    <2>1. seen \in Nat /\ seen <= Len(log)
      BY <1>1 DEF TypeOK, TargetInv, Heads
    <2>. QED
      BY <1>2, <2>1
  <1>5. \A t \in Tasks : (Delivered(t) \/ t = unmerged => ~Mergeable(t))'
    BY <1>1, <1>3 DEF TargetInv, Mergeable
  <1>6. (unmerged # None => ~Delivered(unmerged))'
    BY <1>1, <1>3 DEF TargetInv
  <1>7. TargetInv'
    BY <1>2, <1>4, <1>5, <1>6 DEF TargetInv
  <1>8. RecordInv' /\ PassedIsApproved' /\ WorkIsKept'
    BY <1>3 DEF Inv, DurableInv, RecordInv, PassedIsApproved, WorkIsKept
  <1>9. CompletedRunIsDelivered'
    BY <1>3 DEF Inv, DurableInv, CompletedRunIsDelivered
  <1>. QED
    BY <1>2, <1>7, <1>8, <1>9 DEF DurableInv

-----------------------------------------------------------------------------
(* The actions. *)

\* Nothing has happened yet.
LEMMA InitInv == ASSUME Init PROVE Inv
  <1>1. 0 \in Heads /\ Len(<<>>) = 0 /\ 0 \in 0..MaxDispatches /\ 0 \in 0..MaxStarts
    <2>1. Cardinality(Tasks) \in Nat
      BY FS_CardinalityType
    <2>. QED
      BY <2>1 DEF Heads
  <1>2. NoWt \in WtRec /\ NoInteg \in IntegRec /\ NoAt \in AtRec
    BY <1>1 DEF NoWt, NoInteg, NoAt, WtRec, IntegRec, AtRec, WtStatus, Live
  <1>3. wt \in [Tasks -> WtRec] /\ integ \in [Tasks -> IntegRec] /\ at \in AtRec
    BY <1>2 DEF Init
  <1>4. TypeOK
    <2>1. /\ log \in Seq(Tasks \cup {Edit}) /\ Len(log) \in Heads
          /\ seen \in Heads /\ expected \in Heads
          /\ started \in 0..MaxDispatches /\ starts \in 0..MaxStarts
      BY <1>1 DEF Init
    <2>2. /\ pc \in Pcs /\ step \in Steps /\ stage \in [Tasks -> Stages]
          /\ task \in [Tasks -> {"pending", "active", "interrupted", "failed",
                                "completed"}]
          /\ claim \in [Tasks -> {"free", "mine", "dead"}]
      BY DEF Init, Pcs, Steps, Stages
    <2>. QED
      BY <1>3, <2>1, <2>2 DEF Init, TypeOK, WtRec, IntegRec, AtRec
  <1>5. \A t : ~Delivered(t)
    BY DEF Init, Delivered, ContentAt
  <1>6. Cardinality({k \in 1..Len(log) : log[k] = Edit}) <= MaxEdits
    <2>1. {k \in 1..Len(log) : log[k] = Edit} = {}
      BY DEF Init
    <2>2. Cardinality({}) = 0 /\ 0 <= MaxEdits
      BY FS_EmptySet
    <2>. QED
      BY <2>1, <2>2
  <1>7. \A t \in Tasks : /\ integ[t].live = "none" /\ wt[t].st = "none"
                         /\ task[t] = "pending"
    BY DEF Init, NoInteg, NoWt
  <1>8. TargetInv
    BY <1>1, <1>5, <1>6 DEF Init, TargetInv
  <1>9. RecordInv /\ PassedIsApproved /\ WorkIsKept /\ CompletedRunIsDelivered
    BY <1>7 DEF Init, RecordInv, PassedIsApproved, WorkIsKept,
                CompletedRunIsDelivered
  <1>10. PlaceInv
    BY DEF Init, PlaceInv, RecoveryInv, WorkerInv, IntegrationInv
  <1>. QED
    BY <1>4, <1>8, <1>9, <1>10 DEF Inv, DurableInv

\* The command ends, with or without its claims.
LEMMA ForgetStep ==
  ASSUME Inv, NEW c \in {"free", "dead"}, Forget(c),
         run' \in {"open", "completed", "failed"},
         run' = run \/ run' # "completed" \/ \A t \in Tasks : Delivered(t),
         UNCHANGED <<task, wt, integ, log, unmerged, gated, starts>>
  PROVE  Inv'
  <1>1. 0 \in Heads /\ 0 \in 0..MaxDispatches
    <2>1. Cardinality(Tasks) \in Nat
      BY FS_CardinalityType
    <2>. QED
      BY <2>1 DEF Heads
  <1>2. NoAt \in AtRec
    BY DEF NoAt, AtRec
  <1>3. TypeOK'
    BY <1>1, <1>2 DEF Inv, TypeOK, Forget, AtRec, Pcs, Steps, Stages
  <1>4. DurableInv'
    BY RecordsSame DEF Forget
  <1>5. PlaceInv'
    BY DEF Forget, PlaceInv, RecoveryInv, WorkerInv, IntegrationInv
  <1>. QED
    BY <1>3, <1>4, <1>5 DEF Inv

\* A run is settled as completed only when every task is delivered.
LEMMA SettleStep == ASSUME Inv, Settle PROVE Inv'
  <1>1. ASSUME run' = "completed", run # "completed", NEW t \in Tasks
        PROVE  Delivered(t)
    <2>1. task[t] = "completed" /\ ~DeliveryBlocker(t)
      BY <1>1 DEF Settle
    <2>2. \/ wt[t].st = "none" \/ integ[t].live = "passed"
          \/ wt[t].st \in {"integrated", "removed"}
      BY <2>1 DEF DeliveryBlocker
    <2>. QED
      BY <2>1, <2>2 DEF Inv, DurableInv, WorkIsKept, PassedIsApproved, RecordInv
  <1>2. run' \in {"open", "completed", "failed"}
    BY DEF Settle
  <1>. QED
    BY <1>1, <1>2, ForgetStep DEF Settle

\* It is ended by an error or dies.
LEMMA CommandEndsStep == ASSUME Inv, Throws \/ Crash PROVE Inv'
  <1>1. run \in {"open", "completed", "failed"}
    BY DEF Inv, TypeOK
  <1>. QED
    BY <1>1, ForgetStep DEF Throws, Crash

\* A command starts and recovers the claims.
LEMMA RecoveryBeginsStep == ASSUME Inv, Start \/ RecClaims PROVE Inv'
  <1>1. TypeOK'
    <2>1. CASE Start
      <3>1. starts \in 0..MaxStarts /\ starts < MaxStarts /\ Len(log) \in Heads
        BY <2>1 DEF Inv, TypeOK, Start
      <3>2. starts + 1 \in 0..MaxStarts
        BY <3>1
      <3>3. pc' \in Pcs
        BY <2>1 DEF Start, Pcs
      <3>. QED
        BY <2>1, <3>1, <3>2, <3>3 DEF Inv, TypeOK, Start
    <2>2. CASE RecClaims
      <3>1. PICK S \in SUBSET {t \in Tasks : claim[t] = "dead"} :
              /\ claim' = [t \in Tasks |-> IF t \in S THEN "free" ELSE claim[t]]
              /\ rec' = S
        BY <2>2 DEF RecClaims
      <3>2. claim' \in [Tasks -> {"free", "mine", "dead"}] /\ rec' \subseteq Tasks
        BY <3>1 DEF Inv, TypeOK
      <3>3. pc' \in Pcs
        BY <2>2 DEF RecClaims, Pcs
      <3>. QED
        BY <2>2, <3>2, <3>3 DEF Inv, TypeOK, RecClaims
    <2>. QED
      BY <2>1, <2>2
  <1>2. DurableInv'
    BY RecordsSame DEF Start, RecClaims
  <1>3. PlaceInv'
    <2>1. CASE Start
      BY <2>1 DEF Inv, PlaceInv, RecoveryInv, WorkerInv, IntegrationInv, Start
    <2>2. CASE RecClaims
      BY <2>2 DEF Inv, PlaceInv, RecoveryInv, WorkerInv, IntegrationInv, RecClaims
    <2>. QED
      BY <2>1, <2>2
  <1>. QED
    BY <1>1, <1>2, <1>3 DEF Inv

\* The task of a recovered claim is interrupted.
LEMMA RecTaskStep == ASSUME Inv, NEW t \in Tasks, RecTask(t) PROVE Inv'
  <1>1. at' \in AtRec /\ at'.t = t
    <2>1. at' = [t |-> t, was |-> (task[t] = "active"), to |-> None]
      BY DEF RecTask, NoAt
    <2>. QED
      BY <2>1 DEF AtRec
  <1>2. /\ task' \in [Tasks -> {"pending", "active", "interrupted", "failed",
                                "completed"}]
        /\ \A x \in Tasks \ {t} : task'[x] = task[x]
        /\ task'[t] = "completed" <=> task[t] = "completed"
    BY SMTT(30) DEF Inv, TypeOK, RecTask
  <1>3. TypeOK'
    BY <1>1, <1>2 DEF Inv, TypeOK, AtRec, RecTask
  <1>4. DurableInv'
    BY <1>2, RecordsMove DEF Inv, DurableInv, RecordInv, PassedIsApproved,
       WorkIsKept, Mergeable, RecTask
  <1>5. PlaceInv'
    BY <1>1 DEF Inv, PlaceInv, RecoveryInv, WorkerInv, IntegrationInv, RecTask
  <1>. QED
    BY <1>3, <1>4, <1>5 DEF Inv

\* Its worktree is marked or retained, and keeps its content.
LEMMA RecWorktreeStep == ASSUME Inv, RecWorktree PROVE Inv'
  <1>1. PICK t \in Tasks : t = at.t
    BY DEF Inv, PlaceInv, RecoveryInv, RecWorktree
  <1>. DEFINE interrupted == task[t] = "interrupted"
              resumable == /\ wt[t].st = "active"
                           /\ at.was \/ (interrupted /\ wt[t].why = "resumable")
              given_up == wt[t].st \in {"active", "preparing"} /\ ~resumable
              anew == given_up /\ interrupted
  <1>2. wt \in [Tasks -> WtRec]
    BY DEF Inv, TypeOK, WtRec
  <1>3. PICK s : s = IF given_up THEN "retained" ELSE wt[t].st
    OBVIOUS
  <1>4. PICK y : y = IF resumable THEN "resumable"
                     ELSE IF anew THEN "fresh" ELSE wt[t].why
    OBVIOUS
  <1>5. s \in WtStatus /\ y \in {"none", "resumable", "fresh"}
    <2>1. wt[t].st \in WtStatus /\ wt[t].why \in {"none", "resumable", "fresh"}
      BY <1>2 DEF WtRec
    <2>2. s \in {"retained", wt[t].st} /\ y \in {"resumable", "fresh", wt[t].why}
      BY <1>3, <1>4
    <2>. QED
      BY <2>1, <2>2 DEF WtStatus
  <1>6. wt' = [wt EXCEPT ![t].st = s, ![t].why = y]
    BY <1>1, <1>3, <1>4 DEF RecWorktree
  <1>7. resumed' \subseteq resumed \cup {t} /\ (t \in resumed' => t \in resumed \/ resumable)
        /\ fresh' \subseteq fresh \cup {t}
    BY <1>1 DEF RecWorktree
  <1>8. s \in {wt[t].st, "retained"} /\ (resumable => wt[t].st = "active")
    BY <1>3
  <1>9. /\ wt' \in [Tasks -> WtRec]
        /\ wt'[t].st = s /\ wt'[t].tree = wt[t].tree
        /\ \A x \in Tasks \ {t} : wt'[x] = wt[x]
    BY <1>2, <1>5, <1>6, WtStatusMarkSet
  <1>10. /\ at' = NoAt /\ pc = "tasks"
         /\ UNCHANGED <<run, task, integ, claim, log, unmerged, rec, pc, seen,
              blocked, started, failure, stage, only, integration, starts>>
    BY DEF RecWorktree
  <1>. HIDE DEF resumable, given_up, anew, interrupted
  <1>11. TypeOK'
    <2>1. NoAt \in AtRec
      BY DEF NoAt, AtRec
    <2>2. resumed' \subseteq Tasks /\ fresh' \subseteq Tasks
      BY SMTT(30), <1>7 DEF Inv, TypeOK
    <2>3. wt' \in [Tasks -> WtRec] /\ at' \in AtRec
      BY <1>9, <1>10, <2>1
    <2>. QED
      BY <1>10, <2>2, <2>3 DEF Inv, TypeOK, AtRec, WtRec
  <1>12. DurableInv'
    BY <1>8, <1>9, <1>10, RecordsMove DEF Inv, DurableInv, RecordInv,
       PassedIsApproved, WorkIsKept, Mergeable
  <1>13. PlaceInv'
    <2>1. ASSUME NEW x \in resumed' PROVE wt'[x].st # "none"
      <3>1. x \in Tasks /\ (x \in resumed => wt[x].st # "none")
        BY <1>7, <2>1 DEF Inv, TypeOK, PlaceInv, RecoveryInv
      <3>2. CASE x = t
        BY <1>7, <1>8, <1>9, <2>1, <3>1, <3>2
      <3>3. CASE x # t
        BY <1>7, <1>9, <2>1, <3>1, <3>3
      <3>. QED
        BY <3>2, <3>3
    <2>. QED
      BY <1>10, <2>1 DEF PlaceInv, RecoveryInv, WorkerInv, IntegrationInv
  <1>. QED
    BY <1>11, <1>12, <1>13 DEF Inv

\* The marks are read, and the recovery goes on or ends.
LEMMA RecoveryGoesOnStep == ASSUME Inv, RecMarks \/ RecEnds PROVE Inv'
  <1>1. resumed' \subseteq Tasks /\ fresh' \subseteq Tasks
        /\ \A t \in resumed' : wt[t].st # "none"
    BY DEF Inv, TypeOK, PlaceInv, RecoveryInv, RecMarks, RecEnds
  <1>2. TypeOK'
    <2>1. pc' \in Pcs
      BY DEF RecMarks, RecEnds, Pcs
    <2>2. UNCHANGED <<durable, rec, at, seen, blocked, started, failure, stage,
                      only, integration, starts>>
      BY DEF RecMarks, RecEnds
    <2>. QED
      BY <1>1, <2>1, <2>2 DEF Inv, TypeOK
  <1>3. DurableInv'
    BY RecordsSame DEF RecMarks, RecEnds
  <1>4. PlaceInv'
    BY <1>1 DEF Inv, PlaceInv, RecoveryInv, WorkerInv, IntegrationInv,
       RecMarks, RecEnds
  <1>. QED
    BY <1>2, <1>3, <1>4 DEF Inv

\* An integration in flight is passed when its change is there and needs no
\* gate, and tried again only when nothing was merged.
LEMMA RecIntegrationStep ==
  ASSUME Inv, NEW t \in Tasks, RecIntegration(t) PROVE Inv'
  <1>. DEFINE To(d) == IF ProvenPassed(t) /\ ~d THEN "passed"
                       ELSE IF SafeRetry(t) /\ ~d THEN "safe"
                       ELSE IF integ[t].live = "running" /\ unmerged # None
                         THEN "conflicted" ELSE "paused"
  <1>0. PICK dirty \in BOOLEAN :
          /\ integ' = [integ EXCEPT ![t].live = To(dirty)]
          /\ at' = [NoAt EXCEPT !.t = t,
                !.to = IF To(dirty) = "conflicted" THEN To(dirty) ELSE "retained"]
    BY DEF RecIntegration
  <1>1. PICK to : to = To(dirty)
    OBVIOUS
  <1>2. /\ integ' = [integ EXCEPT ![t].live = to]
        /\ at' = [NoAt EXCEPT !.t = t,
                    !.to = IF to = "conflicted" THEN to ELSE "retained"]
    BY <1>0, <1>1
  <1>3. to \in {"passed", "safe", "conflicted", "paused"} /\ to \in Live
    BY <1>1 DEF Live
  <1>4. /\ integ' \in [Tasks -> IntegRec] /\ integ'[t].live = to
        /\ \A x \in Tasks \ {t} : integ'[x] = integ[x]
    <2>1. integ \in [Tasks -> IntegRec]
      BY DEF Inv, TypeOK, IntegRec
    <2>. QED
      BY <1>2, <1>3, <2>1, LiveSet
  <1>5. at' \in AtRec /\ at'.t = t /\ at'.to \in {"retained", "conflicted"}
    <2>1. PICK o \in {"retained", "conflicted"} :
            o = IF to = "conflicted" THEN to ELSE "retained"
      OBVIOUS
    <2>2. at' = [t |-> t, was |-> FALSE, to |-> o]
      BY <1>2, <2>1 DEF NoAt
    <2>. QED
      BY <2>2 DEF AtRec
  <1>6. to = "passed" => Delivered(t) /\ t \notin Verified
    <2>1. to = "passed" => t \in ContentAt(seen) /\ t \notin Verified
      BY <1>1 DEF ProvenPassed, PatchEquivalent
    <2>2. seen \in Nat /\ seen <= Len(log) /\ Len(log) \in Nat
      BY DEF Inv, TypeOK, DurableInv, TargetInv, Heads
    <2>3. 1..seen \subseteq 1..Len(log)
      BY <2>2
    <2>. QED
      BY <2>1, <2>3 DEF Delivered, ContentAt
  <1>7. to = "safe" => integ[t].live = "pending"
    BY <1>1 DEF SafeRetry
  <1>8. task[t] = "completed"
    BY DEF Inv, DurableInv, RecordInv, RecIntegration, InFlight
  <1>9. TypeOK'
    BY <1>4, <1>5 DEF Inv, TypeOK, IntegRec, AtRec, RecIntegration
  <1>10. DurableInv'
    <2>1. Mergeable(t)' => Mergeable(t)
      BY <1>3, <1>4, <1>7 DEF Mergeable
    <2>. QED
      BY <1>4, <1>6, <1>8, <2>1, RecordsMove DEF Inv, DurableInv, RecordInv,
         WorkIsKept, RecIntegration
  <1>11. PlaceInv'
    BY <1>5 DEF Inv, PlaceInv, RecoveryInv, WorkerInv, IntegrationInv,
       RecIntegration
  <1>. QED
    BY <1>9, <1>10, <1>11 DEF Inv

\* The worktree of a recovered integration is settled.
LEMMA RecSettledStep ==
  ASSUME Inv, RecIntegrationWorktree \/ \E t \in Tasks : RecPassed(t)
  PROVE  Inv'
  <1>1. PICK t \in Tasks, s \in {"retained", "conflicted"} :
           wt' = [wt EXCEPT ![t].st = s]
    <2>1. CASE RecIntegrationWorktree
      BY <2>1 DEF Inv, PlaceInv, RecoveryInv, RecIntegrationWorktree
    <2>2. CASE \E t \in Tasks : RecPassed(t)
      BY <2>2 DEF RecPassed
    <2>. QED
      BY <2>1, <2>2
  <1>2. /\ pc' = pc /\ pc = "integ"
        /\ UNCHANGED <<run, task, integ, claim, log, unmerged, rec, resumed,
             fresh, seen, blocked, started, failure, stage, only, integration,
             starts>>
    BY DEF RecIntegrationWorktree, RecPassed
  <1>3. at' \in AtRec /\ at' = NoAt
    <2>1. NoAt \in AtRec
      BY DEF NoAt, AtRec
    <2>2. at' = NoAt
      BY DEF RecIntegrationWorktree, RecPassed
    <2>. QED
      BY <2>1, <2>2
  <1>4. /\ wt' \in [Tasks -> WtRec]
        /\ wt'[t].st = s /\ wt'[t].tree = wt[t].tree
        /\ \A x \in Tasks \ {t} : wt'[x] = wt[x]
    <2>1. wt \in [Tasks -> WtRec] /\ s \in WtStatus
      BY DEF Inv, TypeOK, WtRec, WtStatus
    <2>. QED
      BY <1>1, <2>1, WtStatusSet
  <1>5. TypeOK'
    BY <1>2, <1>3, <1>4 DEF Inv, TypeOK, WtRec, AtRec
  <1>6. DurableInv'
    BY <1>2, <1>4, RecordsMove DEF Inv, DurableInv, RecordInv,
       PassedIsApproved, WorkIsKept, Mergeable
  <1>7. PlaceInv'
    <2>1. \A x \in resumed : x \in Tasks /\ wt[x].st # "none"
      BY DEF Inv, TypeOK, PlaceInv, RecoveryInv
    <2>2. \A x \in resumed' : wt'[x].st # "none"
      BY <1>2, <1>4, <2>1
    <2>. QED
      BY <1>2, <1>3, <2>2 DEF PlaceInv, RecoveryInv, WorkerInv, IntegrationInv
  <1>. QED
    BY <1>5, <1>6, <1>7 DEF Inv

\* The workers of a wave are dispatched.
LEMMA SnapshotStep ==
  ASSUME Inv, NEW W \in SUBSET Tasks, Snapshot(W) PROVE Inv'
  <1>1. /\ pc = "snapshot" /\ pc' = "wave" /\ seen' = Len(log)
        /\ started + Cardinality(W) <= MaxDispatches
        /\ started' = started + Cardinality(W)
        /\ resumed' = resumed \ W /\ fresh' = fresh \ W
        /\ claim' = [t \in Tasks |-> IF t \in W THEN "mine" ELSE claim[t]]
        /\ UNCHANGED <<run, task, wt, integ, log, unmerged, rec, at, blocked,
                       failure, integration, starts>>
    BY DEF Snapshot
  <1>. DEFINE now == {t \in W : PendingIsolatedWorktree(t)}
              existing == now \cup (resumed \cap W)
  <1>2. /\ only' = now
        /\ stage' = [t \in Tasks |-> IF t \in existing THEN "reopen"
                                     ELSE IF t \in W THEN "prepare"
                                     ELSE "idle"]
    BY DEF Snapshot
  <1>3. \A t \in W : PendingIsolatedWorktree(t) \/ Ready(t)
    BY DEF Snapshot, Dispatchable, Candidates
  <1>4. \A t \in W \ now : task[t] # "completed"
    BY <1>3 DEF Ready
  <1>5. \A t \in now : /\ task[t] = "completed" /\ wt[t].st # "none"
                       /\ integ[t].live \in {"none", "safe"}
    BY DEF PendingIsolatedWorktree
  <1>6. \A t \in Tasks : task[t] # "completed" => integ[t].live = "none"
    BY DEF Inv, DurableInv, RecordInv
  <1>7. \A t \in resumed : wt[t].st # "none"
    BY DEF Inv, PlaceInv, RecoveryInv
  <1>8. now \subseteq W
    OBVIOUS
  <1>. HIDE DEF now
  <1>9. started' \in 0..MaxDispatches
    <2>1. IsFiniteSet(W)
      BY FS_Subset
    <2>2. Cardinality(W) \in Nat
      BY <2>1, FS_CardinalityType
    <2>3. started \in Nat
      BY DEF Inv, TypeOK
    <2>. QED
      BY <1>1, <2>2, <2>3
  <1>10. TypeOK'
    <2>1. stage' \in [Tasks -> Stages]
      BY <1>2 DEF Stages
    <2>2. claim' \in [Tasks -> {"free", "mine", "dead"}]
      BY <1>1 DEF Inv, TypeOK
    <2>3. only' \subseteq Tasks /\ resumed' \subseteq Tasks /\ fresh' \subseteq Tasks
      BY <1>1, <1>2, <1>8 DEF Inv, TypeOK
    <2>4. pc' \in Pcs
      BY <1>1 DEF Pcs
    <2>. QED
      BY <1>1, <1>9, <2>1, <2>2, <2>3, <2>4 DEF Inv, TypeOK
  <1>11. DurableInv'
    BY <1>1, RecordsSame
  <1>12. WorkerInv'
    <2>1. \A t \in Tasks : stage'[t] # "idle" => t \in W
      BY <1>2, <1>8
    <2>2. \A t \in Tasks : stage'[t] \in {"reopen", "prepare", "idle"}
      BY <1>2
    <2>3. \A t \in Tasks : stage'[t] = "prepare" => t \in W \ now
      BY <1>2
    <2>4. \A t \in Tasks : stage'[t] = "reopen" => t \in now \/ (t \in resumed /\ t \in W)
      BY <1>2
    <2>. QED
      BY <1>1, <1>2, <1>4, <1>5, <1>6, <1>7, <2>1, <2>2, <2>3, <2>4 DEF WorkerInv
  <1>13. PlaceInv'
    BY <1>1, <1>12 DEF Inv, PlaceInv, RecoveryInv, IntegrationInv
  <1>. QED
    BY <1>10, <1>11, <1>13 DEF Inv

\* The command goes on to the next snapshot, or to its end.
LEMMA GoesOnStep == ASSUME Inv, SnapshotEnds \/ Release \/ IntEnds PROVE Inv'
  <1>1. /\ pc' \in {"settle", "snapshot", "release"}
        /\ pc \in {"snapshot", "release", "integrate"}
        /\ UNCHANGED <<run, task, wt, integ, log, unmerged, recovery, seen,
                       blocked, started, failure, integration, starts>>
    BY DEF SnapshotEnds, Release, IntEnds
  <1>2. TypeOK'
    <2>1. pc' \in Pcs
      BY <1>1 DEF Pcs
    <2>2. stage' \in [Tasks -> Stages] /\ only' \subseteq Tasks
      BY SMTT(30) DEF Inv, TypeOK, SnapshotEnds, Release, IntEnds, Stages
    <2>3. claim' \in [Tasks -> {"free", "mine", "dead"}]
      BY DEF Inv, TypeOK, SnapshotEnds, Release, IntEnds
    <2>. QED
      BY <1>1, <2>1, <2>2, <2>3 DEF Inv, TypeOK
  <1>3. DurableInv'
    BY <1>1, RecordsSame
  <1>4. PlaceInv'
    BY <1>1 DEF Inv, PlaceInv, RecoveryInv, WorkerInv, IntegrationInv
  <1>. QED
    BY <1>2, <1>3, <1>4 DEF Inv

\* Others commit to the target.
LEMMA OtherCommitStep == ASSUME Inv, OtherCommit PROVE Inv'
  <1>1. /\ log' = Append(log, Edit)
        /\ UNCHANGED <<run, task, wt, integ, claim, unmerged, stage, supervisor>>
    BY DEF OtherCommit
  <1>2. DurableInv' /\ log' \in Seq(Tasks \cup {Edit}) /\ Len(log') \in Heads
    <2>1. unmerged # Edit
      BY DEF Inv, TypeOK
    <2>. QED
      BY <1>1, <2>1, RecordsMerged DEF OtherCommit
  <1>3. TypeOK'
    BY <1>1, <1>2 DEF Inv, TypeOK
  <1>4. PlaceInv'
    <2>1. \A t : Delivered(t)' <=> Delivered(t) \/ t = Edit
      BY <1>1, DeliveredGrows DEF Inv, TypeOK
    <2>2. queue # {} => Current \in Tasks
      BY CurrentIsQueued DEF Inv
    <2>3. Current' = Current
      BY <1>1 DEF Current
    <2>4. IntegrationInv'
      BY <1>1, <2>1, <2>2, <2>3 DEF Inv, PlaceInv, IntegrationInv
    <2>. QED
      BY <1>1, <2>4 DEF Inv, PlaceInv, RecoveryInv, WorkerInv
  <1>. QED
    BY <1>2, <1>3, <1>4 DEF Inv

\* They end a conflict, with or without a merge.
LEMMA EndConflictStep == ASSUME Inv, EndConflict PROVE Inv'
  <1>1. /\ unmerged # None /\ unmerged' = None
        /\ UNCHANGED <<run, task, wt, integ, claim, stage, supervisor>>
    BY DEF EndConflict
  <1>2. queue # {} => Current \in Tasks
    BY CurrentIsQueued DEF Inv
  <1>3. Current' = Current
    BY <1>1 DEF Current
  <1>4. unmerged \in Tasks /\ ~Delivered(unmerged) /\ ~Mergeable(unmerged)
    BY <1>1 DEF Inv, TypeOK, DurableInv, TargetInv
  <1>5. CASE log' = log
    <2>1. \A t : Delivered(t)' <=> Delivered(t)
      BY <1>5, SameTarget
    <2>2. TypeOK'
      BY <1>1, <1>5 DEF Inv, TypeOK
    <2>3. TargetInv'
      BY <1>1, <1>5, <2>1 DEF Inv, DurableInv, TargetInv, Mergeable
    <2>4. DurableInv'
      BY <1>1, <2>1, <2>3 DEF Inv, DurableInv, RecordInv, PassedIsApproved,
         WorkIsKept, CompletedRunIsDelivered
    <2>5. IntegrationInv'
      BY <1>1, <1>2, <1>3, <2>1 DEF Inv, PlaceInv, IntegrationInv
    <2>6. PlaceInv'
      BY <1>1, <2>5 DEF Inv, PlaceInv, RecoveryInv, WorkerInv
    <2>. QED
      BY <2>2, <2>4, <2>6 DEF Inv
  <1>6. CASE log' = Append(log, unmerged)
    <2>1. \A t : Delivered(t)' <=> Delivered(t) \/ t = unmerged
      BY <1>4, <1>6, DeliveredGrows DEF Inv, TypeOK
    <2>2. DurableInv' /\ log' \in Seq(Tasks \cup {Edit}) /\ Len(log') \in Heads
      <3>1. unmerged # Edit
        BY <1>4
      <3>. QED
        BY <1>1, <1>4, <1>6, <3>1, RecordsMerged
    <2>3. TypeOK'
      BY <1>1, <2>2 DEF Inv, TypeOK
    <2>4. IntegrationInv'
      BY <1>1, <1>2, <1>3, <2>1 DEF Inv, PlaceInv, IntegrationInv
    <2>5. PlaceInv'
      BY <1>1, <2>4 DEF Inv, PlaceInv, RecoveryInv, WorkerInv
    <2>. QED
      BY <2>2, <2>3, <2>5 DEF Inv
  <1>. QED
    BY <1>5, <1>6 DEF EndConflict

-----------------------------------------------------------------------------
(* The workers. *)

\* What WorkerInv says of one worker
WorkerOf(t) ==
  /\ stage[t] # "idle" => integ[t].live \in {"none", "safe"}
  /\ stage[t] \in {"prepare", "adding", "execute", "running", "retain"} =>
       task[t] # "completed"
  /\ stage[t] \in {"finalize", "record", "ok"} => task[t] = "completed"
  /\ stage[t] = "reopen" => (task[t] = "completed" <=> t \in only)
  /\ stage[t] \in {"reopen", "execute", "running"} => wt[t].st # "none"
  /\ stage[t] = "running" => wt[t].tree # "base"

\* the work of a completed task is kept
KeptFor(t) ==
  task[t] = "completed" =>
     \/ Delivered(t)
     \/ wt[t].st \notin {"none", "removed"} /\ wt[t].tree # "base"

\* What is known where a worker is.
LEMMA AtWork ==
  ASSUME Inv, NEW t \in Tasks, Worker(t)
  PROVE  /\ WorkerOf(t) /\ integ[t].live \in {"none", "safe"} /\ KeptFor(t)
         /\ task[t] # "completed" => integ[t].live = "none"
         /\ wt[t].st \in {"integrated", "removed"} => Delivered(t)
         /\ wt \in [Tasks -> WtRec] /\ integ \in [Tasks -> IntegRec]
         /\ task \in [Tasks -> {"pending", "active", "interrupted", "failed",
                                "completed"}]
  <1>1. pc = "wave" /\ stage[t] # "idle"
    BY DEF Worker
  <1>2. WorkerOf(t) /\ integ[t].live \in {"none", "safe"}
    BY <1>1 DEF Inv, PlaceInv, WorkerInv, WorkerOf
  <1>3. KeptFor(t)
    BY DEF Inv, DurableInv, WorkIsKept, KeptFor
  <1>4. /\ task[t] # "completed" => integ[t].live = "none"
        /\ wt[t].st \in {"integrated", "removed"} => Delivered(t)
    BY DEF Inv, DurableInv, RecordInv
  <1>5. /\ wt \in [Tasks -> WtRec] /\ integ \in [Tasks -> IntegRec]
        /\ task \in [Tasks -> {"pending", "active", "interrupted", "failed",
                               "completed"}]
    BY DEF Inv, TypeOK, WtRec, IntegRec
  <1>. QED
    BY <1>2, <1>3, <1>4, <1>5

\* A worker takes a step: it writes the records of its own task.
LEMMA WorkerMoves ==
  ASSUME Inv, NEW t \in Tasks, Worker(t), NEW s \in Stages, Goes(t, s),
         UNCHANGED <<run, claim, log, unmerged, supervisor>>,
         task' \in [Tasks -> {"pending", "active", "interrupted", "failed",
                              "completed"}],
         wt' \in [Tasks -> WtRec], integ' \in [Tasks -> IntegRec],
         \A x \in Tasks \ {t} :
            task'[x] = task[x] /\ wt'[x] = wt[x] /\ integ'[x] = integ[x],
         wt[t].st # "none" => wt'[t].st # "none",
         wt'[t].st \in {"integrated", "removed"} => Delivered(t),
         integ'[t].live \in {"none", "safe"},
         task'[t] # "completed" => integ'[t].live = "none",
         KeptFor(t)', WorkerOf(t)'
  PROVE  Inv'
  <1>1. /\ stage' = [stage EXCEPT ![t] = s] /\ stage \in [Tasks -> Stages]
        /\ pc = "wave" /\ pc' = "wave"
    BY DEF Goes, Worker, Inv, TypeOK
  <1>2. stage' \in [Tasks -> Stages] /\ \A x \in Tasks \ {t} : stage'[x] = stage[x]
    BY <1>1
  <1>3. TypeOK'
    BY <1>2 DEF Inv, TypeOK, WtRec, IntegRec
  <1>4. DurableInv'
    <2>1. Mergeable(t)
      BY AtWork DEF Mergeable
    <2>2. KeptFor(t)' <=> (task'[t] = "completed" =>
            \/ Delivered(t)
            \/ wt'[t].st \notin {"none", "removed"} /\ wt'[t].tree # "base")
      BY SameTarget DEF KeptFor
    <2>. QED
      BY <2>1, <2>2, RecordsMove
  <1>5. WorkerInv'
    <2>1. \A x \in Tasks : WorkerOf(x)
      BY <1>1 DEF Inv, PlaceInv, WorkerInv, WorkerOf
    <2>2. ASSUME NEW x \in Tasks \ {t} PROVE WorkerOf(x)'
      <3>1. /\ stage'[x] = stage[x] /\ task'[x] = task[x] /\ wt'[x] = wt[x]
            /\ integ'[x] = integ[x] /\ only' = only
        BY <1>2
      <3>. QED
        BY <2>1, <3>1 DEF WorkerOf
    <2>3. \A x \in Tasks : WorkerOf(x)'
      BY <2>2
    <2>. QED
      BY <2>3 DEF WorkerInv, WorkerOf
  <1>6. RecoveryInv'
    <2>1. \A x \in resumed : x \in Tasks /\ wt[x].st # "none"
      BY DEF Inv, TypeOK, PlaceInv, RecoveryInv
    <2>2. \A x \in resumed' : wt'[x].st # "none"
      BY <2>1
    <2>. QED
      BY <1>1, <2>2 DEF Inv, PlaceInv, RecoveryInv
  <1>7. IntegrationInv'
    BY <1>1 DEF IntegrationInv
  <1>. QED
    BY <1>3, <1>4, <1>5, <1>6, <1>7 DEF Inv, PlaceInv

\* A worker of a task that is not completed writes its worktree, and keeps a
\* record of one.
LEMMA WorktreeWritten ==
  ASSUME Inv, NEW t \in Tasks, Worker(t), NEW s \in Stages, Goes(t, s),
         UNCHANGED <<run, task, integ, claim, log, unmerged, supervisor>>,
         wt' \in [Tasks -> WtRec], \A x \in Tasks \ {t} : wt'[x] = wt[x],
         wt'[t].st \in {wt[t].st, "preparing", "active", "retained", "failed"},
         task[t] = "completed" => wt'[t].tree \in {wt[t].tree, "committed"},
         s \in {"failed", "ok", "record", "finalize", "execute", "adding"},
         s \in {"ok", "record", "finalize"} => task[t] = "completed",
         s \in {"execute", "adding"} => task[t] # "completed",
         s = "execute" => wt'[t].st # "none"
  PROVE  Inv'
  <1>1. /\ WorkerOf(t) /\ integ[t].live \in {"none", "safe"} /\ KeptFor(t)
        /\ task[t] # "completed" => integ[t].live = "none"
        /\ wt[t].st \in {"integrated", "removed"} => Delivered(t)
        /\ integ \in [Tasks -> IntegRec]
        /\ task \in [Tasks -> {"pending", "active", "interrupted", "failed",
                               "completed"}]
    BY AtWork
  <1>2. stage'[t] = s
    BY DEF Goes, Inv, TypeOK
  <1>3. WorkerOf(t)'
    BY <1>1, <1>2 DEF WorkerOf
  <1>4. KeptFor(t)'
    BY <1>1, SameTarget DEF KeptFor
  <1>. QED
    BY <1>1, <1>3, <1>4, WorkerMoves

\* A worktree is prepared anew: its task is not completed.
LEMMA PrepareStep == ASSUME Inv, NEW t \in Tasks, Prepare(t) PROVE Inv'
  <1>1. /\ Worker(t) /\ stage[t] = "prepare" /\ Goes(t, "adding")
        /\ UNCHANGED <<run, task, claim, log, unmerged, supervisor>>
        /\ wt' = [wt EXCEPT ![t] = [NoWt EXCEPT !.st = "preparing", !.base = seen]]
        /\ integ' = [integ EXCEPT ![t] = NoInteg]
    BY DEF Prepare
  <1>2. /\ WorkerOf(t) /\ integ \in [Tasks -> IntegRec] /\ wt \in [Tasks -> WtRec]
        /\ task \in [Tasks -> {"pending", "active", "interrupted", "failed",
                               "completed"}]
    BY <1>1, AtWork
  <1>3. task[t] # "completed"
    BY <1>1, <1>2 DEF WorkerOf
  <1>4. PICK w : w = [NoWt EXCEPT !.st = "preparing", !.base = seen]
    OBVIOUS
  <1>5. w \in WtRec /\ w.st = "preparing"
    <2>1. w = [st |-> "preparing", why |-> "none", tree |-> "base",
               known |-> TRUE, base |-> seen]
      BY <1>4 DEF NoWt
    <2>2. seen \in Heads
      BY DEF Inv, TypeOK
    <2>. QED
      BY <2>1, <2>2 DEF WtRec, WtStatus
  <1>6. /\ wt' \in [Tasks -> WtRec] /\ wt'[t].st = "preparing"
        /\ \A x \in Tasks \ {t} : wt'[x] = wt[x]
    <2>1. wt' = [wt EXCEPT ![t] = w]
      BY <1>1, <1>4
    <2>. QED
      BY <1>2, <1>5, <2>1, WtReplaced
  <1>7. NoInteg \in IntegRec /\ NoInteg.live = "none"
    <2>1. 0 \in Heads
      <3>1. Cardinality(Tasks) \in Nat
        BY FS_CardinalityType
      <3>. QED
        BY <3>1 DEF Heads
    <2>. QED
      BY <2>1 DEF NoInteg, IntegRec, Live
  <1>8. /\ integ' \in [Tasks -> IntegRec] /\ integ'[t].live = "none"
        /\ \A x \in Tasks \ {t} : integ'[x] = integ[x]
    BY <1>1, <1>2, <1>7
  <1>9. PICK s \in Stages : s = "adding"
    BY DEF Stages
  <1>10. stage'[t] = "adding"
    BY <1>1 DEF Goes, Inv, TypeOK
  <1>11. WorkerOf(t)' /\ KeptFor(t)'
    BY <1>1, <1>3, <1>8, <1>10 DEF WorkerOf, KeptFor
  <1>. QED
    BY <1>1, <1>2, <1>3, <1>6, <1>8, <1>9, <1>11, WorkerMoves

\* The worktree is added, or the worker fails.
LEMMA AddWorktreeStep == ASSUME Inv, NEW t \in Tasks, AddWorktree(t) PROVE Inv'
  <1>1. /\ Worker(t) /\ stage[t] = "adding"
        /\ UNCHANGED <<run, task, integ, claim, log, unmerged, supervisor>>
    BY DEF AddWorktree
  <1>2. WorkerOf(t) /\ wt \in [Tasks -> WtRec]
    BY <1>1, AtWork
  <1>3. task[t] # "completed"
    BY <1>1, <1>2 DEF WorkerOf
  <1>4. PICK s \in WtStatus, g \in Stages :
          /\ wt' = [wt EXCEPT ![t].st = s] /\ Goes(t, g)
          /\ \/ s = "active" /\ g = "execute"
             \/ s = "failed" /\ g = "failed"
    BY DEF AddWorktree, WtStatus, Stages
  <1>5. /\ wt' \in [Tasks -> WtRec] /\ wt'[t].st = s
        /\ \A x \in Tasks \ {t} : wt'[x] = wt[x]
    BY <1>2, <1>4, WtStatusSet
  <1>. QED
    BY <1>1, <1>3, <1>4, <1>5, WorktreeWritten

\* A worker fails with an error: its worktree stays, with its content.
LEMMA CaughtStep ==
  ASSUME Inv, NEW t \in Tasks, Worker(t), Caught(t),
         UNCHANGED <<run, task, integ, claim, log, unmerged, supervisor>>
  PROVE  Inv'
  <1>1. wt \in [Tasks -> WtRec]
    BY AtWork
  <1>2. /\ wt' \in [Tasks -> WtRec] /\ wt'[t].tree = wt[t].tree
        /\ wt'[t].st \in {wt[t].st, "retained", "failed"}
        /\ \A x \in Tasks \ {t} : wt'[x] = wt[x]
    BY <1>1, CaughtKeeps
  <1>3. PICK s \in Stages : s = "failed"
    BY DEF Stages
  <1>4. Goes(t, s)
    BY <1>3 DEF Caught
  <1>. QED
    BY <1>2, <1>3, <1>4, WorktreeWritten

\* The worktree of an earlier worker is opened.
LEMMA ReopenStep == ASSUME Inv, NEW t \in Tasks, Reopen(t) PROVE Inv'
  <1>1. /\ Worker(t) /\ stage[t] = "reopen"
        /\ UNCHANGED <<run, task, integ, claim, log, unmerged, supervisor>>
    BY DEF Reopen
  <1>2. WorkerOf(t) /\ wt \in [Tasks -> WtRec]
    BY <1>1, AtWork
  <1>3. (task[t] = "completed" <=> t \in only) /\ wt[t].st # "none"
    BY <1>1, <1>2 DEF WorkerOf
  <1>4. CASE Caught(t)
    BY <1>1, <1>4, CaughtStep
  <1>5. CASE ~Caught(t)
    <2>1. PICK s : s = IF t \notin only THEN "execute"
                       ELSE IF wt[t].st = "active" THEN "finalize" ELSE "ok"
      OBVIOUS
    <2>2. Goes(t, s) /\ UNCHANGED wt
      BY <1>5, <2>1 DEF Reopen
    <2>3. /\ s \in Stages /\ (s = "execute" <=> t \notin only)
          /\ s \in {"execute", "finalize", "ok"}
      BY <2>1 DEF Stages
    <2>. QED
      BY <1>1, <1>2, <1>3, <2>2, <2>3, WorktreeWritten
  <1>. QED
    BY <1>4, <1>5

\* The task is executed in its worktree.
LEMMA ExecuteStep == ASSUME Inv, NEW t \in Tasks, Execute(t) PROVE Inv'
  <1>1. /\ Worker(t) /\ stage[t] = "execute" /\ Goes(t, "running")
        /\ UNCHANGED <<run, integ, claim, log, unmerged, supervisor>>
        /\ task' = [task EXCEPT ![t] = "active"]
        /\ wt' = [wt EXCEPT ![t].tree = "dirty"]
    BY DEF Execute
  <1>2. /\ WorkerOf(t) /\ integ \in [Tasks -> IntegRec] /\ wt \in [Tasks -> WtRec]
        /\ task \in [Tasks -> {"pending", "active", "interrupted", "failed",
                               "completed"}]
        /\ task[t] # "completed" => integ[t].live = "none"
        /\ wt[t].st \in {"integrated", "removed"} => Delivered(t)
    BY <1>1, AtWork
  <1>3. task[t] # "completed" /\ wt[t].st # "none"
    BY <1>1, <1>2 DEF WorkerOf
  <1>4. PICK d \in {"base", "dirty", "committed"} : d = "dirty"
    OBVIOUS
  <1>5. /\ wt' \in [Tasks -> WtRec]
        /\ wt'[t].st = wt[t].st /\ wt'[t].tree = d
        /\ \A x \in Tasks \ {t} : wt'[x] = wt[x]
    BY <1>1, <1>2, <1>4, WtTreeSet
  <1>6. /\ task' \in [Tasks -> {"pending", "active", "interrupted", "failed",
                                "completed"}]
        /\ task'[t] = "active" /\ \A x \in Tasks \ {t} : task'[x] = task[x]
    BY <1>1, <1>2
  <1>7. PICK s \in Stages : s = "running"
    BY DEF Stages
  <1>8. stage'[t] = "running"
    BY <1>1 DEF Goes, Inv, TypeOK
  <1>9. WorkerOf(t)' /\ KeptFor(t)'
    BY <1>1, <1>2, <1>3, <1>4, <1>5, <1>6, <1>8 DEF WorkerOf, KeptFor
  <1>. QED
    BY <1>1, <1>2, <1>3, <1>5, <1>6, <1>7, <1>9, WorkerMoves

\* The execution ends: a completed task leaves its work in the worktree.
LEMMA TaskEndsStep == ASSUME Inv, NEW t \in Tasks, TaskEnds(t) PROVE Inv'
  <1>1. /\ Worker(t) /\ stage[t] = "running"
        /\ UNCHANGED <<run, wt, integ, claim, log, unmerged, supervisor>>
    BY DEF TaskEnds
  <1>2. /\ WorkerOf(t) /\ integ \in [Tasks -> IntegRec] /\ wt \in [Tasks -> WtRec]
        /\ task \in [Tasks -> {"pending", "active", "interrupted", "failed",
                               "completed"}]
        /\ task[t] # "completed" => integ[t].live = "none"
        /\ wt[t].st \in {"integrated", "removed"} => Delivered(t)
    BY <1>1, AtWork
  <1>3. task[t] # "completed" /\ wt[t].st # "none" /\ wt[t].tree # "base"
    BY <1>1, <1>2 DEF WorkerOf
  <1>4. PICK e \in {"completed", "failed", "interrupted"}, s \in Stages :
          /\ task' = [task EXCEPT ![t] = e] /\ Goes(t, s)
          /\ s \in {"finalize", "retain"} /\ (e = "completed" <=> s = "finalize")
    BY DEF TaskEnds, Stages
  <1>5. /\ task' \in [Tasks -> {"pending", "active", "interrupted", "failed",
                                "completed"}]
        /\ task'[t] = e /\ \A x \in Tasks \ {t} : task'[x] = task[x]
    BY <1>2, <1>4
  <1>6. stage'[t] = s
    BY <1>4 DEF Goes, Inv, TypeOK
  <1>7. WorkerOf(t)'
    BY <1>1, <1>2, <1>3, <1>4, <1>5, <1>6 DEF WorkerOf
  <1>8. KeptFor(t)'
    BY <1>1, <1>2, <1>3, SameTarget DEF KeptFor
  <1>. QED
    BY <1>1, <1>2, <1>3, <1>4, <1>5, <1>7, <1>8, WorkerMoves

\* The worktree is retained.
LEMMA RetainWorktreeStep ==
  ASSUME Inv, NEW t \in Tasks, RetainWorktree(t) PROVE Inv'
  <1>1. /\ Worker(t) /\ stage[t] = "retain" /\ Goes(t, "failed")
        /\ UNCHANGED <<run, task, integ, claim, log, unmerged, supervisor>>
        /\ wt' = [wt EXCEPT ![t] = Retain(wt[t])]
    BY DEF RetainWorktree
  <1>2. wt \in [Tasks -> WtRec] /\ wt[t] \in WtRec
    BY <1>1, AtWork
  <1>3. PICK w : w = Retain(wt[t])
    OBVIOUS
  <1>4. w \in WtRec /\ w.tree = wt[t].tree /\ w.st \in {wt[t].st, "retained"}
    BY <1>2, <1>3, Retained
  <1>5. /\ wt' \in [Tasks -> WtRec] /\ wt'[t] = w
        /\ \A x \in Tasks \ {t} : wt'[x] = wt[x]
    BY <1>1, <1>2, <1>3, <1>4, WtReplaced
  <1>6. PICK s \in Stages : s = "failed"
    BY DEF Stages
  <1>. QED
    BY <1>1, <1>4, <1>5, <1>6, WorktreeWritten

\* The work is committed, or the worker gives up before.
LEMMA FinalizeStep == ASSUME Inv, NEW t \in Tasks, Finalize(t) PROVE Inv'
  <1>1. /\ Worker(t) /\ stage[t] = "finalize"
        /\ UNCHANGED <<run, task, integ, claim, log, unmerged, supervisor>>
    BY DEF Finalize
  <1>2. WorkerOf(t) /\ wt \in [Tasks -> WtRec]
    BY <1>1, AtWork
  <1>3. task[t] = "completed"
    BY <1>1, <1>2 DEF WorkerOf
  <1>4. CASE Caught(t)
    BY <1>1, <1>4, CaughtStep
  <1>5. CASE ~Caught(t)
    <2>1. PICK k : k = (wt[t].known /\ wt[t].tree = "committed")
      OBVIOUS
    <2>2. k \in BOOLEAN
      BY <2>1
    <2>3. PICK r \in {"base", "dirty", "committed"} : r = "committed"
      OBVIOUS
    <2>4. wt' = [wt EXCEPT ![t].tree = r, ![t].known = k] /\ Goes(t, "record")
      BY <1>2, <1>5, <2>1, <2>3 DEF Finalize, WtRec
    <2>5. /\ wt' \in [Tasks -> WtRec]
          /\ wt'[t].st = wt[t].st /\ wt'[t].tree = r
          /\ \A x \in Tasks \ {t} : wt'[x] = wt[x]
      BY <1>2, <2>2, <2>4, WtTreeKnownSet
    <2>6. PICK s \in Stages : s = "record"
      BY DEF Stages
    <2>. QED
      BY <1>1, <1>3, <2>3, <2>4, <2>5, <2>6, WorktreeWritten
  <1>. QED
    BY <1>4, <1>5

\* The HEAD of the worktree is recorded, or cannot be.
LEMMA RecordHeadStep == ASSUME Inv, NEW t \in Tasks, RecordHead(t) PROVE Inv'
  <1>1. /\ Worker(t) /\ stage[t] = "record"
        /\ UNCHANGED <<run, task, integ, claim, log, unmerged, supervisor>>
    BY DEF RecordHead
  <1>2. WorkerOf(t) /\ wt \in [Tasks -> WtRec]
    BY <1>1, AtWork
  <1>3. task[t] = "completed"
    BY <1>1, <1>2 DEF WorkerOf
  <1>4. CASE Caught(t)
    BY <1>1, <1>4, CaughtStep
  <1>5. CASE ~Caught(t)
    <2>1. PICK k \in BOOLEAN, y \in {"none", "resumable", "fresh"} :
            k = TRUE /\ y = "none"
      OBVIOUS
    <2>2. Goes(t, "ok") /\ wt' = [wt EXCEPT ![t].known = k, ![t].why = y]
      BY <1>5, <2>1 DEF RecordHead
    <2>3. /\ wt' \in [Tasks -> WtRec]
          /\ wt'[t].st = wt[t].st /\ wt'[t].tree = wt[t].tree
          /\ \A x \in Tasks \ {t} : wt'[x] = wt[x]
      BY <1>2, <2>2, WtKnownMarkSet
    <2>4. PICK s \in Stages : s = "ok"
      BY DEF Stages
    <2>. QED
      BY <1>1, <1>3, <2>2, <2>3, <2>4, WorktreeWritten
  <1>. QED
    BY <1>4, <1>5

\* Every step of a worker.
LEMMA WorkerStepInv == ASSUME Inv, NEW t \in Tasks, WorkerStep(t) PROVE Inv'
  <1>1. CASE WorkerThrows(t)
    BY <1>1, CaughtStep DEF WorkerThrows
  <1>. QED
    BY <1>1, PrepareStep, AddWorktreeStep, ReopenStep, ExecuteStep,
       TaskEndsStep, RetainWorktreeStep, FinalizeStep, RecordHeadStep
       DEF WorkerStep

-----------------------------------------------------------------------------
(* The integrations. *)

\* A worktree of a wave that is not integrated keeps its content.
LEMMA IntegrateWaveStep == ASSUME Inv, IntegrateWave PROVE Inv'
  <1>1. /\ pc = "wave" /\ \A t \in Tasks : ~Worker(t)
        /\ expected' = Len(log)
        /\ failure' = (failure \/ \E t \in Settled : stage[t] = "failed")
        /\ UNCHANGED <<run, task, integ, claim, log, unmerged, recovery, seen,
                       started, stage, only, gated, starts>>
    BY DEF IntegrateWave
  <1>2. failure' \in BOOLEAN /\ expected' \in Heads
    BY <1>1 DEF Inv, TypeOK
  <1>3. at = NoAt
    BY <1>1 DEF Inv, PlaceInv, RecoveryInv
  <1>4. \A t \in Completed : /\ t \in Tasks /\ task[t] = "completed"
                             /\ integ[t].live \in {"none", "safe"}
    BY <1>1 DEF Inv, PlaceInv, WorkerInv, Completed
  <1>5. CASE pc' = "integrate" /\ queue' = Completed /\ step' = "begin"
             /\ UNCHANGED <<wt, blocked>>
    <2>1. pc' \in Pcs /\ step' \in Steps /\ queue' \subseteq Tasks
      BY <1>5 DEF Pcs, Steps, Completed
    <2>2. TypeOK'
      BY <1>1, <1>2, <1>5, <2>1 DEF Inv, TypeOK
    <2>3. DurableInv'
      BY <1>1, <1>5, RecordsSame
    <2>4. IntegrationInv'
      BY <1>1, <1>4, <1>5 DEF IntegrationInv
    <2>5. PlaceInv'
      BY <1>1, <1>3, <1>5, <2>4 DEF Inv, PlaceInv, RecoveryInv, WorkerInv
    <2>. QED
      BY <2>2, <2>3, <2>5 DEF Inv
  <1>6. CASE /\ blocked' = TRUE /\ pc' = "release" /\ UNCHANGED <<queue, step>>
             /\ wt' = [t \in Tasks |-> IF t \in Completed THEN Retain(wt[t])
                                                          ELSE wt[t]]
    <2>1. wt \in [Tasks -> WtRec]
      BY DEF Inv, TypeOK, WtRec
    <2>2. \A t \in Tasks : /\ wt'[t] \in WtRec /\ wt'[t].tree = wt[t].tree
                           /\ wt'[t].st \in {wt[t].st, "retained"}
      <3>1. \A t \in Tasks : wt'[t] = Retain(wt[t]) \/ wt'[t] = wt[t]
        BY <1>6
      <3>. QED
        BY <2>1, <3>1, Retained
    <2>3. wt' \in [Tasks -> WtRec]
      <3>1. wt' = [t \in Tasks |-> wt'[t]]
        BY <1>6
      <3>. QED
        BY <2>2, <3>1
    <2>4. pc' \in Pcs
      BY <1>6 DEF Pcs
    <2>5. TypeOK'
      BY <1>1, <1>2, <1>6, <2>3, <2>4 DEF Inv, TypeOK, WtRec
    <2>6. \A t : Delivered(t)' <=> Delivered(t)
      BY <1>1, SameTarget
    <2>7. TargetInv' /\ CompletedRunIsDelivered' /\ PassedIsApproved'
      BY <1>1, <2>6 DEF Inv, DurableInv, TargetInv, Mergeable,
         CompletedRunIsDelivered, PassedIsApproved
    <2>8. RecordInv' /\ WorkIsKept'
      BY <1>1, <2>2, <2>6 DEF Inv, DurableInv, RecordInv, WorkIsKept
    <2>9. DurableInv'
      BY <2>7, <2>8 DEF DurableInv
    <2>10. \A t \in resumed' : wt'[t].st # "none"
      BY ZenonT(30), <1>1, <2>2 DEF Inv, TypeOK, PlaceInv, RecoveryInv
    <2>11. PlaceInv'
      BY <1>1, <1>3, <1>6, <2>10 DEF PlaceInv, RecoveryInv, WorkerInv,
         IntegrationInv
    <2>. QED
      BY <2>5, <2>9, <2>11 DEF Inv
  <1>. QED
    BY <1>5, <1>6 DEF IntegrateWave

\* the task in integration changes its records, and the queue stays or is
\* left
IntegrationOf(t) ==
  /\ step \in {"begin", "open"} => integ[t].live \in {"none", "safe"}
  /\ step = "pending" => integ[t].live = "pending"
  /\ step \in {"running", "merged", "gates", "conflicted", "failed"} =>
       integ[t].live = "running"
  /\ step = "running" => ~Delivered(t) /\ unmerged # t
  /\ step \in {"merged", "gates", "cleanup"} => Delivered(t)
  /\ step = "settle" => integ[t].live \in
       {"passed", "paused", "conflicted", "failed"}

\* What is known of the task in integration.
LEMMA InIntegration ==
  ASSUME Inv, pc = "integrate", queue # {}
  PROVE  /\ Current \in Tasks /\ Current \in queue
         /\ task[Current] = "completed" /\ IntegrationOf(Current)
         /\ wt[Current].st \in {"integrated", "removed"} => Delivered(Current)
         /\ KeptFor(Current)
         /\ integ[Current].live = "passed" =>
              Delivered(Current) /\ (Current \in Verified => Current \in gated)
         /\ wt \in [Tasks -> WtRec] /\ integ \in [Tasks -> IntegRec]
         /\ at = NoAt
         /\ \A x \in queue \ {Current} :
              /\ x \in Tasks /\ task[x] = "completed"
              /\ integ[x].live \in {"none", "safe"}
  <1>1. Current \in Tasks /\ Current \in queue
    BY CurrentIsQueued DEF Inv
  <1>2. task[Current] = "completed" /\ IntegrationOf(Current)
    BY <1>1 DEF Inv, PlaceInv, IntegrationInv, IntegrationOf
  <1>3. /\ wt[Current].st \in {"integrated", "removed"} => Delivered(Current)
        /\ KeptFor(Current)
        /\ integ[Current].live = "passed" =>
             Delivered(Current) /\ (Current \in Verified => Current \in gated)
    BY <1>1 DEF Inv, DurableInv, RecordInv, WorkIsKept, KeptFor,
       PassedIsApproved
  <1>4. wt \in [Tasks -> WtRec] /\ integ \in [Tasks -> IntegRec]
    BY DEF Inv, TypeOK, WtRec, IntegRec
  <1>5. at = NoAt
    BY DEF Inv, PlaceInv, RecoveryInv
  <1>6. \A x \in queue \ {Current} :
          /\ x \in Tasks /\ task[x] = "completed"
          /\ integ[x].live \in {"none", "safe"}
    BY DEF Inv, TypeOK, PlaceInv, IntegrationInv
  <1>. QED
    BY <1>1, <1>2, <1>3, <1>4, <1>5, <1>6

\* The integration of the current task takes a step.
LEMMA IntegrationMoves ==
  ASSUME Inv, pc = "integrate", queue # {}, UNCHANGED <<others, pc>>,
         blocked' \in BOOLEAN, step' \in Steps, expected' \in Heads,
         log' \in Seq(Tasks \cup {Edit}), Len(log') \in Heads,
         unmerged' \in Tasks \cup {None}, gated' \subseteq Tasks,
         wt' \in [Tasks -> WtRec], integ' \in [Tasks -> IntegRec],
         \A x \in Tasks \ {Current} : wt'[x] = wt[x] /\ integ'[x] = integ[x],
         wt[Current].st # "none" => wt'[Current].st # "none",
         \/ queue' = queue /\ IntegrationOf(Current)'
         \/ queue' = queue \ {Current} /\ step' = "begin"
         \/ queue' = {},
         DurableInv'
  PROVE  Inv'
  <1>1. /\ Current \in Tasks /\ Current \in queue /\ at = NoAt
        /\ task[Current] = "completed"
        /\ \A x \in queue \ {Current} :
              /\ x \in Tasks /\ task[x] = "completed"
              /\ integ[x].live \in {"none", "safe"}
    BY InIntegration
  <1>2. queue' \subseteq Tasks
    BY DEF Inv, TypeOK
  <1>3. TypeOK'
    BY <1>2 DEF Inv, TypeOK, WtRec, IntegRec
  <1>4. RecoveryInv'
    <2>1. \A x \in resumed : x \in Tasks /\ wt[x].st # "none"
      BY DEF Inv, TypeOK, PlaceInv, RecoveryInv
    <2>2. \A x \in resumed' : wt'[x].st # "none"
      BY <2>1
    <2>. QED
      BY <1>1, <2>2 DEF RecoveryInv
  <1>5. WorkerInv'
    BY DEF WorkerInv
  <1>6. IntegrationInv'
    <2>1. \A x \in queue \ {Current} : /\ task'[x] = "completed"
                                       /\ integ'[x].live \in {"none", "safe"}
      BY <1>1
    <2>2. CASE queue' = queue /\ IntegrationOf(Current)'
      <3>1. PICK c \in Tasks : c = Current
        BY <1>1
      <3>2. Current' = c
        BY <2>2, <3>1 DEF Current
      <3>3. task'[c] = "completed" /\ pc' = "integrate"
        BY <1>1, <3>1
      <3>4. /\ step' \in {"begin", "open"} => integ'[c].live \in {"none", "safe"}
            /\ step' = "pending" => integ'[c].live = "pending"
            /\ step' \in {"running", "merged", "gates", "conflicted", "failed"} =>
                 integ'[c].live = "running"
            /\ step' = "running" => ~Delivered(c)' /\ unmerged' # c
            /\ step' \in {"merged", "gates", "cleanup"} => Delivered(c)'
            /\ step' = "settle" => integ'[c].live \in
                 {"passed", "paused", "conflicted", "failed"}
        BY <2>2, <3>1, <3>2 DEF IntegrationOf
      <3>5. \A x \in queue : x = c \/ (task'[x] = "completed"
                                       /\ integ'[x].live \in {"none", "safe"})
        BY <2>1, <3>1
      <3>. QED
        BY <2>2, <3>2, <3>3, <3>4, <3>5 DEF IntegrationInv
    <2>3. CASE queue' = queue \ {Current} /\ step' = "begin"
      BY <2>1, <2>3 DEF IntegrationInv
    <2>4. CASE queue' = {}
      BY <2>4 DEF IntegrationInv
    <2>. QED
      BY <2>2, <2>3, <2>4
  <1>. QED
    BY <1>3, <1>4, <1>5, <1>6 DEF Inv, PlaceInv

\* The integration changes the status of the worktree.
LEMMA WorktreeFollows ==
  ASSUME Inv, pc = "integrate", queue # {}, UNCHANGED <<others, pc>>,
         UNCHANGED <<integ, log, unmerged, expected, gated>>,
         blocked' \in BOOLEAN, step' \in Steps,
         NEW s \in WtStatus, s # "none", wt' = [wt EXCEPT ![Current].st = s],
         s \in {"integrated", "removed"} => Delivered(Current),
         \/ queue' = queue /\ IntegrationOf(Current)'
         \/ queue' = queue \ {Current} /\ step' = "begin"
         \/ queue' = {}
  PROVE  Inv'
  <1>1. PICK c \in Tasks : c = Current
    BY InIntegration
  <1>2. /\ task[c] = "completed" /\ KeptFor(c) /\ wt \in [Tasks -> WtRec]
        /\ integ[c].live = "passed" =>
             Delivered(c) /\ (c \in Verified => c \in gated)
    BY <1>1, InIntegration
  <1>3. /\ wt' \in [Tasks -> WtRec]
        /\ wt'[c].st = s /\ wt'[c].tree = wt[c].tree
        /\ \A x \in Tasks \ {c} : wt'[x] = wt[x]
    BY <1>1, <1>2, WtStatusSet
  <1>4. UNCHANGED <<run, task, integ, log, unmerged, seen, gated>>
    OBVIOUS
  <1>5. s \in {"integrated", "removed"} => Delivered(c)
    BY <1>1
  <1>6. DurableInv'
    BY SMTT(30), <1>2, <1>3, <1>4, <1>5, RecordsMove DEF KeptFor, Mergeable
  <1>7. /\ expected' \in Heads /\ log' \in Seq(Tasks \cup {Edit})
        /\ Len(log') \in Heads /\ unmerged' \in Tasks \cup {None}
        /\ gated' \subseteq Tasks /\ integ' \in [Tasks -> IntegRec]
    BY DEF Inv, TypeOK, IntegRec
  <1>. QED
    BY <1>1, <1>3, <1>6, <1>7, IntegrationMoves

\* The integration gets a status, and the worktree keeps its own.
LEMMA StatusFollows ==
  ASSUME Inv, pc = "integrate", queue # {}, UNCHANGED <<others, pc>>,
         UNCHANGED <<wt, log, unmerged, blocked, queue>>,
         step' \in Steps, expected' \in Heads, gated' \subseteq Tasks,
         gated \subseteq gated',
         NEW s \in Live, integ' = [integ EXCEPT ![Current].live = s],
         s \notin {"none", "pending", "safe"},
         s = "passed" => Delivered(Current)
                         /\ (Current \in Verified => Current \in gated'),
         IntegrationOf(Current)'
  PROVE  Inv'
  <1>1. PICK c \in Tasks : c = Current
    BY InIntegration
  <1>2. /\ task[c] = "completed" /\ KeptFor(c) /\ integ \in [Tasks -> IntegRec]
        /\ wt[c].st \in {"integrated", "removed"} => Delivered(c)
    BY <1>1, InIntegration
  <1>3. /\ integ' \in [Tasks -> IntegRec] /\ integ'[c].live = s
        /\ \A x \in Tasks \ {c} : integ'[x] = integ[x]
    BY <1>1, <1>2, LiveSet
  <1>4. UNCHANGED <<run, task, wt, log, unmerged, seen>>
    OBVIOUS
  <1>5. s = "passed" => Delivered(c) /\ (c \in Verified => c \in gated')
    BY <1>1
  <1>6. DurableInv'
    BY SMTT(30), <1>2, <1>3, <1>4, <1>5, RecordsMove DEF KeptFor, Mergeable
  <1>7. /\ log' \in Seq(Tasks \cup {Edit}) /\ Len(log') \in Heads
        /\ unmerged' \in Tasks \cup {None} /\ blocked' \in BOOLEAN
        /\ wt' \in [Tasks -> WtRec]
    BY DEF Inv, TypeOK, WtRec
  <1>. QED
    BY <1>1, <1>3, <1>6, <1>7, IntegrationMoves

\* The worktree is marked as being integrated.
LEMMA IntBeginStep == ASSUME Inv, IntBegin PROVE Inv'
  <1>1. /\ pc = "integrate" /\ queue # {} /\ step = "begin" /\ step' = "open"
        /\ wt' = [wt EXCEPT ![Current].st = "integrating"]
        /\ UNCHANGED <<others, integ, log, unmerged, pc, blocked, queue,
                       expected, gated>>
    BY DEF IntBegin, Integrating
  <1>2. PICK s \in WtStatus : s = "integrating"
    BY DEF WtStatus
  <1>3. Current' = Current /\ IntegrationOf(Current)
    BY <1>1, InIntegration DEF Current
  <1>4. IntegrationOf(Current)'
    BY <1>1, <1>3 DEF IntegrationOf
  <1>5. blocked' \in BOOLEAN /\ step' \in Steps
    BY <1>1 DEF Inv, TypeOK, Steps
  <1>. QED
    BY <1>1, <1>2, <1>4, <1>5, WorktreeFollows

\* The integration is recorded as pending, or the run is blocked.
LEMMA IntOpenStep == ASSUME Inv, IntOpen PROVE Inv'
  <1>1. /\ pc = "integrate" /\ queue # {} /\ step = "open"
        /\ UNCHANGED <<others, log, unmerged, pc, expected, gated>>
    BY DEF IntOpen, Integrating
  <1>2. PICK c \in Tasks : c = Current
    BY <1>1, InIntegration
  <1>3. CASE wt[c].tree = "committed" /\ Len(log) = expected
    <2>1. /\ integ' = [integ EXCEPT ![c] =
                 [live |-> "pending", before |-> expected,
                  retried |-> integ[c].retried \/ integ[c].live = "safe"]]
          /\ step' = "pending" /\ UNCHANGED <<wt, blocked, queue>>
      BY <1>2, <1>3 DEF IntOpen
    <2>2. /\ task[c] = "completed" /\ KeptFor(c) /\ integ \in [Tasks -> IntegRec]
          /\ wt[c].st \in {"integrated", "removed"} => Delivered(c)
          /\ integ[c].live \in {"none", "safe"}
      BY <1>1, <1>2, InIntegration DEF IntegrationOf
    <2>3. PICK i : i = [live |-> "pending", before |-> expected,
                        retried |-> integ[c].retried \/ integ[c].live = "safe"]
      OBVIOUS
    <2>4. i \in IntegRec /\ i.live = "pending"
      <3>1. PICK b \in BOOLEAN : b = (integ[c].retried \/ integ[c].live = "safe")
        OBVIOUS
      <3>2. i = [live |-> "pending", before |-> expected, retried |-> b]
        BY <2>3, <3>1
      <3>3. expected \in Heads
        BY DEF Inv, TypeOK
      <3>. QED
        BY <3>2, <3>3 DEF IntegRec, Live
    <2>5. /\ integ' \in [Tasks -> IntegRec] /\ integ'[c].live = "pending"
          /\ \A x \in Tasks \ {c} : integ'[x] = integ[x]
      BY <2>1, <2>2, <2>3, <2>4
    <2>6. UNCHANGED <<run, task, wt, log, unmerged, seen, gated>>
      BY <1>1, <2>1
    <2>7. Mergeable(c)
      BY <2>2 DEF Mergeable
    <2>8. DurableInv'
      BY <2>2, <2>5, <2>6, <2>7, RecordsMove DEF KeptFor
    <2>9. Current' = c
      BY <1>2, <2>1 DEF Current
    <2>10. IntegrationOf(Current)'
      BY <2>1, <2>5, <2>9 DEF IntegrationOf
    <2>11. /\ blocked' \in BOOLEAN /\ step' \in Steps /\ expected' \in Heads
           /\ log' \in Seq(Tasks \cup {Edit}) /\ Len(log') \in Heads
           /\ unmerged' \in Tasks \cup {None} /\ gated' \subseteq Tasks
           /\ wt' \in [Tasks -> WtRec]
      BY <1>1, <2>1 DEF Inv, TypeOK, Steps, WtRec
    <2>. QED
      BY <1>1, <1>2, <2>1, <2>5, <2>8, <2>10, <2>11, IntegrationMoves
  <1>4. CASE ~(wt[c].tree = "committed" /\ Len(log) = expected)
    <2>1. /\ wt' = [wt EXCEPT ![Current].st = "failed"] /\ UNCHANGED integ
          /\ blocked' = TRUE /\ queue' = {} /\ step' = "begin"
      BY <1>2, <1>4 DEF IntOpen, Block
    <2>2. PICK s \in WtStatus : s = "failed"
      BY DEF WtStatus
    <2>3. step' \in Steps
      BY <2>1 DEF Steps
    <2>. QED
      BY <1>1, <2>1, <2>2, <2>3, WorktreeFollows
  <1>. QED
    BY <1>3, <1>4

\* The integration runs: its task is not in the target yet.
LEMMA IntRunStep == ASSUME Inv, IntRun PROVE Inv'
  <1>1. /\ pc = "integrate" /\ queue # {} /\ step = "pending"
        /\ step' = "running"
        /\ integ' = [integ EXCEPT ![Current].live = "running"]
        /\ UNCHANGED <<others, wt, log, unmerged, pc, blocked, queue, expected,
                       gated>>
    BY DEF IntRun, Integrating
  <1>2. PICK c \in Tasks : c = Current
    BY <1>1, InIntegration
  <1>3. integ[c].live = "pending" /\ integ \in [Tasks -> IntegRec]
    BY <1>1, <1>2, InIntegration DEF IntegrationOf
  <1>4. ~Delivered(c) /\ unmerged # c
    BY <1>3 DEF Inv, DurableInv, TargetInv, Mergeable
  <1>5. PICK s \in Live : s = "running"
    BY DEF Live
  <1>6. integ'[c].live = s
    BY <1>1, <1>2, <1>3, <1>5, LiveSet
  <1>7. Current' = c
    BY <1>1, <1>2 DEF Current
  <1>8. IntegrationOf(Current)'
    BY <1>1, <1>4, <1>5, <1>6, <1>7, SameTarget DEF IntegrationOf
  <1>9. step' \in Steps /\ expected' \in Heads /\ gated' \subseteq Tasks
    BY <1>1 DEF Inv, TypeOK, Steps
  <1>. QED
    BY <1>1, <1>5, <1>8, <1>9, StatusFollows

\* Git merges the task once, stops at a conflict or refuses, whatever it reports.
LEMMA IntMergeStep == ASSUME Inv, IntMerge PROVE Inv'
  <1>1. /\ pc = "integrate" /\ queue # {} /\ step = "running"
        /\ UNCHANGED <<others, wt, integ, pc, blocked, queue, expected, gated>>
    BY DEF IntMerge, Integrating
  <1>2. PICK c \in Tasks : c = Current
    BY <1>1, InIntegration
  <1>3. /\ integ[c].live = "running" /\ ~Delivered(c) /\ ~Mergeable(c)
    BY <1>1, <1>2, InIntegration DEF IntegrationOf, Mergeable
  <1>4. Current' = c
    BY <1>1, <1>2 DEF Current
  <1>5. /\ blocked' \in BOOLEAN /\ expected' \in Heads /\ gated' \subseteq Tasks
        /\ wt' \in [Tasks -> WtRec] /\ integ' \in [Tasks -> IntegRec]
    BY <1>1 DEF Inv, TypeOK, WtRec, IntegRec
  <1>6. /\ log \in Seq(Tasks \cup {Edit}) /\ Len(log) \in Heads
        /\ unmerged \in Tasks \cup {None}
    BY DEF Inv, TypeOK
  <1>7. CASE /\ unmerged = None /\ log' = Append(log, Current)
             /\ step' \in {"merged", "failed"} /\ UNCHANGED unmerged
    <2>1. log' = Append(log, c) /\ unmerged' # c
      BY <1>2, <1>7
    <2>2. DurableInv' /\ log' \in Seq(Tasks \cup {Edit}) /\ Len(log') \in Heads
      <3>1. UNCHANGED <<run, task, wt, integ, seen, gated, unmerged>>
        BY <1>1, <1>7
      <3>2. c # Edit
        OBVIOUS
      <3>. QED
        BY <1>3, <2>1, <3>1, <3>2, RecordsMerged
    <2>3. Delivered(c)'
      BY <1>6, <2>1, DeliveredGrows
    <2>4. IntegrationOf(Current)'
      BY <1>1, <1>3, <1>4, <1>7, <2>3 DEF IntegrationOf
    <2>5. step' \in Steps
      BY <1>7 DEF Steps
    <2>. QED
      BY <1>1, <1>5, <1>6, <1>7, <2>2, <2>4, <2>5, IntegrationMoves
  <1>8. CASE /\ unmerged = None /\ unmerged' = Current
             /\ step' \in {"conflicted", "failed"} /\ UNCHANGED log
    <2>1. \A t : Delivered(t)' <=> Delivered(t)
      BY <1>8, SameTarget
    <2>2. UNCHANGED <<run, task, wt, integ, seen, gated>> /\ unmerged' = c
      BY <1>1, <1>2, <1>8
    <2>3. TargetInv'
      BY <1>3, <1>8, <2>1, <2>2 DEF Inv, DurableInv, TargetInv, Mergeable
    <2>4. DurableInv'
      BY <2>1, <2>2, <2>3 DEF Inv, DurableInv, RecordInv, PassedIsApproved,
         WorkIsKept, CompletedRunIsDelivered
    <2>5. IntegrationOf(Current)'
      BY <1>1, <1>3, <1>4, <1>8 DEF IntegrationOf
    <2>6. step' \in Steps
      BY <1>8 DEF Steps
    <2>. QED
      BY <1>1, <1>5, <1>6, <1>8, <2>2, <2>4, <2>5, <2>6, IntegrationMoves
  <1>9. CASE step' = "failed" /\ UNCHANGED <<log, unmerged>>
    <2>1. DurableInv'
      BY <1>1, <1>9, RecordsSame
    <2>2. IntegrationOf(Current)'
      BY <1>1, <1>3, <1>4, <1>9 DEF IntegrationOf
    <2>3. step' \in Steps
      BY <1>9 DEF Steps
    <2>. QED
      BY <1>1, <1>5, <1>6, <1>9, <2>1, <2>2, <2>3, IntegrationMoves
  <1>. QED
    BY <1>7, <1>8, <1>9 DEF IntMerge

\* The HEAD of the target is taken for the result.
LEMMA IntResultStep == ASSUME Inv, IntResult PROVE Inv'
  <1>1. /\ pc = "integrate" /\ queue # {} /\ step = "merged" /\ step' = "gates"
        /\ expected' = Len(log)
        /\ UNCHANGED <<others, wt, integ, log, unmerged, pc, blocked, queue,
                       gated>>
    BY DEF IntResult, Integrating
  <1>2. PICK c \in Tasks : c = Current
    BY <1>1, InIntegration
  <1>3. Delivered(c) /\ integ[c].live = "running"
    BY <1>1, <1>2, InIntegration DEF IntegrationOf
  <1>4. Current' = c /\ Delivered(c)'
    BY <1>1, <1>2, <1>3, SameTarget DEF Current
  <1>5. IntegrationOf(Current)'
    BY <1>1, <1>3, <1>4 DEF IntegrationOf
  <1>6. DurableInv'
    BY <1>1, RecordsSame
  <1>7. /\ blocked' \in BOOLEAN /\ gated' \subseteq Tasks
        /\ step' \in Steps /\ expected' \in Heads
        /\ log' \in Seq(Tasks \cup {Edit}) /\ Len(log') \in Heads
        /\ unmerged' \in Tasks \cup {None}
        /\ wt' \in [Tasks -> WtRec] /\ integ' \in [Tasks -> IntegRec]
    BY <1>1 DEF Inv, TypeOK, WtRec, IntegRec, Steps
  <1>. QED
    BY <1>1, <1>5, <1>6, <1>7, IntegrationMoves

\* The gates of the task approve what was merged, or the integration pauses.
LEMMA IntGatesStep == ASSUME Inv, IntGates PROVE Inv'
  <1>1. /\ pc = "integrate" /\ queue # {} /\ step = "gates" /\ step' = "settle"
        /\ UNCHANGED <<others, wt, log, unmerged, pc, blocked, queue, expected>>
    BY DEF IntGates, Integrating
  <1>2. PICK c \in Tasks : c = Current
    BY <1>1, InIntegration
  <1>3. Delivered(c) /\ integ \in [Tasks -> IntegRec]
    BY <1>1, <1>2, InIntegration DEF IntegrationOf
  <1>4. Current' = c /\ step' \in Steps
    BY <1>1, <1>2 DEF Current, Steps
  <1>5. expected \in Heads /\ gated \subseteq Tasks
    BY DEF Inv, TypeOK
  <1>6. PICK s \in Live :
          /\ integ' = [integ EXCEPT ![Current].live = s]
          /\ \/ s = "passed" /\ gated' = gated \cup {c}
             \/ s = "paused" /\ UNCHANGED gated
    BY <1>2 DEF IntGates, Live
  <1>7. integ'[c].live = s
    BY <1>2, <1>3, <1>6, LiveSet
  <1>8. IntegrationOf(Current)'
    BY <1>1, <1>4, <1>6, <1>7 DEF IntegrationOf
  <1>9. expected' \in Heads /\ gated' \subseteq Tasks /\ gated \subseteq gated'
    BY <1>1, <1>5, <1>6
  <1>. QED
    BY <1>1, <1>2, <1>3, <1>4, <1>6, <1>8, <1>9, StatusFollows

\* An exception leaves the integration: its worktree fails.
LEMMA IntThrowsStep == ASSUME Inv, IntThrows PROVE Inv'
  <1>1. /\ pc = "integrate" /\ queue # {}
        /\ wt' = [wt EXCEPT ![Current].st = "failed"]
        /\ blocked' = TRUE /\ queue' = {} /\ step' = "begin"
        /\ UNCHANGED <<others, integ, log, unmerged, pc, expected, gated>>
    BY DEF IntThrows, Block
  <1>2. PICK s \in WtStatus : s = "failed"
    BY DEF WtStatus
  <1>3. step' \in Steps /\ blocked' \in BOOLEAN
    BY <1>1 DEF Steps
  <1>. QED
    BY <1>1, <1>2, <1>3, WorktreeFollows

\* A conflict or a refusal is recorded.
LEMMA IntFailsStep == ASSUME Inv, IntFails PROVE Inv'
  <1>1. /\ pc = "integrate" /\ queue # {} /\ step \in {"conflicted", "failed"}
        /\ integ' = [integ EXCEPT ![Current].live = step] /\ step' = "settle"
        /\ UNCHANGED <<others, wt, log, unmerged, pc, blocked, queue, expected,
                       gated>>
    BY DEF IntFails
  <1>2. PICK c \in Tasks : c = Current
    BY <1>1, InIntegration
  <1>3. PICK s \in Live : s = step
    BY <1>1 DEF Live
  <1>4. integ'[c].live = s
    BY <1>1, <1>2, <1>3, InIntegration, LiveSet
  <1>5. Current' = c /\ step' \in Steps
    BY <1>1, <1>2 DEF Current, Steps
  <1>6. IntegrationOf(Current)'
    BY <1>1, <1>3, <1>4, <1>5 DEF IntegrationOf
  <1>7. expected' \in Heads /\ gated' \subseteq Tasks
    BY <1>1 DEF Inv, TypeOK
  <1>. QED
    BY <1>1, <1>3, <1>5, <1>6, <1>7, StatusFollows

\* The worktree follows its integration.
LEMMA IntSettleStep == ASSUME Inv, IntSettle PROVE Inv'
  <1>1. /\ pc = "integrate" /\ queue # {} /\ step = "settle"
        /\ UNCHANGED <<others, integ, log, unmerged, pc, expected, gated>>
    BY DEF IntSettle, Integrating
  <1>2. PICK c \in Tasks : c = Current
    BY <1>1, InIntegration
  <1>3. /\ integ[c].live \in {"passed", "paused", "conflicted", "failed"}
        /\ integ[c].live = "passed" => Delivered(c)
    BY <1>1, <1>2, InIntegration DEF IntegrationOf
  <1>4. CASE integ[c].live = "passed"
    <2>1. PICK s \in WtStatus : s = "integrated"
      BY DEF WtStatus
    <2>2. /\ wt' = [wt EXCEPT ![Current].st = s]
          /\ step' = "cleanup" /\ UNCHANGED <<blocked, queue>>
      BY <1>2, <1>4, <2>1 DEF IntSettle
    <2>3. Current' = c /\ step' \in Steps /\ blocked' \in BOOLEAN
      BY <1>2, <2>2 DEF Inv, TypeOK, Current, Steps
    <2>4. IntegrationOf(Current)'
      BY <1>1, <1>3, <1>4, <2>2, <2>3, SameTarget DEF IntegrationOf
    <2>. QED
      BY <1>1, <1>2, <1>3, <1>4, <2>1, <2>2, <2>3, <2>4, WorktreeFollows
  <1>5. CASE integ[c].live # "passed"
    <2>1. PICK s \in WtStatus :
            s = IF integ[c].live = "paused" THEN "retained" ELSE integ[c].live
      BY <1>3, <1>5 DEF WtStatus
    <2>2. s \in {"retained", "conflicted", "failed"}
      BY <1>3, <1>5, <2>1
    <2>3. /\ wt' = [wt EXCEPT ![Current].st = s]
          /\ blocked' = TRUE /\ queue' = {} /\ step' = "begin"
      BY <1>2, <1>5, <2>1 DEF IntSettle, Block
    <2>4. step' \in Steps
      BY <2>3 DEF Steps
    <2>. QED
      BY <1>1, <2>2, <2>3, <2>4, WorktreeFollows
  <1>. QED
    BY <1>4, <1>5

\* The worktree of a delivered task is removed or kept.
LEMMA IntCleanupStep == ASSUME Inv, IntCleanup PROVE Inv'
  <1>1. /\ pc = "integrate" /\ queue # {} /\ step = "cleanup"
        /\ queue' = queue \ {Current} /\ step' = "begin"
        /\ UNCHANGED <<others, integ, log, unmerged, pc, blocked, expected,
                       gated>>
    BY DEF IntCleanup, Integrating
  <1>2. PICK s \in {"removed", "retained"} : wt' = [wt EXCEPT ![Current].st = s]
    BY DEF IntCleanup
  <1>3. s \in WtStatus /\ step' \in Steps
    BY <1>1 DEF WtStatus, Steps
  <1>4. Delivered(Current)
    BY <1>1, InIntegration DEF IntegrationOf
  <1>5. blocked' \in BOOLEAN
    BY <1>1 DEF Inv, TypeOK
  <1>. QED
    BY <1>1, <1>2, <1>3, <1>4, <1>5, WorktreeFollows

-----------------------------------------------------------------------------
\* Every step keeps the invariant.
LEMMA NextInv == ASSUME Inv, [Next]_vars PROVE Inv'
  <1>1. CASE Start \/ Throws \/ Crash \/ OtherCommit \/ EndConflict
    BY <1>1, RecoveryBeginsStep, CommandEndsStep, OtherCommitStep,
       EndConflictStep
  <1>2. CASE RecoveryStep
    BY <1>2, RecoveryBeginsStep, RecTaskStep, RecWorktreeStep,
       RecoveryGoesOnStep, RecIntegrationStep, RecSettledStep DEF RecoveryStep
  <1>3. CASE IntegrationStep
    BY <1>3, IntegrateWaveStep, IntBeginStep, IntOpenStep, IntRunStep,
       IntMergeStep, IntResultStep, IntGatesStep, IntThrowsStep, IntFailsStep,
       IntSettleStep, IntCleanupStep, GoesOnStep DEF IntegrationStep
  <1>4. CASE Release \/ Settle \/ SnapshotEnds
    BY <1>4, GoesOnStep, SettleStep
  <1>5. CASE \E W \in SUBSET Tasks : Snapshot(W)
    BY <1>5, SnapshotStep
  <1>6. CASE \E t \in Tasks : WorkerStep(t)
    BY <1>6, WorkerStepInv
  <1>7. CASE UNCHANGED vars
    <2>1. UNCHANGED <<run, task, wt, integ, claim, log, unmerged, pc, rec, at,
            resumed, fresh, seen, blocked, started, failure, stage, only,
            queue, step, expected, gated, starts>>
      BY <1>7 DEF vars
    <2>2. TypeOK'
      BY <2>1 DEF Inv, TypeOK
    <2>3. DurableInv'
      BY <2>1, RecordsSame
    <2>4. Current' = Current /\ \A t : Delivered(t)' <=> Delivered(t)
      BY <2>1, SameTarget DEF Current
    <2>5. PlaceInv'
      BY <2>1, <2>4 DEF Inv, PlaceInv, RecoveryInv, WorkerInv, IntegrationInv
    <2>. QED
      BY <2>2, <2>3, <2>5 DEF Inv
  <1>. QED
    BY <1>1, <1>2, <1>3, <1>4, <1>5, <1>6, <1>7 DEF Next, CommandStep

\* The invariant holds throughout: of the records, the target branch and the
\* place of the command.
THEOREM Invariance == Spec => []Inv
  BY InitInv, NextInv, PTL DEF Spec

\* Every variable of the command, the ledger and Git keeps its type, and the
\* target branch never grows past the tasks and the commits of others.
THEOREM TypeCorrect == Spec => []TypeOK
  <1>1. Inv => TypeOK
    BY DEF Inv
  <1>. QED
    BY <1>1, Invariance, PTL

\* When executeParallelRoot completes the run, the work of every task is in
\* the target branch, whatever crashed and was recovered before.
THEOREM CompletedRunsAreDelivered == Spec => []CompletedRunIsDelivered
  <1>1. Inv => CompletedRunIsDelivered
    BY DEF Inv, DurableInv
  <1>. QED
    BY <1>1, Invariance, PTL

\* No task is merged into the target twice: an interrupted integration is
\* tried again only when nothing of it was merged.
THEOREM TasksAreMergedOnce == Spec => []MergedOnce
  <1>1. ASSUME Inv, NEW t \in Tasks
        PROVE  Cardinality({k \in 1..Len(log) : log[k] = t}) <= 1
    <2>. DEFINE M == {k \in 1..Len(log) : log[k] = t}
    <2>1. t # Edit
      OBVIOUS
    <2>2. \A j, k \in M : j = k
      BY <1>1, <2>1 DEF Inv, DurableInv, TargetInv
    <2>. HIDE DEF M
    <2>3. CASE M = {}
      <3>1. Cardinality(M) = 0
        BY <2>3, FS_EmptySet
      <3>. QED
        BY <3>1 DEF M
    <2>4. CASE M # {}
      <3>1. PICK k : k \in M
        BY <2>4
      <3>2. M = {k}
        BY <2>2, <3>1
      <3>3. Cardinality(M) = 1
        BY <3>2, FS_Singleton
      <3>. QED
        BY <3>3 DEF M
    <2>. QED
      BY <2>3, <2>4
  <1>2. Inv => MergedOnce
    BY <1>1 DEF MergedOnce
  <1>. QED
    BY <1>2, Invariance, PTL

\* An integration recorded as passed is in the target, and the gates of a task
\* that has verifications approved it there; the recovery passes none without
\* them.
THEOREM PassesAreApproved == Spec => []PassedIsApproved
  <1>1. Inv => PassedIsApproved
    BY DEF Inv, DurableInv
  <1>. QED
    BY <1>1, Invariance, PTL

\* The work of a completed task is never lost: it is in the target, or in a
\* worktree that was neither removed nor prepared anew.
THEOREM WorkIsNeverLost == Spec => []WorkIsKept
  <1>1. Inv => WorkIsKept
    BY DEF Inv, DurableInv
  <1>. QED
    BY <1>1, Invariance, PTL
=============================================================================
