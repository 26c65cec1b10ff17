------------------------ MODULE ResourceClaimsProofs ------------------------
(***************************************************************************)
(* TLAPS proofs about ResourceClaims, for any set of processes, claim sets *)
(* and requests.  Inv is inductive: one lemma per action shows that the    *)
(* action preserves it, and the theorems at the end follow from Inv.       *)
(***************************************************************************)
EXTENDS ResourceClaims, TLAPS

USE ClaimsAssumption
USE DEF None, Rec, NoRec, ledger, ports, probing

\* claimsConflict does not depend on which of two claims came first.
LEMMA ConflictIsSymmetric ==
  ASSUME NEW s, NEW t
  PROVE  ClaimsConflict(s, t) <=> ClaimsConflict(t, s)
  <1>1. PathClaimsOverlap(s.key, t.key) <=> PathClaimsOverlap(t.key, s.key)
    BY DEF PathClaimsOverlap
  <1>2. SameResource(s, t) <=> SameResource(t, s)
    BY <1>1 DEF SameResource
  <1>. QED
    BY <1>2 DEF ClaimsConflict

\* NoConflict in terms of claimsConflict.
LEMMA NoConflictMeans ==
  NoConflict <=> \A i, j \in Active : i # j =>
                    \A s \in claims[i], t \in claims[j] : ~ClaimsConflict(s, t)
  BY DEF NoConflict, ClaimsConflict

\* The same of the state after a step.
LEMMA NoConflictMeansThen ==
  NoConflict' <=> \A i, j \in Active' : i # j =>
                    \A s \in claims'[i], t \in claims'[j] : ~ClaimsConflict(s, t)
  BY DEF NoConflict, ClaimsConflict

\* Fewer active sets with the same claims do not conflict either.
LEMMA ConflictFreeKept ==
  ASSUME NoConflict, Active' \subseteq Active, claims' = claims
  PROVE  NoConflict'
  BY NoConflictMeans, NoConflictMeansThen

\* A set whose claims grow by claims that are free stays without conflicts.
LEMMA ConflictFreeGrown ==
  ASSUME TypeOK, NoConflict, NEW i \in Ids, NEW q, Free(q, i),
         Active' = Active \cup {i},
         \A j \in Ids \ {i} : claims'[j] = claims[j],
         \A s \in claims'[i] : s \in q \/ (i \in Active /\ s \in claims[i])
  PROVE  NoConflict'
  <1>. SUFFICES ASSUME NEW j \in Active', NEW k \in Active', j # k,
                       NEW s \in claims'[j], NEW t \in claims'[k]
                PROVE  ~ClaimsConflict(s, t)
    BY NoConflictMeansThen
  <1>1. j \in Ids /\ k \in Ids
    BY DEF Active
  <1>2. CASE j = i
    <2>1. k \in Active \ {i} /\ t \in claims[k]
      BY <1>1, <1>2
    <2>. QED
      BY <1>2, <2>1, NoConflictMeans DEF Free
  <1>3. CASE k = i
    <2>1. j \in Active \ {i} /\ s \in claims[j]
      BY <1>1, <1>3
    <2>. QED
      BY <1>3, <2>1, NoConflictMeans, ConflictIsSymmetric DEF Free
  <1>4. CASE j # i /\ k # i
    BY <1>1, <1>4, NoConflictMeans
  <1>. QED
    BY <1>2, <1>3, <1>4

\* A set that is retained leaves the rest of the list as it was.
LEMMA Skipped ==
  ASSUME TypeOK, NEW p \in Procs
  PROVE  /\ Skip(p) \in Rec
         /\ Skip(p).todo = rec[p].todo /\ Skip(p).at = None /\ Skip(p).probes = 0
  <1>. DEFINE r == rec[p]
  <1>1. r \in Rec
    BY DEF TypeOK
  <1>2. Skip(p) = [r EXCEPT !.at = None, !.probes = 0]
    BY DEF Skip
  <1>. HIDE DEF r
  <1>3. Skip(p) = [todo |-> r.todo, at |-> None, probes |-> 0] /\ r.todo \in SUBSET Ids
    BY <1>1, <1>2
  <1>. QED
    BY <1>3 DEF r

----------------------------------------------------------------------------
(* One lemma per action. *)

\* Nothing is held, listed or used at first.
LEMMA InitInv == Init => Inv
  <1>. SUFFICES ASSUME Init PROVE Inv
    OBVIOUS
  <1>1. TypeOK
    BY DEF Init, TypeOK
  <1>. QED
    BY <1>1 DEF Init, Inv, NoConflict, Active, WorkersKeepClaims,
                ListedWereAcquired, ProbedIsDead, PortsOwn

\* acquireResourceClaimSet: a new set whose claims were found free.
LEMMA AcquireStep ==
  ASSUME Inv, NEW p \in Procs, NEW i \in Ids, NEW q \in Requests, Acquire(p, i, q)
  PROVE  Inv'
  <1>. USE DEF Inv, TypeOK, Acquire
  <1>1. TypeOK'
    BY DEF Specs
  <1>2. NoConflict'
    <2>1. Active' = Active \cup {i}
      BY DEF Active
    <2>2. \A j \in Ids \ {i} : claims'[j] = claims[j]
      OBVIOUS
    <2>3. claims'[i] = q
      OBVIOUS
    <2>4. TypeOK /\ NoConflict /\ Free(q, i)
      OBVIOUS
    <2>. HIDE DEF Inv, TypeOK, Acquire
    <2>. QED
      BY <2>1, <2>2, <2>3, <2>4, ConflictFreeGrown
  <1>3. WorkersKeepClaims'
    BY DEF WorkersKeepClaims
  <1>4. ListedWereAcquired'
    BY DEF ListedWereAcquired
  <1>5. ProbedIsDead'
    BY DEF ProbedIsDead, ListedWereAcquired
  <1>6. PortsOwn'
    BY DEF PortsOwn
  <1>. QED
    BY <1>1, <1>2, <1>3, <1>4, <1>5, <1>6

\* expandResourceClaimSet: the claims that are new were found free.
LEMMA ExpandStep ==
  ASSUME Inv, NEW p \in Procs, NEW i \in Ids, NEW q \in Requests, Expand(p, i, q)
  PROVE  Inv'
  <1>. USE DEF Inv, TypeOK, Expand
  <1>1. TypeOK'
    BY DEF Specs
  <1>2. NoConflict'
    <2>1. Active' = Active \cup {i} /\ i \in Active
      BY DEF Active, Owns
    <2>2. \A j \in Ids \ {i} : claims'[j] = claims[j]
      OBVIOUS
    <2>3. claims'[i] = claims[i] \cup q
      OBVIOUS
    <2>4. \A s \in claims'[i] : s \in q \ claims[i] \/ (i \in Active /\ s \in claims[i])
      BY <2>1, <2>3
    <2>5. TypeOK /\ NoConflict /\ Free(q \ claims[i], i)
      OBVIOUS
    <2>. HIDE DEF Inv, TypeOK, Expand
    <2>. QED
      BY <2>1, <2>2, <2>4, <2>5, ConflictFreeGrown
  <1>3. WorkersKeepClaims' /\ ListedWereAcquired' /\ ProbedIsDead' /\ PortsOwn'
    BY DEF WorkersKeepClaims, ListedWereAcquired, ProbedIsDead, PortsOwn
  <1>. QED
    BY <1>1, <1>2, <1>3

\* assertOwned has just found the set active and its own.
LEMMA WorkStep ==
  ASSUME Inv, NEW p \in Procs, NEW i \in Ids, Work(p, i)
  PROVE  Inv'
  <1>. USE DEF Inv, TypeOK, Work
  <1>1. TypeOK'
    OBVIOUS
  <1>2. NoConflict'
    BY ConflictFreeKept DEF Active
  <1>3. WorkersKeepClaims'
    BY DEF WorkersKeepClaims, Owns
  <1>4. PortsOwn'
    BY DEF PortsOwn, Owns
  <1>5. ListedWereAcquired' /\ ProbedIsDead'
    BY DEF ListedWereAcquired, ProbedIsDead
  <1>. QED
    BY <1>1, <1>2, <1>3, <1>4, <1>5

\* A renewal, a failed one and the passing of time touch neither status nor
\* claims.
LEMMA TimeStep ==
  ASSUME Inv, NEW i \in Ids,
         Lapse(i) \/ \E p \in Procs : Renew(p, i) \/ RenewFails(p, i)
  PROVE  Inv'
  <1>1. UNCHANGED <<status, owner, claims, alive, owned, using, misses, rec>>
    BY DEF Lapse, Renew, RenewFails
  <1>2. TypeOK'
    <2>1. lapsed' \subseteq Ids
      BY DEF Lapse, Renew, RenewFails, Inv, TypeOK
    <2>2. failed' \in [Procs -> SUBSET Ids]
      BY DEF Lapse, Renew, RenewFails, Inv, TypeOK
    <2>. QED
      BY <1>1, <2>1, <2>2 DEF Inv, TypeOK
  <1>3. NoConflict'
    BY <1>1, ConflictFreeKept DEF Active, Inv
  <1>4. WorkersKeepClaims' /\ ListedWereAcquired' /\ ProbedIsDead' /\ PortsOwn'
    BY <1>1 DEF Inv, WorkersKeepClaims, ListedWereAcquired, ProbedIsDead, PortsOwn
  <1>. QED
    BY <1>2, <1>3, <1>4 DEF Inv

\* Only the owner has the set in its map, and it stops to work under it.
LEMMA ReleaseStep ==
  ASSUME Inv, NEW p \in Procs, NEW i \in Ids, Release(p, i)
  PROVE  Inv'
  <1>. USE DEF Inv, TypeOK, Release
  <1>1. TypeOK'
    OBVIOUS
  <1>2. NoConflict'
    BY ConflictFreeKept DEF Active
  <1>3. WorkersKeepClaims'
    <2>. SUFFICES ASSUME NEW r \in alive, NEW j \in using'[r]
                  PROVE  status'[j] = "active" /\ owner[j] = r
      BY DEF WorkersKeepClaims
    <2>1. r \in Procs /\ j \in using[r] /\ j \in owned[r] /\ j \in Ids
      BY DEF PortsOwn
    <2>2. status[j] = "active" /\ owner[j] = r
      BY <2>1 DEF WorkersKeepClaims
    <2>3. owner[i] = p
      BY DEF PortsOwn
    <2>4. j # i
      BY <2>1, <2>2, <2>3
    <2>. QED
      BY <2>1, <2>2, <2>4
  <1>4. ListedWereAcquired'
    <2>1. \A j \in Ids : status[j] # "unused" => status'[j] # "unused"
      OBVIOUS
    <2>. QED
      BY <2>1 DEF ListedWereAcquired
  <1>5. ProbedIsDead'
    BY DEF ProbedIsDead
  <1>6. PortsOwn'
    BY DEF PortsOwn
  <1>. QED
    BY <1>1, <1>2, <1>3, <1>4, <1>5, <1>6

\* The steps of a recovery that only read.
LEMMA RecoverReadsStep ==
  ASSUME Inv, NEW p \in Procs,
         RecList(p) \/ RecProbe(p) \/ \E i \in Ids : RecNext(p, i)
  PROVE  Inv'
  <1>. USE DEF Inv, TypeOK
  <1>1. UNCHANGED <<status, owner, claims, lapsed, alive, owned, failed, using>>
    BY DEF RecList, RecProbe, RecNext
  <1>2. NoConflict'
    BY <1>1, ConflictFreeKept DEF Active
  <1>3. WorkersKeepClaims' /\ PortsOwn'
    BY <1>1 DEF WorkersKeepClaims, PortsOwn
  <1>4. TypeOK' /\ ListedWereAcquired' /\ ProbedIsDead'
    <2>1. CASE RecList(p)
      BY <1>1, <2>1 DEF RecList, Active, ListedWereAcquired, ProbedIsDead
    <2>2. ASSUME NEW i \in Ids, RecNext(p, i)
          PROVE  TypeOK' /\ ListedWereAcquired' /\ ProbedIsDead'
      BY <1>1, <2>2 DEF RecNext, ListedWereAcquired, ProbedIsDead
    <2>3. CASE RecProbe(p)
      <3>1. misses' \in 0..MaxMisses
        BY <2>3 DEF RecProbe
      <3>2. CASE rec' = [rec EXCEPT ![p] = Skip(p)]
        BY <1>1, <3>1, <3>2, Skipped DEF ListedWereAcquired, ProbedIsDead
      <3>3. CASE /\ rec' = [rec EXCEPT ![p].probes = @ + 1]
                 /\ rec[p].probes < 2 /\ rec[p].at # None
                 /\ owner[rec[p].at] \notin alive
        <4>1. rec[p] \in Rec
          OBVIOUS
        <4>2. /\ rec'[p] \in Rec
              /\ rec'[p].todo = rec[p].todo /\ rec'[p].at = rec[p].at
          BY <3>3, <4>1
        <4>3. \A r \in Procs \ {p} : rec'[r] = rec[r]
          BY <3>3
        <4>4. rec' \in [Procs -> Rec]
          BY <3>3, <4>2
        <4>. QED
          BY <1>1, <3>1, <3>3, <4>2, <4>3, <4>4 DEF ListedWereAcquired, ProbedIsDead
      <3>. QED
        BY <2>3, <3>2, <3>3 DEF RecProbe
    <2>. QED
      BY <2>1, <2>2, <2>3
  <1>. QED
    BY <1>2, <1>3, <1>4

\* A set is expired only if its owner is dead: no worker uses it.
LEMMA RecCommitStep ==
  ASSUME Inv, NEW p \in Procs, RecCommit(p)
  PROVE  Inv'
  <1>. USE DEF Inv, TypeOK
  <1>. DEFINE i == rec[p].at
  <1>1. i \in Ids /\ owner[i] \notin alive
    BY DEF RecCommit, ProbedIsDead
  <1>2. UNCHANGED <<owner, claims, lapsed, alive, owned, failed, using, misses>>
    BY DEF RecCommit
  <1>3. /\ status' \in [Ids -> {"unused", "active", "released", "expired"}]
        /\ \A j \in Ids : \/ status'[j] = status[j]
                          \/ j = i /\ status[j] = "active" /\ status'[j] = "expired"
    BY <1>1 DEF RecCommit
  <1>4. /\ rec' \in [Procs -> Rec]
        /\ \A r \in Procs : \/ rec'[r] = rec[r]
                             \/ /\ rec'[r].todo \subseteq rec[r].todo
                                /\ rec'[r].at = None /\ rec'[r].probes = 0
    <2>1. rec' = [rec EXCEPT ![p] = Skip(p)] \/ rec' = [rec EXCEPT ![p] = NoRec]
      BY DEF RecCommit
    <2>2. rec \in [Procs -> Rec] /\ rec'[p] \in {Skip(p), NoRec} /\ NoRec \in Rec
      BY <2>1
    <2>. QED
      BY <2>1, <2>2, Skipped
  <1>5. TypeOK'
    BY <1>2, <1>3, <1>4
  <1>6. NoConflict'
    BY <1>2, <1>3, ConflictFreeKept DEF Active
  <1>7. WorkersKeepClaims'
    BY <1>1, <1>2, <1>3 DEF WorkersKeepClaims
  <1>8. ListedWereAcquired'
    <2>. SUFFICES ASSUME NEW r \in Procs,
                         NEW j \in rec'[r].todo \cup ({rec'[r].at} \ {None})
                  PROVE  status'[j] # "unused"
      BY DEF ListedWereAcquired
    <2>1. j \in rec[r].todo \cup ({rec[r].at} \ {None}) /\ j \in Ids
      BY <1>4
    <2>. QED
      BY <1>3, <2>1 DEF ListedWereAcquired
  <1>9. ProbedIsDead'
    BY <1>2, <1>4 DEF ProbedIsDead
  <1>10. PortsOwn'
    BY <1>2, <1>3 DEF PortsOwn
  <1>. QED
    BY <1>5, <1>6, <1>7, <1>8, <1>9, <1>10

\* A dead process stays dead, so what was probed stays true.
LEMMA CrashStep ==
  ASSUME Inv, NEW p \in Procs, Crash(p)
  PROVE  Inv'
  <1>. USE DEF Inv, TypeOK, Crash
  <1>1. TypeOK'
    OBVIOUS
  <1>2. NoConflict'
    BY ConflictFreeKept DEF Active
  <1>3. WorkersKeepClaims' /\ PortsOwn'
    BY DEF WorkersKeepClaims, PortsOwn
  <1>4. ListedWereAcquired' /\ ProbedIsDead'
    BY DEF ListedWereAcquired, ProbedIsDead
  <1>. QED
    BY <1>1, <1>2, <1>3, <1>4

\* A step that changes nothing.
LEMMA StutterStep == ASSUME Inv, UNCHANGED vars PROVE Inv'
  BY DEF Inv, vars, TypeOK, NoConflict, Active, WorkersKeepClaims,
         ListedWereAcquired, ProbedIsDead, PortsOwn

\* Every step preserves the invariant.
LEMMA NextInv == ASSUME Inv, [Next]_vars PROVE Inv'
  BY AcquireStep, ExpandStep, WorkStep, TimeStep, ReleaseStep, RecoverReadsStep,
     RecCommitStep, CrashStep, StutterStep DEF Next, Recover

----------------------------------------------------------------------------
(* The theorems. *)

\* Inv holds in every reachable state.
THEOREM Invariance == Spec => []Inv
  BY InitInv, NextInv, PTL DEF Spec

\* The ledger and the ports keep their types, for every set of processes,
\* claim sets and requests.
THEOREM TypeCorrect == Spec => []TypeOK
  <1>1. Inv => TypeOK
    BY DEF Inv
  <1>. QED
    BY <1>1, Invariance, PTL

\* assertNoConflicts in acquire and in expand is enough: no two active claim
\* sets ever conflict.
THEOREM ClaimsExclude == Spec => []NoConflict
  <1>1. Inv => NoConflict
    BY DEF Inv
  <1>. QED
    BY <1>1, Invariance, PTL

\* recoverExpiredParallelClaims never takes the claims of a living worker,
\* although it decides on a stale list and on probes made earlier.
THEOREM NobodyIsRobbed == Spec => []WorkersKeepClaims
  <1>1. Inv => WorkersKeepClaims
    BY DEF Inv
  <1>. QED
    BY <1>1, Invariance, PTL

\* Two working processes never work under conflicting claims.
WorkIsExclusive ==
  \A p, r \in alive : \A i \in using[p], j \in using[r] : i # j =>
     \A s \in claims[i], t \in claims[j] : ~ClaimsConflict(s, t)

\* What the claims are for: whatever stalls, dies and is recovered, two
\* workers under different sets never work on the same resource.
THEOREM ExclusiveWork == Spec => []WorkIsExclusive
  <1>1. Inv => WorkIsExclusive
    <2>. SUFFICES ASSUME Inv, NEW p \in alive, NEW r \in alive,
                         NEW i \in using[p], NEW j \in using[r], i # j,
                         NEW s \in claims[i], NEW t \in claims[j]
                  PROVE  ~ClaimsConflict(s, t)
      BY DEF WorkIsExclusive
    <2>1. i \in Active /\ j \in Active
      BY DEF Inv, TypeOK, WorkersKeepClaims, Active
    <2>. QED
      BY <2>1, NoConflictMeans DEF Inv
  <1>. QED
    BY <1>1, Invariance, PTL

\* A claim set ends once: releaseResourceClaimSet and
\* recoverExpiredResourceClaimSet never undo each other.
THEOREM EndsOnce == Spec => OneEnd
  <1>. DEFINE Kept == \A i \in Ids : status[i] \in {"released", "expired"}
                                        => status'[i] = status[i]
  <1>1. ASSUME Inv, [Next]_vars PROVE [Kept]_vars
    <2>1. TypeOK
      BY <1>1 DEF Inv
    <2>2. ASSUME NEW p \in Procs, NEW i \in Ids, NEW q \in Requests,
                 Acquire(p, i, q) \/ Expand(p, i, q)
          PROVE  Kept
      BY <2>1, <2>2 DEF Acquire, Expand, TypeOK
    <2>3. ASSUME NEW p \in Procs, NEW i \in Ids,
                 Work(p, i) \/ Renew(p, i) \/ RenewFails(p, i) \/ Release(p, i)
          PROVE  Kept
      BY <2>1, <2>3 DEF Work, Renew, RenewFails, Release, TypeOK
    <2>4. ASSUME NEW p \in Procs, Recover(p) \/ Crash(p)
          PROVE  Kept
      BY <2>1, <2>4 DEF Recover, RecList, RecNext, RecProbe, RecCommit, Crash, TypeOK
    <2>5. ASSUME NEW i \in Ids, Lapse(i)
          PROVE  Kept
      BY <2>5 DEF Lapse
    <2>. QED
      BY <1>1, <2>2, <2>3, <2>4, <2>5 DEF Next
  <1>. QED
    BY <1>1, Invariance, PTL DEF Spec, OneEnd
=============================================================================
