------------------------ MODULE ParallelCapacityProofs ------------------------
(***************************************************************************)
(* Theorems about ParallelCapacity, for every set of processes, projects   *)
(* and tasks and every limit.                                              *)
(***************************************************************************)
EXTENDS ParallelCapacity, SequenceTheorems, FiniteSetTheorems, TLAPS

----------------------------------------------------------------------------
\* Scopes and limits.

\* What reserve() may walk for task t.
PossibleScopes(p, t) ==
  {<<"global">>, <<"project", Project[p]>>}
  \cup {<<"provider", q>> : q \in DOMAIN MaxByProvider[p]}
  \cup {<<"model", q>> : q \in DOMAIN MaxByModel[p]}

\* A pair over X is a sequence over X.
LEMMA PairIsSeq ==
  ASSUME NEW X, NEW x \in X, NEW y \in X
  PROVE  <<x, y>> \in Seq(X) /\ Len(<<x, y>>) = 2
  OBVIOUS

\* reserve() walks at least the global and the project scope.
LEMMA ScopesType ==
  ASSUME NEW p \in Procs, NEW t \in Tasks
  PROVE  /\ ScopesOf(p, t) \in Seq(PossibleScopes(p, t))
         /\ Len(ScopesOf(p, t)) \in Nat \ {0}
  <1>. DEFINE X == PossibleScopes(p, t)
              A == <<<<"global">>, <<"project", Project[p]>>>>
              B == IF Provider[t] \in DOMAIN MaxByProvider[p]
                     THEN <<<<"provider", Provider[t]>>>> ELSE <<>>
              C == IF Model[t] \in DOMAIN MaxByModel[p]
                     THEN <<<<"model", Model[t]>>>> ELSE <<>>
  <1>1. A \in Seq(X) /\ Len(A) = 2
    <2>1. <<"global">> \in X /\ <<"project", Project[p]>> \in X
      BY Zenon DEF PossibleScopes
    <2>. QED
      BY <2>1, PairIsSeq
  <1>2. B \in Seq(X)
    <2>1. Provider[t] \in DOMAIN MaxByProvider[p] => <<"provider", Provider[t]>> \in X
      BY DEF PossibleScopes
    <2>. HIDE DEF X
    <2>. QED
      BY <2>1
  <1>3. C \in Seq(X)
    <2>1. Model[t] \in DOMAIN MaxByModel[p] => <<"model", Model[t]>> \in X
      BY DEF PossibleScopes
    <2>. HIDE DEF X
    <2>. QED
      BY <2>1
  <1>. HIDE DEF A, B, C, X
  <1>4. A \o B \in Seq(X) /\ Len(A \o B) \in Nat \ {0}
    BY <1>1, <1>2, ConcatProperties, LenProperties
  <1>5. (A \o B) \o C \in Seq(X) /\ Len((A \o B) \o C) \in Nat \ {0}
    BY <1>3, <1>4, ConcatProperties, LenProperties
  <1>. QED
    BY <1>5 DEF A, B, C, X, ScopesOf

\* Every scope has a positive limit.
LEMMA LimitType ==
  ASSUME NEW p \in Procs, NEW t \in Tasks, NEW ns \in PossibleScopes(p, t)
  PROVE  LimitOf(p, ns) \in Nat \ {0}
  <1>1. CASE ns = <<"global">>
    BY <1>1, CapacityAssumption DEF LimitOf
  <1>2. CASE ns = <<"project", Project[p]>>
    BY <1>2, CapacityAssumption DEF LimitOf
  <1>3. ASSUME NEW q \in DOMAIN MaxByProvider[p], ns = <<"provider", q>>
        PROVE  LimitOf(p, ns) \in Nat \ {0}
    BY <1>3, CapacityAssumption DEF LimitOf
  <1>4. ASSUME NEW q \in DOMAIN MaxByModel[p], ns = <<"model", q>>
        PROVE  LimitOf(p, ns) \in Nat \ {0}
    BY <1>4, CapacityAssumption DEF LimitOf
  <1>. QED
    BY <1>1, <1>2, <1>3, <1>4 DEF PossibleScopes

\* A scope index in range and an ordinal within the limit are a slot.
LEMMA ScopeLimits ==
  ASSUME NEW p \in Procs, NEW t \in Tasks, NEW k \in 1..Len(ScopesOf(p, t))
  PROVE  /\ LimitOf(p, ScopesOf(p, t)[k]) \in Nat \ {0}
         /\ \A o \in 1..LimitOf(p, ScopesOf(p, t)[k]) :
              <<ScopesOf(p, t)[k], o>> \in Slots
  <1>1. ScopesOf(p, t)[k] \in PossibleScopes(p, t)
        /\ DOMAIN ScopesOf(p, t) = 1..Len(ScopesOf(p, t))
    BY ScopesType
  <1>2. ScopesOf(p, t)[k] \in NamespacesOf(p, t)
    BY <1>1 DEF NamespacesOf
  <1>3. ASSUME NEW o \in 1..LimitOf(p, ScopesOf(p, t)[k])
        PROVE  <<ScopesOf(p, t)[k], o>> \in Slots
    <2>1. <<ScopesOf(p, t)[k], o>> \in SlotsOf(p, t)
      BY <1>2 DEF SlotsOf
    <2>. QED
      BY <2>1 DEF Slots
  <1>. QED
    BY <1>1, <1>3, LimitType

\* Every reservation starts at an existing slot.
LEMMA FirstSlot ==
  ASSUME NEW p \in Procs, NEW t \in Tasks
  PROVE  /\ 1 \in 1..Len(ScopesOf(p, t))
         /\ 1 \in 1..LimitOf(p, ScopesOf(p, t)[1])
  BY ScopesType, ScopeLimits

\* The limit of a namespace of p is a number.
LEMMA LimitIsNat ==
  ASSUME NEW p \in Procs, NEW t \in Tasks, NEW ns \in NamespacesOf(p, t)
  PROVE  LimitOf(p, ns) \in Nat
  <1>1. PICK k \in 1..Len(ScopesOf(p, t)) : ns = ScopesOf(p, t)[k]
    BY ScopesType DEF NamespacesOf
  <1>. QED
    BY <1>1, ScopeLimits

\* At most one dispatch is being reserved.
LEMMA OneCurrent ==
  ASSUME TypeOK, NEW p \in Procs, NEW t \in Tasks, NEW u \in Tasks,
         Current(p, t), Current(p, u)
  PROVE  t = u
  <1>1. GraphOrder[t] \in Nat /\ GraphOrder[u] \in Nat
    BY CapacityAssumption
  <1>2. GraphOrder[t] = GraphOrder[u]
    BY <1>1 DEF Current
  <1>. QED
    BY <1>2, CapacityAssumption

\* A reservation at its first scope covers none yet.
LEMMA CoversNone == ASSUME NEW p, NEW ls, NEW scopes PROVE Covers(p, ls, scopes, 1 - 1)
  BY DEF Covers

\* A row is not the absence of a row.
LEMMA RowIsSome == ASSUME NEW r \in Row PROVE r # NoRow
  BY DEF Row, NoRow

\* A lease id that is not in use exists when one is asked for.
LEMMA FreshIdType ==
  ASSUME NEW s, \E i \in RowIds : Unused(s, i)
  PROVE  FreshId(s) \in RowIds
  BY DEF FreshId

----------------------------------------------------------------------------
\* What a step of p leaves alone.

\* The memory of the other processes, and every row of a living one.
Elsewhere(p) ==
  /\ \A q \in Procs : q # p =>
       /\ pc'[q] = pc[q] /\ todo'[q] = todo[q]
       /\ scope'[q] = scope[q] /\ ordinal'[q] = ordinal[q]
       /\ leases'[q] = leases[q] /\ bundle'[q] = bundle[q]
       /\ unreleased'[q] = unreleased[q]
       /\ worker'[q] = worker[q] /\ thrown'[q] = thrown[q]
  /\ \A s \in Slots : row'[s] # row[s] =>
       /\ row'[s] # NoRow => row'[s].owner = p
       /\ row[s] # NoRow => row[s].owner = p \/ Gone(row[s].owner)

\* A step of p preserves the part of every other process.
LEMMA OthersKept ==
  ASSUME Inv, TypeOK', NEW p \in Procs, Elsewhere(p), NEW q \in Procs, q # p
  PROVE  ProcInv(q)'
  <1>1. ProcInv(q) /\ TypeOK
    BY DEF Inv
  <1>2. Accounted(q)'
    BY <1>1 DEF ProcInv, Accounted, Elsewhere
  <1>3. ReservationShape(q)'
    BY <1>1 DEF ProcInv, ReservationShape, Elsewhere, Reserving, Current, Scope
  <1>4. WaveShape(q)'
    BY <1>1 DEF ProcInv, WaveShape, Elsewhere, Current
  <1>5. Backed(q)'
    <2>. SUFFICES ASSUME pc[q] \in {"execute", "integrate"}, NEW t \in Tasks,
                         worker[q][t] \in {"working", "completed", "integrated"}
                  PROVE  Owned(q, t)'
      BY DEF Backed, Elsewhere
    <2>1. Owned(q, t) /\ bundle'[q][t] = bundle[q][t]
      BY <1>1 DEF ProcInv, Backed, Elsewhere
    <2>2. ASSUME NEW l \in bundle[q][t]
          PROVE  row'[l.slot] = [owner |-> q, id |-> l.id]
      <3>1. l.slot \in Slots /\ l.id \in RowIds
        BY <1>1 DEF TypeOK, Lease
      <3>2. row[l.slot] = [owner |-> q, id |-> l.id]
        BY <2>1 DEF Owned
      <3>3. row[l.slot] # NoRow /\ row[l.slot].owner = q
        BY <3>1, <3>2, RowIsSome DEF Row
      <3>. QED
        BY <3>1, <3>2, <3>3 DEF Elsewhere, Gone
    <2>. QED
      BY <2>1, <2>2 DEF Owned
  <1>6. Covered(q)'
    <2>1. Covered(q)
      BY <1>1 DEF ProcInv
    <2>2. /\ pc'[q] = pc[q] /\ todo'[q] = todo[q] /\ scope'[q] = scope[q]
          /\ leases'[q] = leases[q] /\ bundle'[q] = bundle[q]
          /\ worker'[q] = worker[q]
      BY DEF Elsewhere
    <2>. QED
      BY <2>1, <2>2 DEF Covered, Reserving, Current
  <1>7. FailedRelease(q)'
    BY <1>1 DEF ProcInv, FailedRelease, Elsewhere
  <1>. QED
    BY <1>2, <1>3, <1>4, <1>5, <1>6, <1>7 DEF ProcInv

\* A step of p preserves Inv if it preserves the part of p.
LEMMA StepOf ==
  ASSUME Inv, NEW p \in Procs, TypeOK', Elsewhere(p), ProcInv(p)'
  PROVE  Inv'
  BY OthersKept DEF Inv

\* What releaseLeases of the leases ls leaves: rows of others are untouched, and
\* a row of p that stays is not of ls or is remembered as unreleased.
GaveBack(p, ls) ==
  /\ row' \in [Slots -> Row \cup {NoRow}]
  /\ unreleased' \in [Procs -> SUBSET Lease]
  /\ \A q \in Procs : q # p => unreleased'[q] = unreleased[q]
  /\ \A s \in Slots : row'[s] # row[s] =>
       row'[s] = NoRow /\ row[s] # NoRow /\ row[s].owner = p
  /\ \A s \in Slots : row'[s] # NoRow /\ row'[s].owner = p =>
       /\ row'[s] = row[s]
       /\ [slot |-> s, id |-> row[s].id] \in ls \cup unreleased[p] =>
            [slot |-> s, id |-> row[s].id] \in unreleased'[p]

\* releaseLeases does so whichever transactions fail.
LEMMA GivenBack ==
  ASSUME TypeOK, NEW p \in Procs, NEW ls \in SUBSET Lease,
         NEW kept \in SUBSET MayStay(p, ls), GiveBack(p, ls, kept)
  PROVE  GaveBack(p, ls)
  <1>1. /\ row' = Released(p, ls \ kept)
        /\ unreleased' = [unreleased EXCEPT ![p] = @ \cup kept]
        /\ row \in [Slots -> Row \cup {NoRow}]
        /\ unreleased \in [Procs -> SUBSET Lease]
        /\ kept \in SUBSET ls
    BY DEF GiveBack, MayStay, TypeOK
  <1>2. /\ unreleased' \in [Procs -> SUBSET Lease]
        /\ \A q \in Procs : q # p => unreleased'[q] = unreleased[q]
        /\ unreleased'[p] = unreleased[p] \cup kept
    BY <1>1
  <1>3. /\ row' \in [Slots -> Row \cup {NoRow}]
        /\ \A s \in Slots : row'[s] # row[s] =>
             row'[s] = NoRow /\ row[s] # NoRow /\ row[s].owner = p
        /\ \A s \in Slots : row'[s] # NoRow /\ row'[s].owner = p =>
             /\ row'[s] = row[s]
             /\ [slot |-> s, id |-> row[s].id] \notin ls \ kept
    BY <1>1 DEF Released
  <1>. QED
    BY <1>2, <1>3 DEF GaveBack

\* A release without failures forgets nothing.
LEMMA NothingKept ==
  ASSUME TypeOK, NEW p \in Procs, NEW ls \in SUBSET Lease, GiveBack(p, ls, {})
  PROVE  GaveBack(p, ls) /\ unreleased' = unreleased
  <1>1. GaveBack(p, ls)
    BY GivenBack
  <1>2. unreleased' = unreleased
    BY DEF GiveBack, TypeOK
  <1>. QED
    BY <1>1, <1>2

\* The invariant holds before any process starts.
LEMMA InitInv == Init => Inv
  <1>. SUFFICES ASSUME Init PROVE Inv
    OBVIOUS
  <1>1. TypeOK
    BY DEF Init, TypeOK, Off, WorkerStates
  <1>2. ASSUME NEW p \in Procs PROVE ProcInv(p)
    BY <1>2 DEF Init, ProcInv, Accounted, ReservationShape, Reserving, WaveShape,
       Backed, Covered, FailedRelease
  <1>. QED
    BY <1>1, <1>2 DEF Inv

----------------------------------------------------------------------------
\* One lemma per action.

\* An invocation begins with nothing.
LEMMA StartStep ==
  ASSUME Inv, NEW p \in Procs, Start(p)
  PROVE  Inv'
  <1>. USE DEF Start, procVars
  <1>1. TypeOK /\ ProcInv(p)
    BY DEF Inv
  <1>2. TypeOK'
    BY <1>1 DEF TypeOK, Off, WorkerStates
  <1>3. Elsewhere(p)
    BY <1>1 DEF TypeOK, Elsewhere
  <1>4. Accounted(p)'
    BY <1>1 DEF TypeOK, ProcInv, Accounted
  <1>5. ReservationShape(p)'
    BY <1>1 DEF TypeOK, ProcInv, ReservationShape, Reserving
  <1>6. WaveShape(p)'
    BY <1>1
       DEF TypeOK, ProcInv, WaveShape, ReservationShape, Off, WorkerStates,
           Current
  <1>7. Backed(p)'
    BY <1>1 DEF TypeOK, ProcInv, Backed, Owned, WaveShape
  <1>8. Covered(p)'
    BY <1>1 DEF TypeOK, ProcInv, Covered, Covers, ReservationShape, Reserving
  <1>9. FailedRelease(p)'
    BY <1>1 DEF TypeOK, ProcInv, FailedRelease
  <1>. QED
    BY <1>2, <1>3, <1>4, <1>5, <1>6, <1>7, <1>8, <1>9, StepOf DEF ProcInv

\* A wave is selected: its tasks have neither worker nor bundle.
LEMMA SnapshotStep ==
  ASSUME Inv, NEW p \in Procs, NEW candidates \in SUBSET Tasks, Snapshot(p,
         candidates)
  PROVE  Inv'
  <1>. USE DEF Snapshot, procVars
  <1>1. TypeOK /\ ProcInv(p)
    BY DEF Inv
  <1>2. TypeOK'
    BY <1>1 DEF TypeOK, Off, WorkerStates, Selected
  <1>3. Elsewhere(p)
    BY <1>1 DEF TypeOK, Elsewhere
  <1>4. Accounted(p)'
    BY <1>1 DEF TypeOK, ProcInv, Accounted
  <1>5. ReservationShape(p)'
    BY <1>1, FirstSlot DEF TypeOK, ProcInv, ReservationShape, Reserving, Scope
  <1>6. WaveShape(p)'
    BY <1>1
       DEF TypeOK, ProcInv, WaveShape, ReservationShape, Off, WorkerStates,
           Current, Selected
  <1>7. Backed(p)'
    BY <1>1 DEF TypeOK, ProcInv, Backed, Owned, WaveShape
  <1>8. Covered(p)'
    BY <1>1, CoversNone
       DEF TypeOK, ProcInv, Covered, ReservationShape, WaveShape, Off, Reserving
  <1>9. FailedRelease(p)'
    BY <1>1 DEF TypeOK, ProcInv, FailedRelease
  <1>. QED
    BY <1>2, <1>3, <1>4, <1>5, <1>6, <1>7, <1>8, <1>9, StepOf DEF ProcInv

\* Nothing is selected.
LEMMA NothingToDispatchStep ==
  ASSUME Inv, NEW p \in Procs, NothingToDispatch(p)
  PROVE  Inv'
  <1>. USE DEF NothingToDispatch, procVars
  <1>1. TypeOK /\ ProcInv(p)
    BY DEF Inv
  <1>2. TypeOK'
    BY <1>1 DEF TypeOK, Off, WorkerStates
  <1>3. Elsewhere(p)
    BY <1>1 DEF TypeOK, Elsewhere
  <1>4. Accounted(p)'
    BY <1>1 DEF TypeOK, ProcInv, Accounted
  <1>5. ReservationShape(p)'
    BY <1>1 DEF TypeOK, ProcInv, ReservationShape, Reserving
  <1>6. WaveShape(p)'
    BY <1>1
       DEF TypeOK, ProcInv, WaveShape, ReservationShape, Off, WorkerStates,
           Current
  <1>7. Backed(p)'
    BY <1>1 DEF TypeOK, ProcInv, Backed, Owned, WaveShape
  <1>8. Covered(p)'
    BY <1>1 DEF TypeOK, ProcInv, Covered, Covers, ReservationShape, Reserving
  <1>9. FailedRelease(p)'
    BY <1>1 DEF TypeOK, ProcInv, FailedRelease
  <1>. QED
    BY <1>2, <1>3, <1>4, <1>5, <1>6, <1>7, <1>8, <1>9, StepOf DEF ProcInv

\* The preparation of a wave failed and was undone.
LEMMA AbortEndsStep ==
  ASSUME Inv, NEW p \in Procs, AbortEnds(p)
  PROVE  Inv'
  <1>. USE DEF AbortEnds, procVars
  <1>1. TypeOK /\ ProcInv(p)
    BY DEF Inv
  <1>2. TypeOK'
    BY <1>1 DEF TypeOK, Off, WorkerStates, Claimed
  <1>3. Elsewhere(p)
    BY <1>1 DEF TypeOK, Elsewhere
  <1>4. Accounted(p)'
    BY <1>1 DEF TypeOK, ProcInv, Accounted
  <1>5. ReservationShape(p)'
    BY <1>1 DEF TypeOK, ProcInv, ReservationShape, Reserving
  <1>6. WaveShape(p)'
    BY <1>1
       DEF TypeOK, ProcInv, WaveShape, ReservationShape, Off, WorkerStates,
           Current, Claimed
  <1>7. Backed(p)'
    BY <1>1 DEF TypeOK, ProcInv, Backed, Owned, WaveShape
  <1>8. Covered(p)'
    BY <1>1 DEF TypeOK, ProcInv, Covered, Covers, ReservationShape, Reserving
  <1>9. FailedRelease(p)'
    BY <1>1 DEF TypeOK, ProcInv, FailedRelease
  <1>. QED
    BY <1>2, <1>3, <1>4, <1>5, <1>6, <1>7, <1>8, <1>9, StepOf DEF ProcInv

\* assertOwned passed: the worker has its rows.
LEMMA WorkerStartStep ==
  ASSUME Inv, NEW p \in Procs, NEW t \in Tasks, WorkerStart(p, t)
  PROVE  Inv'
  <1>. USE DEF WorkerStart, procVars
  <1>1. TypeOK /\ ProcInv(p)
    BY DEF Inv
  <1>2. TypeOK'
    BY <1>1 DEF TypeOK, Off, WorkerStates
  <1>3. Elsewhere(p)
    BY <1>1 DEF TypeOK, Elsewhere
  <1>4. Accounted(p)'
    BY <1>1 DEF TypeOK, ProcInv, Accounted
  <1>5. ReservationShape(p)'
    BY <1>1 DEF TypeOK, ProcInv, ReservationShape, Reserving
  <1>6. WaveShape(p)'
    BY <1>1
       DEF TypeOK, ProcInv, WaveShape, ReservationShape, Off, WorkerStates,
           Current
  <1>7. Backed(p)'
    BY <1>1 DEF TypeOK, ProcInv, Backed, Owned, WaveShape
  <1>8. Covered(p)'
    BY <1>1 DEF TypeOK, ProcInv, Covered, Covers, ReservationShape, Reserving
  <1>9. FailedRelease(p)'
    BY <1>1 DEF TypeOK, ProcInv, FailedRelease
  <1>. QED
    BY <1>2, <1>3, <1>4, <1>5, <1>6, <1>7, <1>8, <1>9, StepOf DEF ProcInv

\* A refused worker never counts as started.
LEMMA WorkerRefusedStep ==
  ASSUME Inv, NEW p \in Procs, NEW t \in Tasks, WorkerRefused(p, t)
  PROVE  Inv'
  <1>. USE DEF WorkerRefused, procVars
  <1>1. TypeOK /\ ProcInv(p)
    BY DEF Inv
  <1>2. TypeOK'
    BY <1>1 DEF TypeOK, Off, WorkerStates
  <1>3. Elsewhere(p)
    BY <1>1 DEF TypeOK, Elsewhere
  <1>4. Accounted(p)'
    BY <1>1 DEF TypeOK, ProcInv, Accounted
  <1>5. ReservationShape(p)'
    BY <1>1 DEF TypeOK, ProcInv, ReservationShape, Reserving
  <1>6. WaveShape(p)'
    BY <1>1
       DEF TypeOK, ProcInv, WaveShape, ReservationShape, Off, WorkerStates,
           Current
  <1>7. Backed(p)'
    BY <1>1 DEF TypeOK, ProcInv, Backed, Owned, WaveShape
  <1>8. Covered(p)'
    BY <1>1 DEF TypeOK, ProcInv, Covered, Covers, ReservationShape, Reserving
  <1>9. FailedRelease(p)'
    BY <1>1 DEF TypeOK, ProcInv, FailedRelease
  <1>. QED
    BY <1>2, <1>3, <1>4, <1>5, <1>6, <1>7, <1>8, <1>9, StepOf DEF ProcInv

\* A settled worker keeps its rows.
LEMMA WorkerSettlesStep ==
  ASSUME Inv, NEW p \in Procs, NEW t \in Tasks, NEW outcome \in {"completed",
         "failed"}, WorkerSettles(p, t, outcome)
  PROVE  Inv'
  <1>. USE DEF WorkerSettles, procVars
  <1>1. TypeOK /\ ProcInv(p)
    BY DEF Inv
  <1>2. TypeOK'
    BY <1>1 DEF TypeOK, Off, WorkerStates
  <1>3. Elsewhere(p)
    BY <1>1 DEF TypeOK, Elsewhere
  <1>4. Accounted(p)'
    BY <1>1 DEF TypeOK, ProcInv, Accounted
  <1>5. ReservationShape(p)'
    BY <1>1 DEF TypeOK, ProcInv, ReservationShape, Reserving
  <1>6. WaveShape(p)'
    BY <1>1
       DEF TypeOK, ProcInv, WaveShape, ReservationShape, Off, WorkerStates,
           Current
  <1>7. Backed(p)'
    BY <1>1 DEF TypeOK, ProcInv, Backed, Owned, WaveShape
  <1>8. Covered(p)'
    BY <1>1 DEF TypeOK, ProcInv, Covered, Covers, ReservationShape, Reserving
  <1>9. FailedRelease(p)'
    BY <1>1 DEF TypeOK, ProcInv, FailedRelease
  <1>. QED
    BY <1>2, <1>3, <1>4, <1>5, <1>6, <1>7, <1>8, <1>9, StepOf DEF ProcInv

\* Integration begins with the bundles of the wave.
LEMMA AllSettledStep ==
  ASSUME Inv, NEW p \in Procs, AllSettled(p)
  PROVE  Inv'
  <1>. USE DEF AllSettled, procVars
  <1>1. TypeOK /\ ProcInv(p)
    BY DEF Inv
  <1>2. TypeOK'
    BY <1>1 DEF TypeOK, Off, WorkerStates
  <1>3. Elsewhere(p)
    BY <1>1 DEF TypeOK, Elsewhere
  <1>4. Accounted(p)'
    BY <1>1 DEF TypeOK, ProcInv, Accounted
  <1>5. ReservationShape(p)'
    BY <1>1 DEF TypeOK, ProcInv, ReservationShape, Reserving
  <1>6. WaveShape(p)'
    BY <1>1
       DEF TypeOK, ProcInv, WaveShape, ReservationShape, Off, WorkerStates,
           Current
  <1>7. Backed(p)'
    BY <1>1 DEF TypeOK, ProcInv, Backed, Owned, WaveShape
  <1>8. Covered(p)'
    BY <1>1 DEF TypeOK, ProcInv, Covered, Covers, ReservationShape, Reserving
  <1>9. FailedRelease(p)'
    BY <1>1 DEF TypeOK, ProcInv, FailedRelease
  <1>. QED
    BY <1>2, <1>3, <1>4, <1>5, <1>6, <1>7, <1>8, <1>9, StepOf DEF ProcInv

\* The wave is given up with its bundles.
LEMMA ObserverThrowsStep ==
  ASSUME Inv, NEW p \in Procs, ObserverThrows(p)
  PROVE  Inv'
  <1>. USE DEF ObserverThrows, procVars
  <1>1. TypeOK /\ ProcInv(p)
    BY DEF Inv
  <1>2. TypeOK'
    BY <1>1 DEF TypeOK, Off, WorkerStates
  <1>3. Elsewhere(p)
    BY <1>1 DEF TypeOK, Elsewhere
  <1>4. Accounted(p)'
    BY <1>1 DEF TypeOK, ProcInv, Accounted
  <1>5. ReservationShape(p)'
    BY <1>1 DEF TypeOK, ProcInv, ReservationShape, Reserving
  <1>6. WaveShape(p)'
    BY <1>1
       DEF TypeOK, ProcInv, WaveShape, ReservationShape, Off, WorkerStates,
           Current
  <1>7. Backed(p)'
    BY <1>1 DEF TypeOK, ProcInv, Backed, Owned, WaveShape
  <1>8. Covered(p)'
    BY <1>1 DEF TypeOK, ProcInv, Covered, Covers, ReservationShape, Reserving
  <1>9. FailedRelease(p)'
    BY <1>1 DEF TypeOK, ProcInv, FailedRelease
  <1>. QED
    BY <1>2, <1>3, <1>4, <1>5, <1>6, <1>7, <1>8, <1>9, StepOf DEF ProcInv

\* Integration of one worker.
LEMMA IntegrateOneStep ==
  ASSUME Inv, NEW p \in Procs, NEW t \in Tasks, IntegrateOne(p, t)
  PROVE  Inv'
  <1>. USE DEF IntegrateOne, procVars
  <1>1. TypeOK /\ ProcInv(p)
    BY DEF Inv
  <1>2. TypeOK'
    BY <1>1 DEF TypeOK, Off, WorkerStates
  <1>3. Elsewhere(p)
    BY <1>1 DEF TypeOK, Elsewhere
  <1>4. Accounted(p)'
    BY <1>1 DEF TypeOK, ProcInv, Accounted
  <1>5. ReservationShape(p)'
    BY <1>1 DEF TypeOK, ProcInv, ReservationShape, Reserving
  <1>6. WaveShape(p)'
    BY <1>1
       DEF TypeOK, ProcInv, WaveShape, ReservationShape, Off, WorkerStates,
           Current
  <1>7. Backed(p)'
    BY <1>1 DEF TypeOK, ProcInv, Backed, Owned, WaveShape
  <1>8. Covered(p)'
    BY <1>1 DEF TypeOK, ProcInv, Covered, Covers, ReservationShape, Reserving
  <1>9. FailedRelease(p)'
    BY <1>1 DEF TypeOK, ProcInv, FailedRelease
  <1>. QED
    BY <1>2, <1>3, <1>4, <1>5, <1>6, <1>7, <1>8, <1>9, StepOf DEF ProcInv

\* The wave goes on to release.
LEMMA IntegrationEndsStep ==
  ASSUME Inv, NEW p \in Procs, IntegrationEnds(p)
  PROVE  Inv'
  <1>. USE DEF IntegrationEnds, procVars
  <1>1. TypeOK /\ ProcInv(p)
    BY DEF Inv
  <1>2. TypeOK'
    BY <1>1 DEF TypeOK, Off, WorkerStates
  <1>3. Elsewhere(p)
    BY <1>1 DEF TypeOK, Elsewhere
  <1>4. Accounted(p)'
    BY <1>1 DEF TypeOK, ProcInv, Accounted
  <1>5. ReservationShape(p)'
    BY <1>1 DEF TypeOK, ProcInv, ReservationShape, Reserving
  <1>6. WaveShape(p)'
    BY <1>1
       DEF TypeOK, ProcInv, WaveShape, ReservationShape, Off, WorkerStates,
           Current
  <1>7. Backed(p)'
    BY <1>1 DEF TypeOK, ProcInv, Backed, Owned, WaveShape
  <1>8. Covered(p)'
    BY <1>1 DEF TypeOK, ProcInv, Covered, Covers, ReservationShape, Reserving
  <1>9. FailedRelease(p)'
    BY <1>1 DEF TypeOK, ProcInv, FailedRelease
  <1>. QED
    BY <1>2, <1>3, <1>4, <1>5, <1>6, <1>7, <1>8, <1>9, StepOf DEF ProcInv

\* The wave goes on to release with an error.
LEMMA IntegrationThrowsStep ==
  ASSUME Inv, NEW p \in Procs, IntegrationThrows(p)
  PROVE  Inv'
  <1>. USE DEF IntegrationThrows, procVars
  <1>1. TypeOK /\ ProcInv(p)
    BY DEF Inv
  <1>2. TypeOK'
    BY <1>1 DEF TypeOK, Off, WorkerStates
  <1>3. Elsewhere(p)
    BY <1>1 DEF TypeOK, Elsewhere
  <1>4. Accounted(p)'
    BY <1>1 DEF TypeOK, ProcInv, Accounted
  <1>5. ReservationShape(p)'
    BY <1>1 DEF TypeOK, ProcInv, ReservationShape, Reserving
  <1>6. WaveShape(p)'
    BY <1>1
       DEF TypeOK, ProcInv, WaveShape, ReservationShape, Off, WorkerStates,
           Current
  <1>7. Backed(p)'
    BY <1>1 DEF TypeOK, ProcInv, Backed, Owned, WaveShape
  <1>8. Covered(p)'
    BY <1>1 DEF TypeOK, ProcInv, Covered, Covers, ReservationShape, Reserving
  <1>9. FailedRelease(p)'
    BY <1>1 DEF TypeOK, ProcInv, FailedRelease
  <1>. QED
    BY <1>2, <1>3, <1>4, <1>5, <1>6, <1>7, <1>8, <1>9, StepOf DEF ProcInv

\* Every worker of the wave was released.
LEMMA WaveEndsStep ==
  ASSUME Inv, NEW p \in Procs, WaveEnds(p)
  PROVE  Inv'
  <1>. USE DEF WaveEnds, procVars
  <1>1. TypeOK /\ ProcInv(p)
    BY DEF Inv
  <1>2. TypeOK'
    BY <1>1 DEF TypeOK, Off, WorkerStates
  <1>3. Elsewhere(p)
    BY <1>1 DEF TypeOK, Elsewhere
  <1>4. Accounted(p)'
    BY <1>1 DEF TypeOK, ProcInv, Accounted
  <1>5. ReservationShape(p)'
    BY <1>1 DEF TypeOK, ProcInv, ReservationShape, Reserving
  <1>6. WaveShape(p)'
    BY <1>1
       DEF TypeOK, ProcInv, WaveShape, ReservationShape, Off, WorkerStates,
           Current
  <1>7. Backed(p)'
    BY <1>1 DEF TypeOK, ProcInv, Backed, Owned, WaveShape
  <1>8. Covered(p)'
    BY <1>1 DEF TypeOK, ProcInv, Covered, Covers, ReservationShape, Reserving
  <1>9. FailedRelease(p)'
    BY <1>1 DEF TypeOK, ProcInv, FailedRelease
  <1>. QED
    BY <1>2, <1>3, <1>4, <1>5, <1>6, <1>7, <1>8, <1>9, StepOf DEF ProcInv

\* A slot was obtained, as an own row or as a new one.
LEMMA ObtainedStep ==
  ASSUME Inv, NEW p \in Procs, NEW t \in Tasks, NEW id \in RowIds,
         Reserving(p, t), Obtained(p, t, id),
         UNCHANGED <<todo, unreleased, worker, thrown>>,
         row' \in [Slots -> Row \cup {NoRow}],
         \A s \in Slots : row'[s] # row[s] =>
           /\ s = Slot(p, t)
           /\ row'[s] = [owner |-> p, id |-> id]
           /\ row[s] # NoRow => Gone(row[s].owner)
  PROVE  Inv'
  <1>. DEFINE got == leases[p] \cup {[slot |-> Slot(p, t), id |-> id]}
  <1>1. TypeOK /\ ProcInv(p) /\ pc[p] = "reserve" /\ Current(p, t)
    BY DEF Inv, Reserving
  <1>2. /\ scope[p] \in 1..Len(ScopesOf(p, t))
        /\ ordinal[p] \in 1..LimitOf(p, Scope(p, t))
    BY <1>1 DEF ProcInv, ReservationShape
  <1>3. Len(ScopesOf(p, t)) \in Nat
    BY ScopesType
  <1>4. Slot(p, t) \in Slots
    BY <1>2, ScopeLimits DEF Slot, Scope
  <1>5. got \in SUBSET Lease
    BY <1>1, <1>4 DEF TypeOK, Lease
  <1>6. bundle[p][t] = {}
    BY <1>1 DEF ProcInv, WaveShape, Current
  <1>9. Covers(p, got, ScopesOf(p, t), scope[p])
    <2>1. Covers(p, leases[p], ScopesOf(p, t), scope[p] - 1)
      BY <1>1 DEF ProcInv, Covered, Reserving
    <2>2. ASSUME NEW k \in 1..scope[p]
          PROVE  \E l \in got, o \in 1..LimitOf(p, ScopesOf(p, t)[k]) :
                   l.slot = <<ScopesOf(p, t)[k], o>>
      <3>1. CASE k = scope[p]
        <4>1. [slot |-> Slot(p, t), id |-> id] \in got
          OBVIOUS
        <4>. QED
          BY <1>2, <3>1, <4>1 DEF Slot, Scope
      <3>2. CASE k # scope[p]
        <4>1. k \in 1..(scope[p] - 1)
          BY <1>2, <1>3, <3>2
        <4>. QED
          BY <2>1, <4>1 DEF Covers
      <3>. QED
        BY <3>1, <3>2
    <2>. QED
      BY <2>2 DEF Covers
  <1>7. CASE scope[p] < Len(ScopesOf(p, t))
    <2>1. /\ leases' = [leases EXCEPT ![p] = got]
          /\ scope' = [scope EXCEPT ![p] = @ + 1]
          /\ ordinal' = [ordinal EXCEPT ![p] = 1]
          /\ UNCHANGED <<pc, bundle>>
      BY <1>7 DEF Obtained
    <2>. HIDE DEF got
    <2>2. TypeOK'
      BY <1>1, <1>2, <1>5, <2>1 DEF TypeOK
    <2>3. Elsewhere(p)
      BY <1>1, <2>1 DEF TypeOK, Elsewhere
    <2>4. Accounted(p)'
      <3>1. /\ leases'[p] = got /\ bundle'[p] = bundle[p]
            /\ unreleased'[p] = unreleased[p]
        BY <1>1, <2>1 DEF TypeOK
      <3>2. ASSUME NEW s \in Slots, row'[s] # NoRow, row'[s].owner = p, row'[s] = row[s]
            PROVE  \/ [slot |-> s, id |-> row'[s].id] \in leases[p]
                   \/ \E u \in Tasks : [slot |-> s, id |-> row'[s].id] \in bundle[p][u]
                   \/ [slot |-> s, id |-> row'[s].id] \in unreleased[p]
        BY <1>1, <3>2 DEF ProcInv, Accounted
      <3>3. ASSUME NEW s \in Slots, row'[s] # row[s]
            PROVE  [slot |-> s, id |-> row'[s].id] \in got
        BY <3>3 DEF got
      <3>. QED
        BY <3>1, <3>2, <3>3 DEF Accounted, got
    <2>5. ReservationShape(p)'
      <3>1. scope[p] + 1 \in 1..Len(ScopesOf(p, t))
        BY <1>2, <1>3, <1>7
      <3>2. 1 \in 1..LimitOf(p, ScopesOf(p, t)[scope[p] + 1])
        BY <3>1, ScopeLimits
      <3>3. ASSUME NEW u \in Tasks, Current(p, u)' PROVE u = t
        BY <1>1, <3>3, OneCurrent DEF Current
      <3>. QED
        BY <1>1, <2>1, <3>1, <3>2, <3>3
           DEF TypeOK, ProcInv, ReservationShape, Reserving, Scope
    <2>6. WaveShape(p)'
      BY <1>1, <2>1 DEF TypeOK, ProcInv, WaveShape, Off, Current
    <2>7. Backed(p)'
      BY <1>1, <2>1 DEF Backed
    <2>8. Covered(p)'
      <3>1. ASSUME NEW u \in Tasks, Current(p, u)' PROVE u = t
        BY <1>1, <3>1, OneCurrent DEF Current
      <3>2. (scope[p] + 1) - 1 = scope[p] /\ scope'[p] = scope[p] + 1 /\ leases'[p] = got
        BY <1>1, <1>2, <2>1 DEF TypeOK
      <3>. QED
        BY <1>1, <1>9, <2>1, <3>1, <3>2 DEF ProcInv, Covered, Reserving
    <2>9. FailedRelease(p)'
      BY <1>1, <2>1 DEF TypeOK, ProcInv, FailedRelease
    <2>. QED
      BY <2>2, <2>3, <2>4, <2>5, <2>6, <2>7, <2>8, <2>9, StepOf DEF ProcInv
  <1>8. CASE ~(scope[p] < Len(ScopesOf(p, t)))
    <2>1. /\ leases' = [leases EXCEPT ![p] = {}]
          /\ scope' = [scope EXCEPT ![p] = 1]
          /\ ordinal' = [ordinal EXCEPT ![p] = 1]
          /\ bundle' = [bundle EXCEPT ![p][t] = got]
          /\ pc' = [pc EXCEPT ![p] = "claim"]
      BY <1>8 DEF Obtained
    <2>. HIDE DEF got
    <2>2. TypeOK'
      BY <1>1, <1>5, <2>1 DEF TypeOK
    <2>3. Elsewhere(p)
      BY <1>1, <2>1 DEF TypeOK, Elsewhere
    <2>4. Accounted(p)'
      <3>1. bundle'[p][t] = got /\ \A u \in Tasks : u # t => bundle'[p][u] = bundle[p][u]
        BY <1>1, <2>1 DEF TypeOK
      <3>. QED
        BY <1>1, <1>6, <2>1, <3>1 DEF TypeOK, ProcInv, Accounted, got
    <2>5. ReservationShape(p)'
      BY <1>1, <2>1 DEF TypeOK, ReservationShape, Reserving
    <2>6. WaveShape(p)'
      BY <1>1, <2>1 DEF TypeOK, ProcInv, WaveShape, Off, Current
    <2>7. Backed(p)'
      BY <1>1, <2>1 DEF TypeOK, Backed
    <2>8. Covered(p)'
      <3>1. /\ bundle'[p][t] = got /\ pc'[p] = "claim"
            /\ \A u \in Tasks : u # t => bundle'[p][u] = bundle[p][u]
        BY <1>1, <2>1 DEF TypeOK
      <3>2. scope[p] = Len(ScopesOf(p, t))
        BY <1>2, <1>3, <1>8
      <3>. QED
        BY <1>1, <1>9, <2>1, <3>1, <3>2 DEF ProcInv, Covered, Reserving
    <2>9. FailedRelease(p)'
      BY <1>1, <2>1 DEF TypeOK, ProcInv, FailedRelease
    <2>. QED
      BY <2>2, <2>3, <2>4, <2>5, <2>6, <2>7, <2>8, <2>9, StepOf DEF ProcInv
  <1>. QED
    BY <1>7, <1>8

\* The slot of a dispatch that is being reserved exists.
LEMMA ReservedSlot ==
  ASSUME Inv, NEW p \in Procs, NEW t \in Tasks, Reserving(p, t)
  PROVE  Slot(p, t) \in Slots
  BY ScopeLimits DEF Inv, ProcInv, ReservationShape, Slot, Scope

\* The row of this process is shared.
LEMMA ReserveOwnStep ==
  ASSUME Inv, NEW p \in Procs, NEW t \in Tasks, ReserveOwn(p, t)
  PROVE  Inv'
  <1>1. Slot(p, t) \in Slots /\ TypeOK
    BY ReservedSlot DEF ReserveOwn, Inv
  <1>2. row[Slot(p, t)].id \in RowIds
    BY <1>1 DEF ReserveOwn, TypeOK, Row
  <1>. QED
    BY <1>1, <1>2, ObtainedStep DEF ReserveOwn, TypeOK

\* A new row, in the place of none or of a dead process's.
LEMMA ReserveFreeStep ==
  ASSUME Inv, NEW p \in Procs, NEW t \in Tasks, ReserveFree(p, t)
  PROVE  Inv'
  <1>1. Slot(p, t) \in Slots /\ TypeOK /\ Reserving(p, t)
    BY ReservedSlot DEF ReserveFree, Inv
  <1>. DEFINE id == FreshId(Slot(p, t))
  <1>2. id \in RowIds
    BY FreshIdType DEF ReserveFree
  <1>3. /\ row' = [row EXCEPT ![Slot(p, t)] = [owner |-> p, id |-> id]]
        /\ Obtained(p, t, id)
        /\ UNCHANGED <<todo, unreleased, worker, thrown>>
        /\ row[Slot(p, t)] # NoRow => Gone(row[Slot(p, t)].owner)
    BY DEF ReserveFree
  <1>. HIDE DEF id
  <1>4. row' \in [Slots -> Row \cup {NoRow}]
    BY <1>1, <1>2, <1>3 DEF TypeOK, Row
  <1>5. \A s \in Slots : row'[s] # row[s] =>
          s = Slot(p, t) /\ row'[s] = [owner |-> p, id |-> id]
    BY <1>1, <1>3 DEF TypeOK
  <1>. QED
    BY <1>1, <1>2, <1>3, <1>4, <1>5, ObtainedStep

\* The next ordinal of the scope.
LEMMA ReserveConflictStep ==
  ASSUME Inv, NEW p \in Procs, NEW t \in Tasks, ReserveConflict(p, t)
  PROVE  Inv'
  <1>. USE DEF ReserveConflict, Conflict
  <1>1. TypeOK /\ ProcInv(p) /\ pc[p] = "reserve" /\ Current(p, t) /\ Reserving(p, t)
    BY DEF Inv, Reserving
  <1>2. TypeOK'
    BY <1>1 DEF TypeOK
  <1>3. Elsewhere(p)
    BY <1>1 DEF TypeOK, Elsewhere
  <1>4. Accounted(p)'
    BY <1>1 DEF ProcInv, Accounted
  <1>5. ReservationShape(p)'
    <2>1. /\ scope[p] \in 1..Len(ScopesOf(p, t))
          /\ ordinal[p] \in 1..LimitOf(p, Scope(p, t))
      BY <1>1 DEF ProcInv, ReservationShape
    <2>2. LimitOf(p, Scope(p, t)) \in Nat
      BY <2>1, ScopeLimits DEF Scope
    <2>3. ordinal[p] + 1 \in 1..LimitOf(p, Scope(p, t))
      BY <2>1, <2>2
    <2>4. ASSUME NEW u \in Tasks, Current(p, u)' PROVE u = t
      BY <1>1, <2>4, OneCurrent DEF Current
    <2>. QED
      BY <1>1, <2>1, <2>3, <2>4
         DEF TypeOK, ProcInv, ReservationShape, Reserving, Scope
  <1>6. WaveShape(p)'
    BY <1>1 DEF ProcInv, WaveShape, Current
  <1>7. Backed(p)'
    BY <1>1 DEF Backed
  <1>8. Covered(p)'
    BY <1>1 DEF TypeOK, ProcInv, Covered, Reserving, Current
  <1>9. FailedRelease(p)'
    BY <1>1 DEF TypeOK, ProcInv, FailedRelease
  <1>. QED
    BY <1>2, <1>3, <1>4, <1>5, <1>6, <1>7, <1>8, <1>9, StepOf DEF ProcInv

\* The scope is full: what was obtained is given back.
LEMMA ReserveFullStep ==
  ASSUME Inv, NEW p \in Procs, NEW t \in Tasks, ReserveFull(p, t)
  PROVE  Inv'
  <1>. USE DEF ReserveFull, Conflict, AfterDispatch, Reserving
  <1>1. TypeOK /\ ProcInv(p)
    BY DEF Inv
  <1>0. GaveBack(p, leases[p]) /\ unreleased' = unreleased
    BY <1>1, NothingKept DEF TypeOK
  <1>2. TypeOK'
    BY <1>0, <1>1 DEF GaveBack, TypeOK, Off, WorkerStates
  <1>3. Elsewhere(p)
    BY <1>0, <1>1 DEF GaveBack, TypeOK, Elsewhere
  <1>4. Accounted(p)'
    BY <1>0, <1>1 DEF GaveBack, TypeOK, ProcInv, Accounted
  <1>5. ReservationShape(p)'
    BY <1>1, FirstSlot DEF TypeOK, ProcInv, ReservationShape, Reserving, Scope
  <1>6. WaveShape(p)'
    BY <1>1
       DEF TypeOK, ProcInv, WaveShape, ReservationShape, Off, WorkerStates,
           Current
  <1>7. Backed(p)'
    BY <1>1 DEF TypeOK, ProcInv, Backed, WaveShape, Current
  <1>8. Covered(p)'
    BY <1>1, CoversNone
       DEF TypeOK, ProcInv, Covered, ReservationShape, WaveShape, Off, Reserving
  <1>9. FailedRelease(p)'
    BY <1>0, <1>1 DEF TypeOK, ProcInv, FailedRelease
  <1>. QED
    BY <1>2, <1>3, <1>4, <1>5, <1>6, <1>7, <1>8, <1>9, StepOf DEF ProcInv

\* The reservation failed: what was obtained is given back.
LEMMA ReserveErrorStep ==
  ASSUME Inv, NEW p \in Procs, NEW t \in Tasks, ReserveError(p, t)
  PROVE  Inv'
  <1>. USE DEF ReserveError, Reserving
  <1>1. TypeOK /\ ProcInv(p)
    BY DEF Inv
  <1>0. GaveBack(p, leases[p])
    <2>1. PICK kept \in SUBSET MayStay(p, leases[p]) : GiveBack(p, leases[p], kept)
      OBVIOUS
    <2>. QED
      BY <1>1, <2>1, GivenBack DEF TypeOK
  <1>2. TypeOK'
    BY <1>0, <1>1 DEF GaveBack, TypeOK, Off, WorkerStates
  <1>3. Elsewhere(p)
    BY <1>0, <1>1 DEF GaveBack, TypeOK, Elsewhere
  <1>4. Accounted(p)'
    BY <1>0, <1>1 DEF GaveBack, TypeOK, ProcInv, Accounted
  <1>5. ReservationShape(p)'
    BY <1>1, FirstSlot DEF TypeOK, ProcInv, ReservationShape, Reserving, Scope
  <1>6. WaveShape(p)'
    BY <1>1
       DEF TypeOK, ProcInv, WaveShape, ReservationShape, Off, WorkerStates,
           Current
  <1>7. Backed(p)'
    BY <1>1 DEF TypeOK, ProcInv, Backed, WaveShape, Current
  <1>8. Covered(p)'
    BY <1>1 DEF TypeOK, ProcInv, Covered, Covers, ReservationShape, Reserving
  <1>9. FailedRelease(p)'
    BY <1>1 DEF TypeOK, ProcInv, FailedRelease
  <1>. QED
    BY <1>2, <1>3, <1>4, <1>5, <1>6, <1>7, <1>8, <1>9, StepOf DEF ProcInv

\* The bundle passes to the worker.
LEMMA ClaimAcquiredStep ==
  ASSUME Inv, NEW p \in Procs, NEW t \in Tasks, ClaimAcquired(p, t)
  PROVE  Inv'
  <1>. USE DEF ClaimAcquired, AfterDispatch
  <1>1. TypeOK /\ ProcInv(p)
    BY DEF Inv
  <1>2. TypeOK'
    BY <1>1 DEF TypeOK, Off, WorkerStates
  <1>3. Elsewhere(p)
    BY <1>1 DEF TypeOK, Elsewhere
  <1>4. Accounted(p)'
    BY <1>1 DEF TypeOK, ProcInv, Accounted
  <1>5. ReservationShape(p)'
    BY <1>1, FirstSlot DEF TypeOK, ProcInv, ReservationShape, Reserving, Scope
  <1>6. WaveShape(p)'
    <2>1. \A u \in Tasks : u # t => ~Current(p, u)
      BY <1>1, OneCurrent
    <2>. QED
      BY ZenonT(30), <1>1, <2>1
         DEF TypeOK, ProcInv, WaveShape, ReservationShape, Off, WorkerStates,
             Current
  <1>7. Backed(p)'
    BY <1>1 DEF TypeOK, ProcInv, Backed, WaveShape, Current
  <1>8. Covered(p)'
    BY <1>1, CoversNone
       DEF TypeOK, ProcInv, Covered, ReservationShape, WaveShape, Off, Reserving
  <1>9. FailedRelease(p)'
    BY <1>1 DEF TypeOK, ProcInv, FailedRelease
  <1>. QED
    BY <1>2, <1>3, <1>4, <1>5, <1>6, <1>7, <1>8, <1>9, StepOf DEF ProcInv

\* The bundle of a dispatch without claims is given back.
LEMMA ClaimConflictStep ==
  ASSUME Inv, NEW p \in Procs, NEW t \in Tasks, ClaimConflict(p, t)
  PROVE  Inv'
  <1>. USE DEF ClaimConflict, DropBundle, AfterDispatch
  <1>1. TypeOK /\ ProcInv(p)
    BY DEF Inv
  <1>0. GaveBack(p, bundle[p][t]) /\ unreleased' = unreleased
    BY <1>1, NothingKept DEF TypeOK
  <1>2. TypeOK'
    BY <1>0, <1>1 DEF GaveBack, TypeOK, Off, WorkerStates
  <1>3. Elsewhere(p)
    BY <1>0, <1>1 DEF GaveBack, TypeOK, Elsewhere
  <1>4. Accounted(p)'
    BY <1>0, <1>1 DEF GaveBack, TypeOK, ProcInv, Accounted, ReservationShape
  <1>5. ReservationShape(p)'
    BY <1>1, FirstSlot DEF TypeOK, ProcInv, ReservationShape, Reserving, Scope
  <1>6. WaveShape(p)'
    <2>1. \A u \in Tasks : u # t => ~Current(p, u)
      BY <1>1, OneCurrent
    <2>. QED
      BY <1>1, <2>1
         DEF TypeOK, ProcInv, WaveShape, ReservationShape, Off, WorkerStates,
             Current
  <1>7. Backed(p)'
    BY <1>1 DEF TypeOK, ProcInv, Backed, WaveShape, Current
  <1>8. Covered(p)'
    BY <1>1, CoversNone
       DEF TypeOK, ProcInv, Covered, ReservationShape, WaveShape, Off, Reserving
  <1>9. FailedRelease(p)'
    BY <1>0, <1>1 DEF TypeOK, ProcInv, FailedRelease
  <1>. QED
    BY <1>2, <1>3, <1>4, <1>5, <1>6, <1>7, <1>8, <1>9, StepOf DEF ProcInv

\* The bundle of the dispatch that failed is given back.
LEMMA ClaimErrorStep ==
  ASSUME Inv, NEW p \in Procs, NEW t \in Tasks, ClaimError(p, t)
  PROVE  Inv'
  <1>1. TypeOK /\ ProcInv(p)
    BY DEF Inv
  <1>0. /\ GaveBack(p, bundle[p][t])
        /\ bundle' = [bundle EXCEPT ![p][t] = {}]
        /\ pc[p] = "claim" /\ Current(p, t) /\ pc' = [pc EXCEPT ![p] = "abort"]
        /\ todo' = [todo EXCEPT ![p] = {}]
        /\ UNCHANGED <<scope, ordinal, leases, worker, thrown>>
    <2>1. PICK kept \in SUBSET MayStay(p, bundle[p][t]) : DropBundle(p, t, kept)
      BY DEF ClaimError
    <2>2. bundle[p][t] \in SUBSET Lease
      BY <1>1 DEF TypeOK
    <2>3. GaveBack(p, bundle[p][t])
      BY <1>1, <2>1, <2>2, GivenBack DEF DropBundle
    <2>. QED
      BY <2>1, <2>3 DEF ClaimError, DropBundle
  <1>2. TypeOK'
    BY <1>0, <1>1 DEF GaveBack, TypeOK, Off, WorkerStates
  <1>3. Elsewhere(p)
    BY <1>0, <1>1 DEF GaveBack, TypeOK, Elsewhere
  <1>4. Accounted(p)'
    BY <1>0, <1>1 DEF GaveBack, TypeOK, ProcInv, Accounted, ReservationShape
  <1>5. ReservationShape(p)'
    BY <1>0, <1>1, FirstSlot DEF TypeOK, ProcInv, ReservationShape, Reserving, Scope
  <1>6. WaveShape(p)'
    <2>1. \A u \in Tasks : u # t => ~Current(p, u)
      BY <1>0, <1>1, OneCurrent
    <2>. QED
      BY <1>0, <1>1, <2>1
         DEF TypeOK, ProcInv, WaveShape, ReservationShape, Off, WorkerStates,
             Current
  <1>7. Backed(p)'
    BY <1>0, <1>1 DEF TypeOK, ProcInv, Backed, WaveShape, Current
  <1>8. Covered(p)'
    BY <1>0, <1>1 DEF TypeOK, ProcInv, Covered, Covers, ReservationShape, Reserving
  <1>9. FailedRelease(p)'
    BY <1>0, <1>1 DEF TypeOK, ProcInv, FailedRelease
  <1>. QED
    BY <1>2, <1>3, <1>4, <1>5, <1>6, <1>7, <1>8, <1>9, StepOf DEF ProcInv

\* One claimed dispatch is undone.
LEMMA AbortOneStep ==
  ASSUME Inv, NEW p \in Procs, NEW t \in Tasks, AbortOne(p, t)
  PROVE  Inv'
  <1>1. TypeOK /\ ProcInv(p)
    BY DEF Inv
  <1>0. /\ GaveBack(p, bundle[p][t])
        /\ bundle' = [bundle EXCEPT ![p][t] = {}]
        /\ pc[p] = "abort" /\ worker' = [worker EXCEPT ![p][t] = "none"]
        /\ UNCHANGED <<pc, todo, scope, ordinal, leases, thrown>>
    <2>1. PICK kept \in SUBSET MayStay(p, bundle[p][t]) : DropBundle(p, t, kept)
      BY DEF AbortOne
    <2>2. bundle[p][t] \in SUBSET Lease
      BY <1>1 DEF TypeOK
    <2>3. GaveBack(p, bundle[p][t])
      BY <1>1, <2>1, <2>2, GivenBack DEF DropBundle
    <2>. QED
      BY <2>1, <2>3 DEF AbortOne, DropBundle
  <1>2. TypeOK'
    BY <1>0, <1>1 DEF GaveBack, TypeOK, Off, WorkerStates
  <1>3. Elsewhere(p)
    BY <1>0, <1>1 DEF GaveBack, TypeOK, Elsewhere
  <1>4. Accounted(p)'
    BY <1>0, <1>1 DEF GaveBack, TypeOK, ProcInv, Accounted
  <1>5. ReservationShape(p)'
    BY <1>0, <1>1, FirstSlot DEF TypeOK, ProcInv, ReservationShape, Reserving, Scope
  <1>6. WaveShape(p)'
    BY <1>0, <1>1
       DEF TypeOK, ProcInv, WaveShape, ReservationShape, Off, WorkerStates,
           Current
  <1>7. Backed(p)'
    BY <1>0, <1>1 DEF TypeOK, ProcInv, Backed, WaveShape, Current
  <1>8. Covered(p)'
    <2>1. /\ pc'[p] = pc[p] /\ pc[p] \in {"abort", "release"}
          /\ bundle'[p][t] = {} /\ worker'[p][t] = "none"
          /\ \A u \in Tasks : u # t =>
               bundle'[p][u] = bundle[p][u] /\ worker'[p][u] = worker[p][u]
      BY <1>0, <1>1 DEF TypeOK
    <2>. QED
      BY <1>1, <2>1 DEF ProcInv, Covered, Reserving
  <1>9. FailedRelease(p)'
    BY <1>0, <1>1 DEF TypeOK, ProcInv, FailedRelease
  <1>. QED
    BY <1>2, <1>3, <1>4, <1>5, <1>6, <1>7, <1>8, <1>9, StepOf DEF ProcInv

\* One dispatch of the wave is released.
LEMMA ReleaseOneStep ==
  ASSUME Inv, NEW p \in Procs, NEW t \in Tasks, ReleaseOne(p, t)
  PROVE  Inv'
  <1>1. TypeOK /\ ProcInv(p)
    BY DEF Inv
  <1>0. /\ GaveBack(p, bundle[p][t])
        /\ bundle' = [bundle EXCEPT ![p][t] = {}]
        /\ pc[p] = "release" /\ worker' = [worker EXCEPT ![p][t] = "none"]
        /\ thrown' \in [Procs -> BOOLEAN]
        /\ \A q \in Procs : q # p => thrown'[q] = thrown[q]
        /\ thrown[p] \/ unreleased'[p] # unreleased[p] => thrown'[p]
        /\ UNCHANGED <<pc, todo, scope, ordinal, leases>>
    <2>1. PICK kept \in SUBSET MayStay(p, bundle[p][t]), failed \in BOOLEAN :
            /\ kept # {} => failed
            /\ DropBundle(p, t, kept)
            /\ thrown' = [thrown EXCEPT ![p] = @ \/ failed]
      BY DEF ReleaseOne
    <2>2. bundle[p][t] \in SUBSET Lease /\ GiveBack(p, bundle[p][t], kept)
      BY <1>1, <2>1 DEF TypeOK, DropBundle
    <2>3. GaveBack(p, bundle[p][t])
      BY <1>1, <2>1, <2>2, GivenBack
    <2>4. unreleased'[p] # unreleased[p] => failed
      BY <1>1, <2>1, <2>2 DEF GiveBack, TypeOK
    <2>5. /\ thrown' \in [Procs -> BOOLEAN]
          /\ \A q \in Procs : q # p => thrown'[q] = thrown[q]
          /\ thrown[p] \/ failed => thrown'[p]
      BY <1>1, <2>1 DEF TypeOK
    <2>. QED
      BY <2>1, <2>3, <2>4, <2>5 DEF ReleaseOne, DropBundle
  <1>2. TypeOK'
    BY <1>0, <1>1 DEF GaveBack, TypeOK, Off, WorkerStates
  <1>3. Elsewhere(p)
    BY <1>0, <1>1 DEF GaveBack, TypeOK, Elsewhere
  <1>4. Accounted(p)'
    BY <1>0, <1>1 DEF GaveBack, TypeOK, ProcInv, Accounted
  <1>5. ReservationShape(p)'
    BY <1>0, <1>1, FirstSlot DEF TypeOK, ProcInv, ReservationShape, Reserving, Scope
  <1>6. WaveShape(p)'
    BY <1>0, <1>1
       DEF TypeOK, ProcInv, WaveShape, ReservationShape, Off, WorkerStates,
           Current
  <1>7. Backed(p)'
    BY <1>0, <1>1 DEF TypeOK, ProcInv, Backed, WaveShape, Current
  <1>8. Covered(p)'
    <2>1. /\ pc'[p] = pc[p] /\ pc[p] \in {"abort", "release"}
          /\ bundle'[p][t] = {} /\ worker'[p][t] = "none"
          /\ \A u \in Tasks : u # t =>
               bundle'[p][u] = bundle[p][u] /\ worker'[p][u] = worker[p][u]
      BY <1>0, <1>1 DEF TypeOK
    <2>. QED
      BY <1>1, <2>1 DEF ProcInv, Covered, Reserving
  <1>9. FailedRelease(p)'
    BY <1>0, <1>1 DEF TypeOK, ProcInv, FailedRelease
  <1>. QED
    BY <1>2, <1>3, <1>4, <1>5, <1>6, <1>7, <1>8, <1>9, StepOf DEF ProcInv

\* Everything that is left is released.
LEMMA FinishStep ==
  ASSUME Inv, NEW p \in Procs, Finish(p)
  PROVE  Inv'
  <1>. USE DEF Finish
  <1>1. TypeOK /\ ProcInv(p)
    BY DEF Inv
  <1>0. GaveBack(p, UNION {bundle[p][u] : u \in Tasks})
    <2>. DEFINE all == UNION {bundle[p][u] : u \in Tasks}
    <2>1. PICK kept \in SUBSET MayStay(p, all) : GiveBack(p, all, kept)
      OBVIOUS
    <2>2. all \in SUBSET Lease
      BY <1>1 DEF TypeOK
    <2>. HIDE DEF all
    <2>3. GaveBack(p, all)
      BY <1>1, <2>1, <2>2, GivenBack
    <2>. QED
      BY <2>3 DEF all
  <1>2. TypeOK'
    BY <1>0, <1>1 DEF GaveBack, TypeOK, Off, WorkerStates
  <1>3. Elsewhere(p)
    BY <1>0, <1>1 DEF GaveBack, TypeOK, Elsewhere
  <1>4. Accounted(p)'
    BY <1>0, <1>1 DEF GaveBack, TypeOK, ProcInv, Accounted, ReservationShape
  <1>5. ReservationShape(p)'
    BY <1>1, FirstSlot DEF TypeOK, ProcInv, ReservationShape, Reserving, Scope
  <1>6. WaveShape(p)'
    BY <1>1
       DEF TypeOK, ProcInv, WaveShape, ReservationShape, Off, WorkerStates,
           Current
  <1>7. Backed(p)'
    BY <1>1 DEF TypeOK, ProcInv, Backed, WaveShape, Current
  <1>8. Covered(p)'
    BY <1>1 DEF TypeOK, ProcInv, Covered, Covers, ReservationShape, Reserving
  <1>9. FailedRelease(p)'
    BY <1>1 DEF TypeOK, ProcInv, FailedRelease
  <1>. QED
    BY <1>2, <1>3, <1>4, <1>5, <1>6, <1>7, <1>8, <1>9, StepOf DEF ProcInv

\* The rows of a dead process are nobody's account.
LEMMA CrashStep ==
  ASSUME Inv, NEW p \in Procs, Crash(p)
  PROVE  Inv'
  <1>. USE DEF Crash, Live
  <1>1. TypeOK /\ ProcInv(p)
    BY DEF Inv
  <1>2. TypeOK'
    BY <1>1 DEF TypeOK, Off, WorkerStates
  <1>3. Elsewhere(p)
    BY <1>1 DEF TypeOK, Elsewhere
  <1>4. Accounted(p)'
    BY <1>1 DEF TypeOK, ProcInv, Accounted
  <1>5. ReservationShape(p)'
    BY <1>1, FirstSlot DEF TypeOK, ProcInv, ReservationShape, Reserving, Scope
  <1>6. WaveShape(p)'
    BY <1>1
       DEF TypeOK, ProcInv, WaveShape, ReservationShape, Off, WorkerStates,
           Current
  <1>7. Backed(p)'
    BY <1>1 DEF TypeOK, ProcInv, Backed, WaveShape, Current
  <1>8. Covered(p)'
    BY <1>1 DEF TypeOK, ProcInv, Covered, Covers, ReservationShape, Reserving
  <1>9. FailedRelease(p)'
    BY <1>1 DEF TypeOK, ProcInv, FailedRelease
  <1>. QED
    BY <1>2, <1>3, <1>4, <1>5, <1>6, <1>7, <1>8, <1>9, StepOf DEF ProcInv

----------------------------------------------------------------------------
\* Every step preserves the invariant.
LEMMA NextInv == Inv /\ [Next]_vars => Inv'
  <1>. SUFFICES ASSUME Inv, [Next]_vars PROVE Inv'
    OBVIOUS
  <1>1. ASSUME NEW p \in Procs, Reserve(p) \/ Claim(p) \/ Abort(p)
        PROVE  Inv'
    BY <1>1, ReserveOwnStep, ReserveFreeStep, ReserveConflictStep,
       ReserveFullStep, ReserveErrorStep, ClaimAcquiredStep, ClaimConflictStep,
       ClaimErrorStep, AbortOneStep, AbortEndsStep
       DEF Reserve, Claim, Abort
  <1>2. ASSUME NEW p \in Procs, Work(p) \/ Integrate(p) \/ Release(p)
        PROVE  Inv'
    BY <1>2, WorkerStartStep, WorkerRefusedStep, WorkerSettlesStep,
       AllSettledStep, ObserverThrowsStep, IntegrateOneStep, IntegrationEndsStep,
       IntegrationThrowsStep, ReleaseOneStep, WaveEndsStep
       DEF Work, Integrate, Release
  <1>3. ASSUME NEW p \in Procs, Start(p) \/ Step(p) \/ Crash(p)
        PROVE  Inv'
    BY <1>1, <1>2, <1>3, StartStep, SnapshotStep, NothingToDispatchStep,
       FinishStep, CrashStep
       DEF Step
  <1>4. CASE UNCHANGED vars
    <2>1. TypeOK'
      BY <1>4 DEF Inv, TypeOK, vars, procVars
    <2>2. ASSUME NEW p \in Procs PROVE ProcInv(p)'
      BY <1>4, <2>2 DEF Inv, vars, procVars, ProcInv, Accounted, ReservationShape, Reserving,
         Scope, Current, WaveShape, Backed, Owned, Covered, FailedRelease
    <2>. QED
      BY <2>1, <2>2 DEF Inv
  <1>. QED
    BY <1>3, <1>4 DEF Next

\* Inv holds in every state the ledgers and processes can reach.
THEOREM Invariance == Spec => []Inv
  BY InitInv, NextInv, PTL DEF Spec

\* The variables keep their types: every lease of a reservation or bundle is a
\* lease of a slot within the limit of its scope.
THEOREM TypeCorrect == Spec => []TypeOK
  <1>1. Inv => TypeOK
    BY DEF Inv
  <1>. QED
    BY <1>1, Invariance, PTL

\* Between two waves no row is left in any ledger, and after a run only the rows
\* whose own release failed, for any limits, scopes and number of projects.
THEOREM NothingLeftBehind == Spec => []IdleHoldsNothing
  <1>1. Inv => IdleHoldsNothing
    <2>. SUFFICES ASSUME Inv, NEW p \in Procs, NEW s \in Slots,
                         pc[p] \in {"new", "snapshot", "ended"},
                         row[s] # NoRow, row[s].owner = p
                  PROVE  /\ pc[p] = "ended"
                         /\ [slot |-> s, id |-> row[s].id] \in unreleased[p]
      BY DEF IdleHoldsNothing
    <2>1. ProcInv(p)
      BY DEF Inv
    <2>2. leases[p] = {} /\ \A t \in Tasks : bundle[p][t] = {}
      BY <2>1 DEF ProcInv, ReservationShape, WaveShape, Off
    <2>3. [slot |-> s, id |-> row[s].id] \in unreleased[p]
      BY <2>1, <2>2 DEF ProcInv, Accounted
    <2>4. pc[p] = "ended"
      BY <2>1, <2>3 DEF ProcInv, FailedRelease
    <2>. QED
      BY <2>3, <2>4
  <1>. QED
    BY <1>1, Invariance, PTL

\* A worker that passed capacityPort.assertOwned owns all its slots until the
\* release phase of its wave, whatever siblings and other processes do.
THEOREM StartedKeepCapacity == Spec => []StartedOwns
  <1>1. Inv => StartedOwns
    BY DEF Inv, ProcInv, Backed, StartedOwns
  <1>. QED
    BY <1>1, Invariance, PTL

\* A running worker's process owns a row of each of its namespaces, within its
\* own limit.
LEMMA WorkerHasSlot ==
  ASSUME Inv, NEW ns \in Namespaces, NEW p \in Using(ns)
  PROVE  /\ LimitOf(p, ns) \in Nat
         /\ \E o \in 1..LimitOf(p, ns) :
              row[<<ns, o>>] # NoRow /\ row[<<ns, o>>].owner = p
  <1>1. PICK t \in Tasks : worker[p][t] = "working" /\ ns \in NamespacesOf(p, t)
    BY DEF Using
  <1>2. p \in Procs /\ ProcInv(p) /\ TypeOK
    BY DEF Using, Inv
  <1>3. Owned(p, t) /\ bundle[p][t] # {}
    BY <1>1, <1>2 DEF ProcInv, Covered, Backed, Owned
  <1>4. Covers(p, bundle[p][t], ScopesOf(p, t), Len(ScopesOf(p, t)))
    BY <1>2, <1>3 DEF ProcInv, Covered
  <1>5. PICK k \in 1..Len(ScopesOf(p, t)) : ns = ScopesOf(p, t)[k]
    BY <1>1, <1>2, ScopesType DEF NamespacesOf
  <1>6. PICK l \in bundle[p][t], o \in 1..LimitOf(p, ns) : l.slot = <<ns, o>>
    BY <1>4, <1>5 DEF Covers
  <1>7. l.id \in RowIds
    <2>1. bundle[p][t] \in SUBSET Lease
      BY <1>1, <1>2 DEF TypeOK
    <2>. QED
      BY <1>6, <2>1 DEF Lease
  <1>8. row[l.slot] = [owner |-> p, id |-> l.id]
    BY <1>3, <1>6 DEF Owned
  <1>9. LimitOf(p, ns) \in Nat
    BY <1>1, <1>2, LimitIsNat
  <1>. QED
    BY <1>2, <1>6, <1>7, <1>8, <1>9, RowIsSome DEF Row

\* Two processes never own the same row, so the processes that pass at most the
\* limit of p are no more than the ordinals below it.
THEOREM ProcessesWithinLimits == Spec => []ProcessesBounded
  <1>1. ASSUME Inv, NEW ns \in Namespaces, NEW p \in Using(ns)
        PROVE  Cardinality({q \in Using(ns) : LimitOf(q, ns) <= LimitOf(p, ns)})
                 <= LimitOf(p, ns)
    <2>. DEFINE n == LimitOf(p, ns)
                S == {q \in Using(ns) : LimitOf(q, ns) <= n}
                Has(q, o) == row[<<ns, o>>] # NoRow /\ row[<<ns, o>>].owner = q
                f == [q \in S |-> CHOOSE o \in 1..n : Has(q, o)]
    <2>0. n \in Nat
      BY <1>1, WorkerHasSlot
    <2>. HIDE DEF n
    <2>1. ASSUME NEW q \in S
          PROVE  f[q] \in 1..n /\ Has(q, f[q])
      <3>1. PICK o \in 1..LimitOf(q, ns) : Has(q, o)
        BY <1>1, WorkerHasSlot
      <3>2. LimitOf(q, ns) \in Nat /\ LimitOf(q, ns) <= n
        BY <1>1, WorkerHasSlot
      <3>3. o \in 1..n
        BY <2>0, <3>2
      <3>. QED
        BY <3>1, <3>3
    <2>2. f \in Injection(S, 1..n)
      <3>1. f \in [S -> 1..n]
        BY <2>1
      <3>2. ASSUME NEW q \in S, NEW r \in S, f[q] = f[r] PROVE q = r
        BY <2>1, <3>2
      <3>. HIDE DEF f, S
      <3>. QED
        BY <3>1, <3>2 DEF Injection, IsInjective
    <2>. HIDE DEF f, S
    <2>3. IsFiniteSet(1..n) /\ Cardinality(1..n) = n
      <3>1. IF 1 > n THEN Cardinality(1..n) = 0
            ELSE Cardinality(1..n) = n - 1 + 1
        BY <2>0, FS_Interval
      <3>. QED
        BY <2>0, <3>1, FS_Interval
    <2>4. Cardinality(S) <= Cardinality(1..n)
      BY <2>2, <2>3, FS_Injection
    <2>5. Cardinality(S) <= n
      BY <2>3, <2>4
    <2>. QED
      BY <2>5 DEF S, n
  <1>2. Inv => ProcessesBounded
    BY <1>1 DEF ProcessesBounded
  <1>. QED
    BY <1>2, Invariance, PTL
=============================================================================
