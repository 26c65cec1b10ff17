------------------------- MODULE WriterLeaseProofs -------------------------
(***************************************************************************)
(* TLAPS proofs about WriterLease, for any set of invocations on any set   *)
(* of machines, any lease duration and grace, and any number of probe      *)
(* confirmations.  Inv is inductive: one lemma per action shows that the   *)
(* action preserves it, and the theorems at the end follow from Inv.       *)
(***************************************************************************)
EXTENDS WriterLease, TLAPS

USE ConstantsAssumption
USE DEF AcquirePc, MirrorPc, LockedPc, UnmirrorPc, EndedPc, RunningPc, AllPc,
        HoldingPc, Goto, Active, acquireVars, renewVars

\* Two writers would both own an active row, and there is only one.
LEMMA Exclusion == ASSUME LeaseInv PROVE MutualExclusion
  BY DEF LeaseInv, HolderOwnsLease, OneActiveRow, MutualExclusion

----------------------------------------------------------------------------
(* What the transactions do to a row. *)

\* A change of a row is visible in its revision, and a row never disappears:
\* what the compare-and-swap of acquireDurableLease relies on.
Successor(row, new) ==
  /\ new \in LeaseRow
  /\ new.revision >= row.revision
  /\ new.revision = row.revision => new = row
  /\ row.status # "none" => new.status # "none"

\* The statuses and revisions a row can move to.
LEMMA FieldTypes ==
  /\ {"active", "released", "stolen"} \subseteq LeaseStatus
  /\ \A n \in Nat : n + 1 \in Nat
  BY DEF LeaseStatus

\* releaseDurableLease leaves a row that is not active.
LEMMA ReleasedRow ==
  ASSUME NEW row \in LeaseRow
  PROVE  /\ Successor(row, Released(row))
         /\ Released(row).status # "active"
         /\ Released(row).status = "stolen" => row.status = "stolen"
  <1>1. CASE row.status = "active"
    <2>1. Released(row) = [row EXCEPT !.status = "released", !.revision = @ + 1]
      BY <1>1 DEF Released
    <2>2. Released(row) \in LeaseRow
      BY <2>1, FieldTypes DEF LeaseRow
    <2>3. Released(row).status = "released" /\ Released(row).revision = row.revision + 1
      BY <2>1 DEF LeaseRow
    <2>4. row.revision \in Nat
      BY DEF LeaseRow
    <2>. QED
      BY <2>2, <2>3, <2>4 DEF Successor
  <1>2. CASE row.status # "active"
    <2>1. Released(row) = row /\ row.revision \in Nat
      BY <1>2 DEF Released, LeaseRow
    <2>. QED
      BY <1>2, <2>1 DEF Successor
  <1>. QED
    BY <1>1, <1>2

\* renewDurableLease keeps an active row active.
LEMMA RenewedRow ==
  ASSUME NEW row \in LeaseRow, row.status = "active", now \in Nat
  PROVE  Successor(row, Renewed(row)) /\ Renewed(row).status = "active"
  <1>1. Renewed(row) \in LeaseRow
    <2>1. now + LeaseDuration \in Nat /\ now + LeaseDuration + StaleGrace \in Nat
      OBVIOUS
    <2>2. row.revision + 1 \in Nat
      BY DEF LeaseRow
    <2>. QED
      BY <2>1, <2>2 DEF Renewed, LeaseRow
  <1>2. Renewed(row).status = row.status /\ Renewed(row).revision = row.revision + 1
    BY DEF Renewed, LeaseRow
  <1>3. row.revision \in Nat
    BY DEF LeaseRow
  <1>. QED
    BY <1>1, <1>2, <1>3 DEF Successor

\* bindDurableLeaseRun keeps an active row active.
LEMMA BoundRow ==
  ASSUME NEW row \in LeaseRow, row.status = "active"
  PROVE  Successor(row, Bound(row)) /\ Bound(row).status = "active"
  <1>1. row.revision \in Nat
    BY DEF LeaseRow
  <1>2. CASE row.bound
    BY <1>1, <1>2 DEF Bound, Successor
  <1>3. CASE ~row.bound
    <2>1. Bound(row) \in LeaseRow
      BY <1>3, FieldTypes DEF Bound, LeaseRow
    <2>2. Bound(row).status = row.status /\ Bound(row).revision = row.revision + 1
      BY <1>3 DEF Bound, LeaseRow
    <2>. QED
      BY <1>1, <2>1, <2>2 DEF Successor
  <1>. QED
    BY <1>2, <1>3

\* A take-over ends the displaced row.
LEMMA DisplacedRow ==
  ASSUME NEW row \in LeaseRow
  PROVE  Successor(row, Displaced(row)) /\ Displaced(row).status = "stolen"
  <1>1. Displaced(row) \in LeaseRow
    BY FieldTypes DEF Displaced, LeaseRow
  <1>2. Displaced(row).status = "stolen" /\ Displaced(row).revision = row.revision + 1
    BY DEF Displaced, LeaseRow
  <1>3. row.revision \in Nat
    BY DEF LeaseRow
  <1>. QED
    BY <1>1, <1>2, <1>3 DEF Successor

\* newLease is an active row.
LEMMA NewRowType ==
  ASSUME NEW bind \in BOOLEAN, now \in Nat
  PROVE  NewRow(bind) \in LeaseRow /\ NewRow(bind).status = "active"
  BY DEF NewRow, LeaseRow, LeaseStatus

\* What a process has observed stays valid while rows only move forward.
LEMMA ObservationKept ==
  ASSUME TypeOK, ObservedStale, now' = now,
         \A r \in Procs : lease[r].status # "none" => Successor(lease[r], lease'[r]),
         \A q \in Procs :
           pc'[q] \in {"probe", "commit"} =>
             /\ pc[q] = pc'[q]
             /\ obsOwner'[q] = obsOwner[q]
             /\ obsRevision'[q] = obsRevision[q]
  PROVE  ObservedStale'
  <1>. SUFFICES ASSUME NEW q \in Procs, NEW r \in Procs, r = obsOwner'[q],
                       pc'[q] \in {"probe", "commit"}, obsOwner'[q] # None
                PROVE  /\ lease'[r].status # "none"
                       /\ lease'[r].revision >= obsRevision'[q]
                       /\ lease'[r].revision = obsRevision'[q] =>
                            lease'[r].graceExpiresAt <= now'
    BY DEF ObservedStale, TypeOK
  <1>1. /\ lease[r].status # "none"
        /\ lease[r].revision >= obsRevision[q]
        /\ lease[r].revision = obsRevision[q] => lease[r].graceExpiresAt <= now
    BY DEF ObservedStale
  <1>2. Successor(lease[r], lease'[r])
    BY <1>1
  <1>3. obsRevision[q] \in Nat /\ lease[r].revision \in Nat /\ lease'[r].revision \in Nat
    BY <1>2 DEF TypeOK, LeaseRow, Successor
  <1>. QED
    BY <1>1, <1>2, <1>3 DEF Successor

----------------------------------------------------------------------------
\* The invariant holds before the first invocation.
LEMMA InitInv == Init => Inv
  <1>. SUFFICES ASSUME Init PROVE Inv
    OBVIOUS
  <1>1. TypeOK
    <2>1. overlap \in BOOLEAN
      BY DEF Init
    <2>2. mirror \in MirrorFile
      BY DEF Init, MirrorFile, NoMirror, LegacyMirror
    <2>3. lease \in [Procs -> LeaseRow]
      BY DEF Init, NoRow, LeaseRow, LeaseStatus
    <2>. QED
      BY <2>1, <2>2, <2>3 DEF Init, TypeOK
  <1>2. LeaseInv
    BY DEF Init, NoRow, LeaseInv, HolderOwnsLease, OneActiveRow, ActiveOwner,
           NoRowYet, ProbedGone, ObservedStale
  <1>3. MirrorOwner
    BY DEF Init, MirrorOwner, MirrorNeverNamesAnother, UsingPc, NoMirror,
           LegacyMirror
  <1>. QED
    BY <1>1, <1>2, <1>3 DEF Inv

----------------------------------------------------------------------------
(* One lemma per action. *)

\* The invocation begins; no state but its location changes.
LEMMA StartStep == ASSUME Inv, NEW p \in Procs, Start(p) PROVE Inv'
  <1>1. TypeOK'
    BY DEF Start, Inv, TypeOK, MirrorFile, NoMirror, EmptyMirror, LeaseMirror
  <1>2. LeaseInv'
    BY DEF Start, Inv, TypeOK, LeaseInv, HolderOwnsLease, OneActiveRow,
           ActiveOwner,
           NoRowYet, ProbedGone, ObservedStale
  <1>3. MirrorOwner'
    BY Exclusion DEF Start, Inv, TypeOK, MutualExclusion, MirrorOwner,
           UsingPc, LegacyMirror,
           MirrorNeverNamesAnother, MirrorFile, NoMirror, EmptyMirror, LeaseMirror
  <1>. QED
    BY <1>1, <1>2, <1>3 DEF Inv

\* No active row was seen.
LEMMA ObserveFreeStep == ASSUME Inv, NEW p \in Procs, ObserveFree(p) PROVE Inv'
  <1>1. TypeOK'
    BY DEF ObserveFree, Inv, TypeOK, MirrorFile, NoMirror, EmptyMirror,
           LeaseMirror
  <1>2. LeaseInv'
    BY DEF ObserveFree, Inv, TypeOK, LeaseInv, HolderOwnsLease, OneActiveRow,
           ActiveOwner,
           NoRowYet, ProbedGone, ObservedStale
  <1>3. MirrorOwner'
    BY Exclusion DEF ObserveFree, Inv, TypeOK, MutualExclusion, MirrorOwner,
           UsingPc, LegacyMirror,
           MirrorNeverNamesAnother, MirrorFile, NoMirror, EmptyMirror, LeaseMirror
  <1>. QED
    BY <1>1, <1>2, <1>3 DEF Inv

\* A fresh lease refuses the acquisition.
LEMMA ObserveFreshStep == ASSUME Inv, NEW p \in Procs, ObserveFresh(p) PROVE Inv'
  <1>1. TypeOK'
    BY DEF ObserveFresh, Forget, Inv, TypeOK, MirrorFile, NoMirror,
           EmptyMirror, LeaseMirror
  <1>2. LeaseInv'
    BY DEF ObserveFresh, Forget, Inv, TypeOK, LeaseInv, HolderOwnsLease,
           OneActiveRow, ActiveOwner,
           NoRowYet, ProbedGone, ObservedStale
  <1>3. MirrorOwner'
    BY Exclusion DEF ObserveFresh, Forget, Inv, TypeOK, MutualExclusion,
           MirrorOwner,
           UsingPc, LegacyMirror,
           MirrorNeverNamesAnother, MirrorFile, NoMirror, EmptyMirror, LeaseMirror
  <1>. QED
    BY <1>1, <1>2, <1>3 DEF Inv

\* The observed revision is the current one, and it is stale.
LEMMA ObserveStaleStep == ASSUME Inv, NEW p \in Procs, ObserveStale(p) PROVE Inv'
  <1>1. PICK r \in Procs :
          /\ Active(r)
          /\ now >= lease[r].graceExpiresAt
          /\ obsOwner' = [obsOwner EXCEPT ![p] = r]
          /\ obsRevision' = [obsRevision EXCEPT ![p] = lease[r].revision]
    BY DEF ObserveStale
  <1>2. lease[r].revision \in Nat /\ lease[r].graceExpiresAt \in Nat
    BY DEF Inv, TypeOK, LeaseRow
  <1>3. TypeOK'
    BY <1>1, <1>2 DEF ObserveStale, Inv, TypeOK
  <1>4. LeaseInv'
    <2>. USE <1>1, <1>2 DEF ObserveStale, Inv, TypeOK, LeaseInv
    <2>1. (HolderOwnsLease /\ OneActiveRow /\ ActiveOwner /\ NoRowYet)'
      BY DEF HolderOwnsLease, OneActiveRow, ActiveOwner, NoRowYet
    <2>2. ProbedGone'
      BY DEF ProbedGone
    <2>3. ObservedStale'
      BY DEF ObservedStale
    <2>. QED
      BY <2>1, <2>2, <2>3
  <1>5. MirrorOwner'
    BY DEF ObserveStale, Inv, TypeOK, MirrorOwner, UsingPc, LegacyMirror,
           MirrorNeverNamesAnother
  <1>. QED
    BY <1>3, <1>4, <1>5 DEF Inv

\* The owner answers, or cannot be asked.
LEMMA ProbeRefusedStep == ASSUME Inv, NEW p \in Procs, ProbeRefused(p) PROVE Inv'
  <1>1. TypeOK'
    BY DEF ProbeRefused, Forget, Inv, TypeOK, MirrorFile, NoMirror,
           EmptyMirror, LeaseMirror
  <1>2. LeaseInv'
    BY DEF ProbeRefused, Forget, Inv, TypeOK, LeaseInv, HolderOwnsLease,
           OneActiveRow, ActiveOwner,
           NoRowYet, ProbedGone, ObservedStale
  <1>3. MirrorOwner'
    BY Exclusion DEF ProbeRefused, Forget, Inv, TypeOK, MutualExclusion,
           MirrorOwner,
           UsingPc, LegacyMirror,
           MirrorNeverNamesAnother, MirrorFile, NoMirror, EmptyMirror, LeaseMirror
  <1>. QED
    BY <1>1, <1>2, <1>3 DEF Inv

\* Only an owner that ended is reported gone.
LEMMA ProbeConfirmedStep == ASSUME Inv, NEW p \in Procs, ProbeConfirmed(p) PROVE Inv'
  <1>1. TypeOK'
    BY DEF ProbeConfirmed, ProbeAnswers, Negative, Inv, TypeOK, MirrorFile,
           NoMirror, EmptyMirror, LeaseMirror
  <1>2. LeaseInv'
    BY DEF ProbeConfirmed, ProbeAnswers, Negative, Inv, TypeOK, LeaseInv,
           HolderOwnsLease, OneActiveRow, ActiveOwner,
           NoRowYet, ProbedGone, ObservedStale
  <1>3. MirrorOwner'
    BY Exclusion DEF ProbeConfirmed, ProbeAnswers, Negative, Inv, TypeOK,
           MutualExclusion, MirrorOwner,
           UsingPc, LegacyMirror,
           MirrorNeverNamesAnother, MirrorFile, NoMirror, EmptyMirror, LeaseMirror
  <1>. QED
    BY <1>1, <1>2, <1>3 DEF Inv

\* The transaction of acquireDurableLease: the one that displaces a row.
LEMMA CommitAcquireStep == ASSUME Inv, NEW p \in Procs, CommitAcquire(p) PROVE Inv'
  <1>. USE DEF Inv, TypeOK, LeaseInv
  <1>1. lease[p].status = "none" /\ pc[p] = "commit"
    BY DEF CommitAcquire, NoRowYet
  <1>2. obsOwner[p] # p
    BY <1>1 DEF CommitAcquire, Unchanged
  <1>3. PICK bind \in BOOLEAN :
          lease' = [r \in Procs |-> CASE r = p -> NewRow(bind)
                                      [] r # p /\ r = obsOwner[p] -> Displaced(lease[r])
                                      [] OTHER -> lease[r]]
    BY DEF CommitAcquire
  <1>4. lease'[p] = NewRow(bind) /\ lease'[p] \in LeaseRow /\ Active(p)'
    BY <1>3, NewRowType
  <1>5. ASSUME NEW r \in Procs, r # p
        PROVE  /\ Successor(lease[r], lease'[r])
               /\ lease'[r].status # "active"
               /\ lease[r].status = "none" => lease'[r].status = "none"
    <2>1. CASE r = obsOwner[p]
      <3>1. lease'[r] = Displaced(lease[r]) /\ lease[r] \in LeaseRow
        BY <1>3, <1>5, <2>1
      <3>2. Active(r)
        BY <2>1 DEF CommitAcquire, Unchanged
      <3>. QED
        BY <3>1, <3>2, DisplacedRow
    <2>2. CASE r # obsOwner[p]
      <3>1. lease'[r] = lease[r] /\ lease[r] \in LeaseRow
        BY <1>3, <1>5, <2>2
      <3>2. ~Active(r)
        BY <2>2 DEF CommitAcquire, Unchanged, OneActiveRow
      <3>. QED
        BY <3>1, <3>2 DEF Successor, LeaseRow
    <2>. QED
      BY <2>1, <2>2
  <1>6. /\ pc' = [pc EXCEPT ![p] = "mirrorOpen"]
        /\ obsOwner' = [obsOwner EXCEPT ![p] = None]
        /\ obsRevision' = [obsRevision EXCEPT ![p] = 0]
        /\ probes' = [probes EXCEPT ![p] = 0]
        /\ tries' = [tries EXCEPT ![p] = 0]
        /\ UNCHANGED <<renewing, renewFailed, mirror, legacyAlive, overlap, now>>
    BY DEF CommitAcquire, Forget
  <1>7. TypeOK'
    <2>1. lease' \in [Procs -> LeaseRow]
      BY <1>3, <1>4, <1>5 DEF Successor
    <2>. QED
      BY <1>6, <2>1
  <1>8. LeaseInv'
    <2>1. HolderOwnsLease'
      <3>. SUFFICES ASSUME NEW q \in Procs, pc'[q] \in HoldingPc, q # p
                    PROVE  FALSE
        BY <1>4 DEF HolderOwnsLease
      <3>1. Active(q) /\ pc[q] \in HoldingPc
        BY <1>6 DEF HolderOwnsLease
      <3>2. q = obsOwner[p]
        BY <3>1 DEF CommitAcquire, Unchanged, OneActiveRow
      <3>. QED
        BY <1>1, <3>1, <3>2 DEF ProbedGone
    <2>2. OneActiveRow'
      BY <1>4, <1>5 DEF OneActiveRow
    <2>3. ActiveOwner'
      BY <1>4, <1>5, <1>6 DEF ActiveOwner
    <2>4. NoRowYet'
      BY <1>4, <1>5, <1>6 DEF NoRowYet
    <2>5. ProbedGone'
      BY <1>1, <1>6 DEF ProbedGone
    <2>6. ObservedStale'
      BY <1>1, <1>4, <1>5, <1>6, ObservationKept
    <2>. QED
      BY <2>1, <2>2, <2>3, <2>4, <2>5, <2>6
  <1>9. MirrorOwner'
    BY <1>1, <1>6 DEF MirrorOwner, UsingPc, LegacyMirror,
           MirrorNeverNamesAnother, NoMirror,
           EmptyMirror,
           LeaseMirror
  <1>. QED
    BY <1>7, <1>8, <1>9

\* The row changed under the acquisition: observe again or give up.
LEMMA CommitRetryStep == ASSUME Inv, NEW p \in Procs, CommitRetry(p) PROVE Inv'
  <1>1. TypeOK'
    <2>1. tries' \in [Procs -> Nat]
      BY DEF CommitRetry, Forget, Inv, TypeOK
    <2>2. obsOwner' \in [Procs -> Procs \cup {None}]
      BY DEF CommitRetry, Forget, Inv, TypeOK
    <2>3. obsRevision' \in [Procs -> Nat] /\ probes' \in [Procs -> Nat]
      BY DEF CommitRetry, Forget, Inv, TypeOK
    <2>4. pc' \in [Procs -> AllPc]
      BY DEF CommitRetry, Inv, TypeOK
    <2>. QED
      BY <2>1, <2>2, <2>3, <2>4 DEF CommitRetry, Inv, TypeOK
  <1>2. LeaseInv'
    BY DEF CommitRetry, Forget, Inv, TypeOK, LeaseInv, HolderOwnsLease,
           OneActiveRow, ActiveOwner, NoRowYet, ProbedGone, ObservedStale
  <1>3. MirrorOwner'
    BY DEF CommitRetry, Inv, TypeOK, MirrorOwner, UsingPc, LegacyMirror,
           MirrorNeverNamesAnother,
           NoMirror, EmptyMirror, LeaseMirror
  <1>. QED
    BY <1>1, <1>2, <1>3 DEF Inv

\* A created file belongs to the one process that is writing.
LEMMA MirrorOpenStep == ASSUME Inv, NEW p \in Procs, MirrorOpen(p) PROVE Inv'
  <1>1. TypeOK'
    BY DEF MirrorOpen, Inv, TypeOK, MirrorFile, NoMirror, EmptyMirror,
           LeaseMirror
  <1>2. LeaseInv'
    BY DEF MirrorOpen, Inv, TypeOK, LeaseInv, HolderOwnsLease, OneActiveRow,
           ActiveOwner,
           NoRowYet, ProbedGone, ObservedStale
  <1>3. MirrorOwner'
    BY Exclusion DEF MirrorOpen, Inv, TypeOK, MutualExclusion, MirrorOwner,
           UsingPc, LegacyMirror,
           MirrorNeverNamesAnother, MirrorFile, NoMirror, EmptyMirror, LeaseMirror
  <1>. QED
    BY <1>1, <1>2, <1>3 DEF Inv

\* A failed mirror gives the row back.
LEMMA MirrorFailsStep ==
  ASSUME Inv, NEW p \in Procs, pc[p] \in MirrorPc, MirrorFails(p),
         UNCHANGED <<renewing, renewFailed, mirror, legacyAlive, overlap, now>>
  PROVE  Inv'
  <1>1. /\ Successor(lease[p], lease'[p])
        /\ lease'[p].status # "active"
        /\ lease' = [lease EXCEPT ![p] = lease'[p]]
    BY ReleasedRow DEF MirrorFails, Inv, TypeOK
  <1>2. TypeOK'
    BY <1>1 DEF MirrorFails, Forget, Successor, Inv, TypeOK
  <1>3. LeaseInv'
    <2>. USE <1>1 DEF MirrorFails, Forget, Successor, Inv, TypeOK, LeaseInv
    <2>1. (HolderOwnsLease /\ OneActiveRow)'
      BY DEF HolderOwnsLease, OneActiveRow
    <2>2. (ActiveOwner /\ NoRowYet)'
      BY DEF ActiveOwner, NoRowYet
    <2>3. ProbedGone'
      BY DEF ProbedGone
    <2>4. ObservedStale'
      <3>1. \A r \in Procs : lease[r] \in LeaseRow /\ lease[r].revision \in Nat
        BY DEF LeaseRow
      <3>2. \A r \in Procs : Successor(lease[r], lease'[r])
        BY <3>1
      <3>. QED
        BY <3>2, ObservationKept
    <2>. QED
      BY <2>1, <2>2, <2>3, <2>4
  <1>4. MirrorOwner'
    BY DEF MirrorFails, Inv, TypeOK, MirrorOwner, UsingPc, LegacyMirror,
           MirrorNeverNamesAnother,
           NoMirror, EmptyMirror, LeaseMirror
  <1>. QED
    BY <1>2, <1>3, <1>4 DEF Inv

\* The content reaches the file this process created, or no file.
LEMMA MirrorFillStep == ASSUME Inv, NEW p \in Procs, MirrorFill(p) PROVE Inv'
  <1>1. CASE MirrorFails(p) /\ UNCHANGED mirror
    BY <1>1, MirrorFailsStep DEF MirrorFill
  <1>2. CASE /\ mirror' = IF mirror = EmptyMirror(p) THEN LeaseMirror(p) ELSE mirror
             /\ Goto(p, "held") /\ Forget(p) /\ UNCHANGED lease
    <2>. USE <1>2 DEF MirrorFill, Forget, Inv, TypeOK
    <2>1. TypeOK'
      BY DEF MirrorFile, EmptyMirror, LeaseMirror
    <2>2. LeaseInv'
      BY DEF LeaseInv, HolderOwnsLease, OneActiveRow, ActiveOwner, NoRowYet,
             ProbedGone, ObservedStale
    <2>3. MirrorOwner'
      BY Exclusion DEF MutualExclusion, MirrorOwner, UsingPc, LegacyMirror,
           MirrorNeverNamesAnother,
             MirrorFile, NoMirror, EmptyMirror, LeaseMirror
    <2>. QED
      BY <2>1, <2>2, <2>3
  <1>. QED
    BY <1>1, <1>2 DEF MirrorFill

\* A live v1 process stops the acquisition here.
LEMMA MirrorInspectStep == ASSUME Inv, NEW p \in Procs, MirrorInspect(p) PROVE Inv'
  <1>1. CASE MirrorFails(p) /\ UNCHANGED mirror
    BY <1>1, MirrorFailsStep DEF MirrorInspect, Replaceable
  <1>2. CASE ~MirrorFails(p)
    <2>. USE <1>2 DEF MirrorInspect, Replaceable, Forget, Inv, TypeOK
    <2>1. TypeOK'
      BY DEF MirrorFile, EmptyMirror, LeaseMirror
    <2>2. LeaseInv'
      BY DEF LeaseInv, HolderOwnsLease, OneActiveRow, ActiveOwner, NoRowYet,
             ProbedGone, ObservedStale
    <2>3. MirrorOwner'
      BY Exclusion DEF MutualExclusion, MirrorOwner, UsingPc, LegacyMirror,
           MirrorNeverNamesAnother,
             MirrorFile, NoMirror, EmptyMirror, LeaseMirror
    <2>. QED
      BY <2>1, <2>2, <2>3
  <1>. QED
    BY <1>1, <1>2 DEF MirrorInspect

\* The mirror of an earlier owner is replaced.
LEMMA MirrorReplaceStep == ASSUME Inv, NEW p \in Procs, MirrorReplace(p) PROVE Inv'
  <1>1. CASE MirrorFails(p) /\ UNCHANGED mirror
    BY <1>1, MirrorFailsStep DEF MirrorReplace
  <1>2. CASE /\ mirror' = LeaseMirror(p)
             /\ Goto(p, "held") /\ Forget(p) /\ UNCHANGED lease
    <2>. USE <1>2 DEF MirrorReplace, Forget, Inv, TypeOK
    <2>1. TypeOK'
      BY DEF MirrorFile, EmptyMirror, LeaseMirror
    <2>2. LeaseInv'
      BY DEF LeaseInv, HolderOwnsLease, OneActiveRow, ActiveOwner, NoRowYet,
             ProbedGone, ObservedStale
    <2>3. MirrorOwner'
      BY Exclusion DEF MutualExclusion, MirrorOwner, UsingPc, LegacyMirror,
           MirrorNeverNamesAnother,
             MirrorFile, NoMirror, EmptyMirror, LeaseMirror
    <2>. QED
      BY <2>1, <2>2, <2>3
  <1>. QED
    BY <1>1, <1>2 DEF MirrorReplace

\* A renewal moves the revision, so a stale observation of the row is void.
LEMMA RenewTickStep == ASSUME Inv, NEW p \in Procs, RenewTick(p) PROVE Inv'
  <1>1. Active(p)
    BY DEF RenewTick, Inv, LeaseInv, HolderOwnsLease
  <1>2. /\ Successor(lease[p], lease'[p])
        /\ lease'[p].status = "active"
        /\ lease' = [lease EXCEPT ![p] = lease'[p]]
        /\ renewing' = [renewing EXCEPT ![p] = TRUE]
        /\ UNCHANGED renewFailed
    BY <1>1, RenewedRow DEF RenewTick, Inv, TypeOK
  <1>3. TypeOK'
    BY <1>2 DEF RenewTick, Successor, Inv, TypeOK
  <1>4. LeaseInv'
    <2>. USE <1>1, <1>2 DEF RenewTick, Successor, Inv, TypeOK, LeaseInv
    <2>1. (HolderOwnsLease /\ OneActiveRow)'
      BY DEF HolderOwnsLease, OneActiveRow
    <2>2. (ActiveOwner /\ NoRowYet)'
      BY DEF ActiveOwner, NoRowYet
    <2>3. ProbedGone'
      BY DEF ProbedGone
    <2>4. ObservedStale'
      <3>1. \A r \in Procs : lease[r] \in LeaseRow /\ lease[r].revision \in Nat
        BY DEF LeaseRow
      <3>2. \A r \in Procs : Successor(lease[r], lease'[r])
        BY <3>1
      <3>. QED
        BY <3>2, ObservationKept
    <2>. QED
      BY <2>1, <2>2, <2>3, <2>4
  <1>5. MirrorOwner'
    BY <1>2 DEF RenewTick, Inv, TypeOK, MirrorOwner, UsingPc, LegacyMirror,
           MirrorNeverNamesAnother,
           NoMirror, EmptyMirror, LeaseMirror
  <1>. QED
    BY <1>3, <1>4, <1>5 DEF Inv

\* The renewal in flight belongs to the one process that holds the lock.
LEMMA RenewMirrorStep == ASSUME Inv, NEW p \in Procs, RenewMirror(p) PROVE Inv'
  <1>1. TypeOK'
    <2>1. mirror' \in MirrorFile
      BY DEF RenewMirror, Inv, TypeOK, MirrorFile, LeaseMirror
    <2>2. renewFailed' \in [Procs -> BOOLEAN]
      BY DEF RenewMirror, Inv, TypeOK
    <2>. QED
      BY <2>1, <2>2 DEF RenewMirror, Inv, TypeOK
  <1>2. LeaseInv'
    BY DEF RenewMirror, Inv, TypeOK, LeaseInv, HolderOwnsLease, OneActiveRow,
           ActiveOwner, NoRowYet, ProbedGone, ObservedStale
  <1>3. MirrorOwner'
    BY Exclusion DEF RenewMirror, Inv, TypeOK, MutualExclusion, MirrorOwner,
           UsingPc, LegacyMirror,
           MirrorNeverNamesAnother, NoMirror, EmptyMirror, LeaseMirror
  <1>. QED
    BY <1>1, <1>2, <1>3 DEF Inv

\* Binding moves the revision and keeps the row active.
LEMMA BindRunStep == ASSUME Inv, NEW p \in Procs, BindRun(p) PROVE Inv'
  <1>1. /\ Successor(lease[p], lease'[p])
        /\ lease'[p].status = "active"
        /\ lease' = [lease EXCEPT ![p] = lease'[p]]
    BY BoundRow DEF BindRun, Owned, Inv, TypeOK, LeaseInv, HolderOwnsLease
  <1>2. TypeOK'
    BY <1>1 DEF BindRun, Successor, Inv, TypeOK
  <1>3. LeaseInv'
    <2>. USE <1>1 DEF BindRun, Successor, Inv, TypeOK, LeaseInv
    <2>1. (HolderOwnsLease /\ OneActiveRow)'
      BY DEF HolderOwnsLease, OneActiveRow
    <2>2. (ActiveOwner /\ NoRowYet)'
      BY DEF ActiveOwner, NoRowYet
    <2>3. ProbedGone'
      BY DEF ProbedGone
    <2>4. ObservedStale'
      <3>1. \A r \in Procs : lease[r] \in LeaseRow /\ lease[r].revision \in Nat
        BY DEF LeaseRow
      <3>2. \A r \in Procs : Successor(lease[r], lease'[r])
        BY <3>1
      <3>. QED
        BY <3>2, ObservationKept
    <2>. QED
      BY <2>1, <2>2, <2>3, <2>4
  <1>4. MirrorOwner'
    BY DEF BindRun, Inv, TypeOK, MirrorOwner, UsingPc, LegacyMirror,
           MirrorNeverNamesAnother, NoMirror,
           EmptyMirror, LeaseMirror
  <1>. QED
    BY <1>2, <1>3, <1>4 DEF Inv

\* The holder writes the mirror again.
LEMMA BindMirrorStep == ASSUME Inv, NEW p \in Procs, BindMirror(p) PROVE Inv'
  <1>1. TypeOK'
    BY DEF BindMirror, Inv, TypeOK, MirrorFile, NoMirror, EmptyMirror,
           LeaseMirror
  <1>2. LeaseInv'
    BY DEF BindMirror, Inv, TypeOK, LeaseInv, HolderOwnsLease, OneActiveRow,
           ActiveOwner,
           NoRowYet, ProbedGone, ObservedStale
  <1>3. MirrorOwner'
    BY Exclusion DEF BindMirror, Inv, TypeOK, MutualExclusion, MirrorOwner,
           UsingPc, LegacyMirror,
           MirrorNeverNamesAnother, MirrorFile, NoMirror, EmptyMirror, LeaseMirror
  <1>. QED
    BY <1>1, <1>2, <1>3 DEF Inv

\* release() is called.
LEMMA CloseStep == ASSUME Inv, NEW p \in Procs, Close(p) PROVE Inv'
  <1>1. TypeOK'
    BY DEF Close, Inv, TypeOK, MirrorFile, NoMirror, EmptyMirror, LeaseMirror
  <1>2. LeaseInv'
    BY DEF Close, Inv, TypeOK, LeaseInv, HolderOwnsLease, OneActiveRow,
           ActiveOwner,
           NoRowYet, ProbedGone, ObservedStale
  <1>3. MirrorOwner'
    BY Exclusion DEF Close, Inv, TypeOK, MutualExclusion, MirrorOwner,
           UsingPc, LegacyMirror,
           MirrorNeverNamesAnother, MirrorFile, NoMirror, EmptyMirror, LeaseMirror
  <1>. QED
    BY <1>1, <1>2, <1>3 DEF Inv

\* The row of a process that leaves is not active any more.
LEMMA ReleaseLeaseStep == ASSUME Inv, NEW p \in Procs, ReleaseLease(p) PROVE Inv'
  <1>1. /\ Successor(lease[p], lease'[p])
        /\ lease'[p].status # "active"
        /\ lease' = [lease EXCEPT ![p] = lease'[p]]
    BY ReleasedRow DEF ReleaseLease, Inv, TypeOK, LeaseInv, HolderOwnsLease
  <1>2. TypeOK'
    BY <1>1 DEF ReleaseLease, Successor, Inv, TypeOK
  <1>3. LeaseInv'
    <2>. USE <1>1 DEF ReleaseLease, Successor, Inv, TypeOK, LeaseInv
    <2>1. (HolderOwnsLease /\ OneActiveRow)'
      BY DEF HolderOwnsLease, OneActiveRow
    <2>2. (ActiveOwner /\ NoRowYet)'
      BY DEF ActiveOwner, NoRowYet
    <2>3. ProbedGone'
      BY DEF ProbedGone
    <2>4. ObservedStale'
      <3>1. \A r \in Procs : lease[r] \in LeaseRow /\ lease[r].revision \in Nat
        BY DEF LeaseRow
      <3>2. \A r \in Procs : Successor(lease[r], lease'[r])
        BY <3>1
      <3>. QED
        BY <3>2, ObservationKept
    <2>. QED
      BY <2>1, <2>2, <2>3, <2>4
  <1>4. MirrorOwner'
    BY DEF ReleaseLease, Inv, TypeOK, MirrorOwner, UsingPc, LegacyMirror,
           MirrorNeverNamesAnother,
           NoMirror,
           EmptyMirror, LeaseMirror
  <1>. QED
    BY <1>2, <1>3, <1>4 DEF Inv

\* The mirror is only read.
LEMMA UnmirrorReadStep == ASSUME Inv, NEW p \in Procs, UnmirrorRead(p) PROVE Inv'
  <1>1. TypeOK'
    BY DEF UnmirrorRead, Inv, TypeOK, MirrorFile, NoMirror, EmptyMirror,
           LeaseMirror
  <1>2. LeaseInv'
    BY DEF UnmirrorRead, Inv, TypeOK, LeaseInv, HolderOwnsLease, OneActiveRow,
           ActiveOwner,
           NoRowYet, ProbedGone, ObservedStale
  <1>3. MirrorOwner'
    BY Exclusion DEF UnmirrorRead, Inv, TypeOK, MutualExclusion, MirrorOwner,
           UsingPc, LegacyMirror,
           MirrorNeverNamesAnother, MirrorFile, NoMirror, EmptyMirror, LeaseMirror
  <1>. QED
    BY <1>1, <1>2, <1>3 DEF Inv

\* A removed mirror names nobody.
LEMMA UnmirrorRemoveStep == ASSUME Inv, NEW p \in Procs, UnmirrorRemove(p) PROVE Inv'
  <1>1. TypeOK'
    BY DEF UnmirrorRemove, Inv, TypeOK, MirrorFile, NoMirror, EmptyMirror,
           LeaseMirror
  <1>2. LeaseInv'
    BY DEF UnmirrorRemove, Inv, TypeOK, LeaseInv, HolderOwnsLease,
           OneActiveRow, ActiveOwner,
           NoRowYet, ProbedGone, ObservedStale
  <1>3. MirrorOwner'
    BY Exclusion DEF UnmirrorRemove, Inv, TypeOK, MutualExclusion, MirrorOwner,
           UsingPc, LegacyMirror,
           MirrorNeverNamesAnother, MirrorFile, NoMirror, EmptyMirror, LeaseMirror
  <1>. QED
    BY <1>1, <1>2, <1>3 DEF Inv

\* A dead process keeps its row and can be displaced later.
LEMMA CrashStep == ASSUME Inv, NEW p \in Procs, Crash(p) PROVE Inv'
  <1>1. TypeOK'
    BY DEF Crash, Forget, Inv, TypeOK, MirrorFile, NoMirror, EmptyMirror,
           LeaseMirror
  <1>2. LeaseInv'
    BY DEF Crash, Forget, Inv, TypeOK, LeaseInv, HolderOwnsLease, OneActiveRow,
           ActiveOwner,
           NoRowYet, ProbedGone, ObservedStale
  <1>3. MirrorOwner'
    BY Exclusion DEF Crash, Forget, Inv, TypeOK, MutualExclusion, MirrorOwner,
           UsingPc, LegacyMirror,
           MirrorNeverNamesAnother, MirrorFile, NoMirror, EmptyMirror, LeaseMirror
  <1>. QED
    BY <1>1, <1>2, <1>3 DEF Inv

\* A v1 process gets the file only where there is none; what it finds in use
\* is recorded.
LEMMA LegacyStartStep == ASSUME Inv, LegacyStart PROVE Inv'
  <1>1. TypeOK'
    <2>1. mirror' \in MirrorFile
      BY DEF LegacyStart, MirrorFile, LegacyMirror
    <2>. QED
      BY <2>1 DEF LegacyStart, Inv, TypeOK
  <1>2. LeaseInv'
    BY DEF LegacyStart, Inv, LeaseInv, HolderOwnsLease, OneActiveRow,
           ActiveOwner, NoRowYet, ProbedGone, ObservedStale
  <1>3. MirrorOwner'
    <2>1. ~overlap' => \A p \in Procs : pc[p] \notin UsingPc
      BY DEF LegacyStart
    <2>. QED
      BY <2>1 DEF LegacyStart, Inv, MirrorOwner, UsingPc, MirrorNeverNamesAnother
  <1>. QED
    BY <1>1, <1>2, <1>3 DEF Inv

\* The v1 process ends.
LEMMA LegacyExitStep == ASSUME Inv, LegacyExit PROVE Inv'
  <1>1. TypeOK'
    <2>1. mirror' \in MirrorFile
      BY DEF LegacyExit, Inv, TypeOK, MirrorFile, NoMirror
    <2>. QED
      BY <2>1 DEF LegacyExit, Inv, TypeOK
  <1>2. LeaseInv'
    BY DEF LegacyExit, Inv, LeaseInv, HolderOwnsLease, OneActiveRow,
           ActiveOwner,
           NoRowYet, ProbedGone, ObservedStale
  <1>3. MirrorOwner'
    BY DEF LegacyExit, Inv, MirrorOwner, UsingPc, LegacyMirror,
           MirrorNeverNamesAnother
  <1>. QED
    BY <1>1, <1>2, <1>3 DEF Inv

\* Time only makes a stale row staler.
LEMMA TickStep == ASSUME Inv, Tick PROVE Inv'
  <1>1. TypeOK'
    BY DEF Tick, Inv, TypeOK
  <1>2. LeaseInv'
    BY DEF Tick, Inv, TypeOK, LeaseRow, LeaseInv, HolderOwnsLease, OneActiveRow,
           ActiveOwner, NoRowYet, ProbedGone, ObservedStale
  <1>3. MirrorOwner'
    BY DEF Tick, Inv, MirrorOwner, UsingPc, LegacyMirror,
           MirrorNeverNamesAnother
  <1>. QED
    BY <1>1, <1>2, <1>3 DEF Inv

----------------------------------------------------------------------------
\* Every step preserves the invariant.
LEMMA NextInv == Inv /\ [Next]_vars => Inv'
  <1>. SUFFICES ASSUME Inv, [Next]_vars PROVE Inv'
    OBVIOUS
  <1>1. ASSUME NEW p \in Procs, Start(p) \/ Observe(p) \/ Probe(p) \/ Commit(p)
        PROVE  Inv'
    BY <1>1, StartStep, ObserveFreeStep, ObserveFreshStep, ObserveStaleStep,
       ProbeRefusedStep, ProbeConfirmedStep, CommitAcquireStep, CommitRetryStep
       DEF Observe, Probe, Commit
  <1>2. ASSUME NEW p \in Procs, WriteInitialMirror(p)
        PROVE  Inv'
    BY <1>2, MirrorOpenStep, MirrorFillStep, MirrorInspectStep,
           MirrorReplaceStep
       DEF WriteInitialMirror
  <1>3. ASSUME NEW p \in Procs,
               Renew(p) \/ Bind(p) \/ Close(p) \/ Release(p) \/ Crash(p)
        PROVE  Inv'
    BY <1>3, RenewTickStep, RenewMirrorStep, BindRunStep, BindMirrorStep,
           CloseStep,
       ReleaseLeaseStep, UnmirrorReadStep, UnmirrorRemoveStep, CrashStep
       DEF Renew, Bind, Release
  <1>4. CASE UNCHANGED vars
    BY <1>4 DEF vars, Inv, TypeOK, LeaseInv, HolderOwnsLease, OneActiveRow,
       ActiveOwner, NoRowYet, ProbedGone, ObservedStale, MirrorOwner,
       MirrorNeverNamesAnother
  <1>. QED
    BY <1>1, <1>2, <1>3, <1>4, LegacyStartStep,
       LegacyExitStep, TickStep DEF Next

\* Inv holds in every state the workspace can reach.
THEOREM Invariance == Spec => []Inv
  BY InitInv, NextInv, PTL DEF Spec

\* The variables keep their types: for any durations, confirmations, machines.
THEOREM TypeCorrect == Spec => []TypeOK
  <1>1. Inv => TypeOK
    BY DEF Inv
  <1>. QED
    BY <1>1, Invariance, PTL

\* acquireExecutionLock excludes: two invocations never both believe that they
\* write the workspace, for any number of invocations and machines.
THEOREM WritersExclude == Spec => []MutualExclusion
  <1>1. Inv => MutualExclusion
    BY Exclusion DEF Inv
  <1>. QED
    BY <1>1, Invariance, PTL

\* A live writer is never robbed of its lease.
THEOREM HoldersOwn == Spec => []HolderOwnsLease
  <1>1. Inv => HolderOwnsLease
    BY DEF Inv, LeaseInv
  <1>. QED
    BY <1>1, Invariance, PTL

\* The ledger holds one active row of the resource at most.
THEOREM SingleActiveRow == Spec => []OneActiveRow
  <1>1. Inv => OneActiveRow
    BY DEF Inv, LeaseInv
  <1>. QED
    BY <1>1, Invariance, PTL

\* The mirror never names a v2 process other than the holder, and names v1 only
\* where a v1 process started beside the holder.
THEOREM MirrorOfHolder == Spec => []MirrorNeverNamesAnother
  <1>1. Inv => MirrorNeverNamesAnother
    BY DEF Inv, MirrorOwner
  <1>. QED
    BY <1>1, Invariance, PTL

\* A v1 process that got its file while no v2 process used the lock or the file
\* keeps every v2 writer out, whenever it started and however often v1 processes
\* come and go.
THEOREM LegacyKeepsOut == Spec => []LegacyExcluded
  <1>1. Inv => LegacyExcluded
    BY DEF Inv, MirrorOwner, UsingPc, LegacyExcluded
  <1>. QED
    BY <1>1, Invariance, PTL

\* acquireDurableLease takes over a row only when its owner is dead and the
\* grace period of the row as it stands in the transaction is over.
THEOREM TakeoverIsJustified == Spec => StealsOnlyStale
  <1>. DEFINE Justified ==
         \A p \in Procs :
           lease[p].status = "active" /\ lease'[p].status = "stolen"
             => pc[p] = "dead" /\ now >= lease[p].graceExpiresAt
  <1>1. ASSUME Inv, NEW q \in Procs, CommitAcquire(q) PROVE Justified
    <2>. SUFFICES ASSUME NEW p \in Procs, lease[p].status = "active",
                         lease'[p].status = "stolen"
                  PROVE  pc[p] = "dead" /\ now >= lease[p].graceExpiresAt
      OBVIOUS
    <2>. USE <1>1 DEF Inv, TypeOK, LeaseInv
    <2>1. pc[q] = "commit" /\ obsOwner[q] = p
      BY DEF CommitAcquire, Unchanged, OneActiveRow
    <2>2. lease[p].revision = obsRevision[q]
      BY <2>1 DEF CommitAcquire, Unchanged
    <2>3. pc[p] \in EndedPc /\ lease[p].graceExpiresAt <= now
      BY <2>1, <2>2 DEF ProbedGone, ObservedStale
    <2>. QED
      BY <2>3 DEF ActiveOwner, LeaseRow
  <1>2. ASSUME Inv, NEW q \in Procs,
               \/ \E p \in Procs : MirrorFails(p)
               \/ ReleaseLease(q) \/ RenewTick(q) \/ BindRun(q)
        PROVE  Justified
    <2>. SUFFICES ASSUME NEW r \in Procs
                  PROVE  lease'[r].status = "stolen" => lease[r].status = "stolen"
      OBVIOUS
    <2>. USE DEF Inv, TypeOK
    <2>1. ASSUME NEW p \in Procs, lease' = [lease EXCEPT ![p] = Released(@)]
          PROVE  lease'[r].status = "stolen" => lease[r].status = "stolen"
      BY <1>2, <2>1, ReleasedRow
    <2>2. CASE RenewTick(q)
      BY <1>2, <2>2, RenewedRow DEF RenewTick
    <2>3. CASE BindRun(q)
      BY <1>2, <2>3, BoundRow DEF BindRun, Owned
    <2>. QED
      BY <1>2, <2>1, <2>2, <2>3 DEF MirrorFails, ReleaseLease
  <1>3. ASSUME UNCHANGED lease PROVE Justified
    BY <1>3
  <1>4. Inv /\ [Next]_vars => [Justified]_vars
    <2>. SUFFICES ASSUME Inv, Next PROVE Justified
      OBVIOUS
    <2>1. \/ UNCHANGED lease
          \/ \E q \in Procs : \/ CommitAcquire(q) \/ ReleaseLease(q)
                               \/ RenewTick(q) \/ BindRun(q)
          \/ \E q \in Procs : MirrorFails(q)
      BY DEF Next, Start, Observe, ObserveFree, ObserveFresh, ObserveStale,
             Probe,
         ProbeRefused, ProbeConfirmed, Commit, CommitRetry, WriteInitialMirror,
         MirrorOpen, MirrorFill, MirrorInspect, MirrorReplace, Renew, RenewMirror,
         Bind, BindMirror, Close, Release, UnmirrorRead, UnmirrorRemove, Crash,
         LegacyStart, LegacyExit, Tick
    <2>. QED
      BY <1>1, <1>2, <1>3, <2>1
  <1>5. Spec => [][Justified]_vars
    BY <1>4, Invariance, PTL DEF Spec
  <1>. QED
    BY <1>5 DEF StealsOnlyStale

----------------------------------------------------------------------------
\* Steps that leave the status of every row and the deaths alone stutter.
LEMMA LockStutters ==
  ASSUME Inv, Inv',
         \A r \in Procs : /\ lease'[r].status = lease[r].status
                          /\ pc'[r] = "dead" <=> pc[r] = "dead"
  PROVE  UNCHANGED Lock!lockVars
  BY DEF Lock!lockVars, Active

\* A row that goes from active to another state that is not "none" is the
\* release of its living owner.
LEMMA LockReleased ==
  ASSUME Inv, NEW p \in Procs, pc[p] # "dead", Active(p),
         lease' = [lease EXCEPT ![p] = Released(@)],
         \A r \in Procs : pc'[r] = "dead" <=> pc[r] = "dead"
  PROVE  Lock!Next
  <1>1. lease'[p].status = "released"
    BY DEF Inv, TypeOK, LeaseRow, Released, Active
  <1>2. \A r \in Procs : r # p => lease'[r] = lease[r]
    BY DEF Inv, TypeOK
  <1>3. Lock!Release(p)
    BY <1>1, <1>2 DEF Lock!Release, Active
  <1>. QED
    BY <1>3 DEF Lock!Next

\* CommitAcquire gives the lock to p: an active row is the observed one, and
\* its owner has died.
LEMMA LockAcquired == ASSUME Inv, NEW p \in Procs, CommitAcquire(p) PROVE Lock!Next
  <1>. USE DEF Inv, TypeOK, LeaseInv
  <1>1. lease[p].status = "none" /\ pc[p] = "commit"
    BY DEF CommitAcquire, NoRowYet
  <1>2. PICK bind \in BOOLEAN :
          lease' = [r \in Procs |-> CASE r = p -> NewRow(bind)
                                      [] r # p /\ r = obsOwner[p] -> Displaced(lease[r])
                                      [] OTHER -> lease[r]]
    BY DEF CommitAcquire
  <1>3. lease'[p].status = "active"
    BY <1>2 DEF NewRow
  <1>4. ASSUME NEW r \in Procs, Active(r)
        PROVE  r = obsOwner[p] /\ pc[r] = "dead"
    <2>1. r = obsOwner[p]
      BY <1>4 DEF CommitAcquire, Unchanged, OneActiveRow
    <2>2. pc[r] \in EndedPc
      BY <1>1, <1>4, <2>1 DEF ProbedGone
    <2>. QED
      BY <1>4, <2>1, <2>2 DEF ActiveOwner
  <1>5. ASSUME NEW r \in Procs, r # p
        PROVE  /\ lease'[r].status # "active"
               /\ lease'[r].status = "none" <=> lease[r].status = "none"
    <2>1. CASE r = obsOwner[p]
      <3>1. lease'[r] = Displaced(lease[r]) /\ lease[r] \in LeaseRow
        BY <1>2, <1>5, <2>1
      <3>2. Active(r)
        BY <2>1 DEF CommitAcquire, Unchanged
      <3>. QED
        BY <3>1, <3>2 DEF Displaced, LeaseRow, Active
    <2>2. CASE r # obsOwner[p]
      BY <1>2, <1>4, <1>5, <2>2 DEF Active
    <2>. QED
      BY <2>1, <2>2
  <1>6. \A r \in Procs : pc'[r] = "dead" <=> pc[r] = "dead"
    BY <1>1 DEF CommitAcquire
  <1>7. Lock!Acquire(p)
    BY <1>1, <1>3, <1>4, <1>5, <1>6 DEF Lock!Acquire, Active
  <1>. QED
    BY <1>7 DEF Lock!Next

\* A crash is the death of the lock's process, whether it had the lock or not.
LEMMA LockDies == ASSUME Inv, NEW p \in Procs, Crash(p) PROVE Lock!Next
  <1>1. pc[p] # "dead" /\ pc' = [pc EXCEPT ![p] = "dead"] /\ lease' = lease
    BY DEF Crash
  <1>2. Lock!Die(p)
    BY <1>1 DEF Lock!Die, Active, Inv, TypeOK
  <1>. QED
    BY <1>2 DEF Lock!Next

\* Renewing and binding change a row without changing what it is.
LEMMA LockKept ==
  ASSUME Inv, Inv', NEW p \in Procs, RenewTick(p) \/ BindRun(p)
  PROVE  UNCHANGED Lock!lockVars
  <1>. USE DEF Inv, TypeOK
  <1>1. \A r \in Procs : lease'[r].status = lease[r].status
    <2>1. CASE RenewTick(p)
      BY <2>1, RenewedRow DEF RenewTick
    <2>2. CASE BindRun(p)
      BY <2>2, BoundRow DEF BindRun, Owned, Active
    <2>. QED
      BY <2>1, <2>2
  <1>2. \A r \in Procs : pc'[r] = "dead" <=> pc[r] = "dead"
    BY DEF RenewTick, BindRun, Goto
  <1>. QED
    BY <1>1, <1>2, LockStutters

\* The initial ledger is the free lock, and every step of an invocation is a
\* step of the lock or leaves it alone.
THEOREM Refinement == Spec => ImplementsLock
  <1>1. Init => Lock!Init
    BY DEF Init, Lock!Init, Active, NoRow
  <1>2. ASSUME Inv, Inv', [Next]_vars
        PROVE  [Lock!Next]_(Lock!lockVars)
    <2>. USE <1>2
    <2>1. ASSUME NEW p \in Procs, MirrorFails(p), pc[p] \in MirrorPc
          PROVE  Lock!Next
      BY <2>1, LockReleased DEF MirrorFails, Inv, TypeOK, LeaseInv, HolderOwnsLease
    <2>2. ASSUME NEW p \in Procs, ReleaseLease(p)
          PROVE  Lock!Next
      BY <2>2, LockReleased DEF ReleaseLease, Inv, TypeOK, LeaseInv, HolderOwnsLease
    <2>3. ASSUME lease' = lease, \A r \in Procs : pc'[r] = "dead" <=> pc[r] = "dead"
          PROVE  UNCHANGED Lock!lockVars
      BY <2>3, LockStutters
    <2>4. ASSUME NEW p \in Procs, lease' = lease, pc[p] # "dead",
                 \E l \in AllPc \ {"dead"} : pc' = [pc EXCEPT ![p] = l]
          PROVE  UNCHANGED Lock!lockVars
      BY <2>3, <2>4 DEF Inv, TypeOK
    <2>5. ASSUME NEW p \in Procs, Start(p) \/ Observe(p) \/ Probe(p) \/ CommitRetry(p)
          PROVE  UNCHANGED Lock!lockVars
      BY <2>4, <2>5 DEF Start, Observe, ObserveFree, ObserveFresh, ObserveStale,
           Probe, ProbeRefused, ProbeConfirmed, CommitRetry
    <2>6. ASSUME NEW p \in Procs, WriteInitialMirror(p)
          PROVE  Lock!Next \/ UNCHANGED Lock!lockVars
      BY <2>1, <2>4, <2>6 DEF WriteInitialMirror, MirrorOpen, MirrorFill,
           MirrorInspect, MirrorReplace
    <2>7. ASSUME NEW p \in Procs,
                 BindMirror(p) \/ Close(p) \/ UnmirrorRead(p) \/ UnmirrorRemove(p)
          PROVE  UNCHANGED Lock!lockVars
      BY <2>4, <2>7 DEF BindMirror, Close, UnmirrorRead, UnmirrorRemove
    <2>8. ASSUME NEW p \in Procs, RenewMirror(p) PROVE UNCHANGED Lock!lockVars
      BY <2>3, <2>8 DEF RenewMirror
    <2>9. CASE LegacyStart \/ LegacyExit \/ Tick \/ UNCHANGED vars
      BY <2>3, <2>9 DEF LegacyStart, LegacyExit, Tick, vars
    <2>. QED
      BY <2>2, <2>5, <2>6, <2>7, <2>8, <2>9, LockAcquired, LockDies, LockKept
         DEF Next, Commit, Renew, Bind, Release
  <1>. QED
    BY <1>1, <1>2, Invariance, PTL DEF Spec, ImplementsLock, Lock!Spec
=============================================================================
