--------------------------- MODULE ResourceClaims ---------------------------
(***************************************************************************)
(* Resource claims of parallel workers: persistence/src/resource-claims.ts *)
(* and the claim port and recovery of orchestration/src/parallel-claims.ts.*)
(*                                                                         *)
(* A claim set is one row with its claims, held under the identity of a    *)
(* process and renewed by a timer.  Claims stay active, and exclude others,*)
(* until they are released by their owner or recovered: when the lease and *)
(* its grace have lapsed and two probes found the owner dead.              *)
(*                                                                         *)
(* Time is abstracted to whether the grace of a set has lapsed.  The probe *)
(* of a process identity finds a dead process dead; it may also fail to    *)
(* reach it, and a living process is never found dead (WriterLease has the *)
(* probe itself).  Every function of the library is one SQLite             *)
(* transaction, hence one step.                                            *)
(***************************************************************************)
EXTENDS Naturals, Sequences, FiniteSets

CONSTANTS
  Procs,        \* processes of the invocations of one run
  Ids,          \* identities of claim sets, each used once
  MaxMisses,    \* bound: probes of a dead process that find out nothing
  Requests      \* the sets of claim specifications workers ask for

\* a specification: kind, key (the segments of a path) and mode
ASSUME ClaimsAssumption ==
  /\ MaxMisses \in Nat /\ IsFiniteSet(Procs) /\ IsFiniteSet(Ids) /\ IsFiniteSet(Requests)
  /\ "none" \notin Procs \cup Ids
  /\ \A q \in Requests : \A s \in q :
       /\ s.kind \in STRING /\ s.key \in Seq(STRING)
       /\ s.mode \in {"exclusive", "shared-read"}

None == "none"
Specs == UNION Requests

----------------------------------------------------------------------------
IsPrefixOf(a, b) == Len(a) <= Len(b) /\ SubSeq(b, 1, Len(a)) = a
PathClaimsOverlap(a, b) == IsPrefixOf(a, b) \/ IsPrefixOf(b, a)

\* paths conflict with what is below or above them, other kinds by equality
SameResource(s, t) ==
  /\ s.kind = t.kind
  /\ IF s.kind = "path" THEN PathClaimsOverlap(s.key, t.key)
                        ELSE s.key = t.key
ClaimsConflict(s, t) ==
  SameResource(s, t) /\ "exclusive" \in {s.mode, t.mode}

VARIABLES
  \* the ledger
  status,       \* status of each claim set: unused, active, released, expired
  owner,        \* the process of a claim set
  claims,       \* the specifications of a claim set
  lapsed,       \* its lease and grace are over
  \* the processes
  alive,        \* processes that run
  owned,        \* sets in the map of the port of a process
  failed,       \* of these, the sets whose renewal failed: no more timer
  using,        \* sets under which a worker of a process works
  misses,       \* probes of a dead process that found out nothing
  rec           \* recoverExpiredParallelClaims of a process

ledger == <<status, owner, claims, lapsed>>
ports == <<owned, failed, using>>
probing == <<misses, rec>>
vars == <<status, owner, claims, lapsed, alive, owned, failed, using,
          misses, rec>>

Rec == [todo : SUBSET Ids, at : Ids \cup {None}, probes : 0..2]
NoRec == [todo |-> {}, at |-> None, probes |-> 0]

TypeOK ==
  /\ status \in [Ids -> {"unused", "active", "released", "expired"}]
  /\ owner \in [Ids -> Procs \cup {None}]
  /\ claims \in [Ids -> SUBSET Specs]
  /\ lapsed \subseteq Ids
  /\ alive \subseteq Procs
  /\ owned \in [Procs -> SUBSET Ids]
  /\ failed \in [Procs -> SUBSET Ids]
  /\ using \in [Procs -> SUBSET Ids]
  /\ misses \in 0..MaxMisses
  /\ rec \in [Procs -> Rec]

Init ==
  /\ status = [i \in Ids |-> "unused"]
  /\ owner = [i \in Ids |-> None]
  /\ claims = [i \in Ids |-> {}]
  /\ lapsed = {}
  /\ alive = Procs
  /\ owned = [p \in Procs |-> {}]
  /\ failed = [p \in Procs |-> {}]
  /\ using = [p \in Procs |-> {}]
  /\ misses = 0
  /\ rec = [p \in Procs |-> NoRec]

----------------------------------------------------------------------------
Active == {i \in Ids : status[i] = "active"}

\* assertNoConflicts: against every active claim of the workspace but the
\* ones of the set itself, lapsed or not
Free(q, i) ==
  \A j \in Active \ {i} : \A s \in q, t \in claims[j] : ~ClaimsConflict(s, t)

Acquire(p, i, q) ==
  /\ p \in alive /\ status[i] = "unused" /\ Free(q, i)
  /\ status' = [status EXCEPT ![i] = "active"]
  /\ owner' = [owner EXCEPT ![i] = p]
  /\ claims' = [claims EXCEPT ![i] = q]
  /\ owned' = [owned EXCEPT ![p] = @ \cup {i}]
  /\ UNCHANGED <<lapsed, alive, failed, using, probing>>

\* assertOwned: the map of the port, its renewal, and the row
Owns(p, i) == /\ p \in alive /\ i \in owned[p] \ failed[p]
              /\ status[i] = "active" /\ owner[i] = p

ExpandUnchecked(p, i, q) ==
  /\ Owns(p, i) /\ ~(q \subseteq claims[i])
  /\ claims' = [claims EXCEPT ![i] = @ \cup q]
  /\ lapsed' = lapsed \ {i}
  /\ UNCHANGED <<status, owner, alive, ports, probing>>
Expand(p, i, q) ==
  /\ Owns(p, i) /\ ~(q \subseteq claims[i]) /\ Free(q \ claims[i], i)
  /\ claims' = [claims EXCEPT ![i] = @ \cup q]
  /\ lapsed' = lapsed \ {i}
  /\ UNCHANGED <<status, owner, alive, ports, probing>>

\* a worker starts to work, or its result to be integrated, after assertOwned
Work(p, i) ==
  /\ Owns(p, i) /\ i \notin using[p]
  /\ using' = [using EXCEPT ![p] = @ \cup {i}]
  /\ UNCHANGED <<ledger, alive, owned, failed, probing>>

\* the timer: renewResourceClaimSet, unless the row is no longer active
Renew(p, i) ==
  /\ p \in alive /\ i \in owned[p] \ failed[p] /\ status[i] = "active"
  /\ lapsed' = lapsed \ {i}
  /\ UNCHANGED <<status, owner, claims, alive, ports, probing>>

\* renewalFailure: an error of the renewal, also of the ledger itself, ends
\* the timer of the set for good
RenewFails(p, i) ==
  /\ p \in alive /\ i \in owned[p] \ failed[p]
  /\ failed' = [failed EXCEPT ![p] = @ \cup {i}]
  /\ UNCHANGED <<ledger, alive, owned, using, probing>>

\* releaseById: out of the map first; an expired row makes it throw
Release(p, i) ==
  /\ p \in alive /\ i \in owned[p]
  /\ owned' = [owned EXCEPT ![p] = @ \ {i}]
  /\ failed' = [failed EXCEPT ![p] = @ \ {i}]
  /\ using' = [using EXCEPT ![p] = @ \ {i}]
  /\ status' = [status EXCEPT ![i] = IF @ = "active" THEN "released" ELSE @]
  /\ UNCHANGED <<owner, claims, lapsed, alive, probing>>

----------------------------------------------------------------------------
\* recoverExpiredParallelClaims: one listing, then set after set

RecList(p) ==
  /\ p \in alive /\ rec[p] = NoRec
  /\ \E i \in Active : i \in lapsed
  /\ rec' = [rec EXCEPT ![p].todo = Active \cap lapsed]
  /\ UNCHANGED <<ledger, alive, ports, misses>>

RecNextKeeps(p, i) ==
  /\ p \in alive /\ rec[p].at = None /\ i \in rec[p].todo
  /\ rec' = [rec EXCEPT ![p].at = i]
  /\ UNCHANGED <<ledger, alive, ports, misses>>
RecNext(p, i) ==
  /\ p \in alive /\ rec[p].at = None /\ i \in rec[p].todo
  /\ rec' = [rec EXCEPT ![p] = [todo |-> @.todo \ {i}, at |-> i,
                                probes |-> 0]]
  /\ UNCHANGED <<ledger, alive, ports, misses>>

Skip(p) == [rec[p] EXCEPT !.at = None, !.probes = 0]
RecProbeTrusting(p) ==
  /\ p \in alive /\ rec[p].at # None /\ rec[p].probes < 2
  /\ rec' = [rec EXCEPT ![p].probes = @ + 1]
  /\ UNCHANGED <<ledger, alive, ports, misses>>
\* the owner is found dead, or it lives or cannot be inspected: then the set
\* is retained
RecProbe(p) ==
  /\ p \in alive /\ rec[p].at # None /\ rec[p].probes < 2
  /\ \/ /\ owner[rec[p].at] \notin alive
        /\ rec' = [rec EXCEPT ![p].probes = @ + 1]
        /\ UNCHANGED misses
     \/ /\ owner[rec[p].at] \in alive
        /\ rec' = [rec EXCEPT ![p] = Skip(p)]
        /\ UNCHANGED misses
     \/ /\ owner[rec[p].at] \notin alive /\ misses < MaxMisses
        /\ rec' = [rec EXCEPT ![p] = Skip(p)]
        /\ misses' = misses + 1
  /\ UNCHANGED <<ledger, alive, ports>>

RecCommitStale(p) ==
  /\ p \in alive /\ rec[p].probes = 2
  /\ status' = [status EXCEPT ![rec[p].at] = "expired"]
  /\ rec' = [rec EXCEPT ![p] = Skip(p)]
  /\ UNCHANGED <<owner, claims, lapsed, alive, ports, misses>>
\* recoverExpiredResourceClaimSet checks the row again.  A set that was
\* released, or renewed, meanwhile makes it throw, and the recovery ends.
RecCommit(p) ==
  /\ p \in alive /\ rec[p].probes = 2
  /\ LET i == rec[p].at IN
       IF status[i] = "active" /\ i \in lapsed
         THEN /\ status' = [status EXCEPT ![i] = "expired"]
              /\ rec' = [rec EXCEPT ![p] = Skip(p)]
         ELSE /\ rec' = [rec EXCEPT ![p] = IF status[i] = "expired"
                                             THEN Skip(p) ELSE NoRec]
              /\ UNCHANGED status
  /\ UNCHANGED <<owner, claims, lapsed, alive, ports, misses>>

----------------------------------------------------------------------------
\* the grace of a claim set runs out: nobody renewed it for 50 seconds
Lapse(i) ==
  /\ i \in Active \ lapsed
  /\ lapsed' = lapsed \cup {i}
  /\ UNCHANGED <<status, owner, claims, alive, ports, probing>>

\* a process ends; another one lives
Crash(p) ==
  /\ p \in alive /\ alive # {p}
  /\ alive' = alive \ {p}
  /\ owned' = [owned EXCEPT ![p] = {}]
  /\ failed' = [failed EXCEPT ![p] = {}]
  /\ using' = [using EXCEPT ![p] = {}]
  /\ rec' = [rec EXCEPT ![p] = NoRec]
  /\ UNCHANGED <<ledger, misses>>

Recover(p) == \/ RecList(p) \/ (\E i \in Ids : RecNext(p, i))
              \/ RecProbe(p) \/ RecCommit(p)

Next == \/ \E p \in Procs, i \in Ids, q \in Requests :
             Acquire(p, i, q) \/ Expand(p, i, q)
        \/ \E p \in Procs, i \in Ids :
             \/ Work(p, i) \/ Renew(p, i) \/ RenewFails(p, i)
             \/ Release(p, i)
        \/ \E p \in Procs : Recover(p) \/ Crash(p)
        \/ \E i \in Ids : Lapse(i)

\* Time passes, and the run is resumed while it has claims of dead owners:
\* only its own resume recovers them.
Fairness ==
  /\ \A i \in Ids : WF_vars(Lapse(i) /\ owner[i] \notin alive)
  /\ \A p \in Procs : WF_vars(Recover(p))

Spec == Init /\ [][Next]_vars /\ Fairness

----------------------------------------------------------------------------
\* Active claims of two sets never conflict, with claims added while the
\* sets are held.
NoConflict ==
  \A i, j \in Active : i # j =>
     \A s \in claims[i], t \in claims[j] : ~(SameResource(s, t)
                                    /\ "exclusive" \in {s.mode, t.mode})

\* A worker of a living process keeps its claims active for as long as it
\* works under them: however long its renewals stall, time alone never
\* authorizes a takeover.
WorkersKeepClaims ==
  \A p \in alive : \A i \in using[p] : status[i] = "active" /\ owner[i] = p

\* A claim set has one end: a set recovered from a dead owner is never
\* released afterwards, nor a released one recovered.
OneEnd ==
  [][\A i \in Ids : status[i] \in {"released", "expired"}
                       => status'[i] = status[i]]_vars

\* The claims of a dead process are recovered in the end, though a recovery
\* works on a stale list and ends early when a set on it has changed.
AbandonedRecovered ==
  \A i \in Ids :
    (status[i] = "active" /\ owner[i] \notin alive) ~> (status[i] = "expired")

----------------------------------------------------------------------------
\* The inductive invariant.  NoConflict is inductive by itself; what workers
\* keep depends on what a recovery knows when it commits.

\* A set that a recovery has listed was acquired, so its owner is fixed, and
\* a positive count of probes means that this owner is dead for good.
ListedWereAcquired ==
  \A p \in Procs : \A i \in rec[p].todo \cup ({rec[p].at} \ {None}) :
     status[i] # "unused"
ProbedIsDead ==
  \A p \in Procs : rec[p].probes > 0 =>
     rec[p].at # None /\ owner[rec[p].at] \notin alive

\* The map of a port names sets of its own process, and work is done only
\* under sets in the map.
PortsOwn ==
  \A p \in alive : using[p] \subseteq owned[p]
     /\ \A i \in owned[p] : status[i] # "unused" /\ owner[i] = p

Inv == /\ TypeOK /\ NoConflict /\ WorkersKeepClaims
       /\ ListedWereAcquired /\ ProbedIsDead /\ PortsOwn
=============================================================================
