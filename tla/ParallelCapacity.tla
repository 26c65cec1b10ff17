-------------------------- MODULE ParallelCapacity --------------------------
(***************************************************************************)
(* Worker slots of a parallel run: orchestration/src/parallel-capacity.ts, *)
(* over the leases of persistence/src/leases.ts, driven by                 *)
(* claimParallelDispatches (parallel-scheduler.ts) and executeParallelWaves *)
(* (parallel-runner.ts).                                                   *)
(*                                                                         *)
(* A slot is one lease resource, parallel-capacity/<namespace>/<ordinal>.  *)
(* Slots of the namespaces "global", "provider" and "model" live in a      *)
(* ledger all projects of a machine share, slots of "project" in the       *)
(* ledger of the project.  A process owns slots under ONE identity for all *)
(* its workers.                                                            *)
(*                                                                         *)
(* Left out: the time of a lease and the probes of its owner, which        *)
(* WriterLease models.  What remains of them here is that the row of a     *)
(* live owner conflicts, and that the row of a dead owner conflicts or is  *)
(* taken over, depending on its grace period.  Which tasks are candidates  *)
(* of a wave, what a worker does and how it is integrated are choices.     *)
(* Every transaction that releases a row may fail and leave it behind.     *)
(***************************************************************************)
EXTENDS Integers, Sequences, FiniteSets

CONSTANTS
  Procs,           \* supervisor processes, one `ralph run --parallel' each
  Project,         \* Project[p]: the workspace of p
  Tasks,           \* the root tasks of every project
  GraphOrder,      \* GraphOrder[t]: position of the task in the graph
  Provider,        \* Provider[t]: providerId of the task
  Model,           \* Model[t]: modelId of the task
  MaxGlobal,       \* MaxGlobal[p]: max_global in the project policy of p
  MaxProject,      \* MaxProject[p]: max_parallel
  MaxByProvider,   \* MaxByProvider[p]: max_per_provider, on the limited providers
  MaxByModel,      \* MaxByModel[p]: max_per_model, on the limited models
  RowIds           \* bound on the row identities in use at a time

ASSUME CapacityAssumption ==
  /\ IsFiniteSet(Procs) /\ IsFiniteSet(Tasks)
  /\ GraphOrder \in [Tasks -> Nat]
  /\ \A t, u \in Tasks : GraphOrder[t] = GraphOrder[u] => t = u
  /\ MaxGlobal \in [Procs -> Nat \ {0}]
  /\ MaxProject \in [Procs -> Nat \ {0}]
  /\ \A p \in Procs :
       /\ \A q \in DOMAIN MaxByProvider[p] : MaxByProvider[p][q] \in Nat \ {0}
       /\ \A q \in DOMAIN MaxByModel[p] : MaxByModel[p][q] \in Nat \ {0}

----------------------------------------------------------------------------
\* The scopes reserve() walks for a task, in its order.
ScopesOf(p, t) ==
  <<<<"global">>, <<"project", Project[p]>>>>
  \o (IF Provider[t] \in DOMAIN MaxByProvider[p]
        THEN <<<<"provider", Provider[t]>>>> ELSE <<>>)
  \o (IF Model[t] \in DOMAIN MaxByModel[p]
        THEN <<<<"model", Model[t]>>>> ELSE <<>>)

\* The ordinals p tries in a namespace: the ledger is shared, the limit is the
\* one each project passes for itself.
LimitOf(p, ns) ==
  CASE ns[1] = "global"   -> MaxGlobal[p]
    [] ns[1] = "project"  -> MaxProject[p]
    [] ns[1] = "provider" -> MaxByProvider[p][ns[2]]
    [] ns[1] = "model"    -> MaxByModel[p][ns[2]]

NamespacesOf(p, t) == {ScopesOf(p, t)[k] : k \in DOMAIN ScopesOf(p, t)}
SlotsOf(p, t) ==
  UNION {{<<ns, o>> : o \in 1..LimitOf(p, ns)} : ns \in NamespacesOf(p, t)}
Namespaces == UNION {UNION {NamespacesOf(p, t) : t \in Tasks} : p \in Procs}
Slots == UNION {UNION {SlotsOf(p, t) : t \in Tasks} : p \in Procs}

Row == [owner : Procs, id : RowIds]
NoRow == <<>>
Lease == [slot : Slots, id : RowIds]

VARIABLES
  pc,         \* where each process is
  row,        \* the active lease row of each slot, or NoRow
  todo,       \* tasks of the wave whose reservation has not ended
  scope,      \* reserve: index of the scope being tried
  ordinal,    \* acquireSlot: the ordinal being tried
  leases,     \* reserve: the leases it has so far
  bundle,     \* the capacity bundle of each task, {} when it has none
  unreleased, \* leases that were forgotten although their release failed
  worker,     \* state of the worker of each task of the wave
  thrown      \* the integration callback or a release of the wave threw

procVars == <<todo, scope, ordinal, leases, bundle, unreleased, worker, thrown>>
vars == <<pc, row, procVars>>

Off == {"new", "ended", "dead"}
Live(p) == pc[p] \notin Off
Gone(p) == pc[p] \in {"ended", "dead"}
WorkerStates == {"none", "claimed", "working", "completed", "failed",
                 "integrated"}

TypeOK ==
  /\ pc \in [Procs -> Off \cup {"snapshot", "reserve", "claim", "abort",
                                "execute", "integrate", "release", "finish"}]
  /\ row \in [Slots -> Row \cup {NoRow}]
  /\ todo \in [Procs -> SUBSET Tasks]
  /\ scope \in [Procs -> Nat \ {0}]
  /\ ordinal \in [Procs -> Nat \ {0}]
  /\ leases \in [Procs -> SUBSET Lease]
  /\ bundle \in [Procs -> [Tasks -> SUBSET Lease]]
  /\ unreleased \in [Procs -> SUBSET Lease]
  /\ worker \in [Procs -> [Tasks -> WorkerStates]]
  /\ thrown \in [Procs -> BOOLEAN]

Init ==
  /\ pc = [p \in Procs |-> "new"]
  /\ row = [s \in Slots |-> NoRow]
  /\ todo = [p \in Procs |-> {}]
  /\ scope = [p \in Procs |-> 1]
  /\ ordinal = [p \in Procs |-> 1]
  /\ leases = [p \in Procs |-> {}]
  /\ bundle = [p \in Procs |-> [t \in Tasks |-> {}]]
  /\ unreleased = [p \in Procs |-> {}]
  /\ worker = [p \in Procs |-> [t \in Tasks |-> "none"]]
  /\ thrown = [p \in Procs |-> FALSE]

----------------------------------------------------------------------------
\* Leases.

\* releaseDurableLease: an active row of this owner and identity is released,
\* a row that is no longer active is left as it is.
Released(p, ls) ==
  [s \in Slots |->
     IF /\ row[s] # NoRow
        /\ row[s].owner = p
        /\ [slot |-> s, id |-> row[s].id] \in ls
       THEN NoRow ELSE row[s]]

\* The leases of ls whose release may fail and leave an active row.
MayStay(p, ls) == {l \in ls : row[l.slot] = [owner |-> p, id |-> l.id]}

\* releaseLeases: every lease is attempted, those of `kept' in vain; the
\* caller forgets them all.
GiveBack(p, ls, kept) ==
  /\ row' = Released(p, ls \ kept)
  /\ unreleased' = [unreleased EXCEPT ![p] = @ \cup kept]

\* assertDurableLeaseOwned of every lease of the bundle.
Owned(p, t) ==
  /\ bundle[p][t] # {}
  /\ \A l \in bundle[p][t] :
        row[l.slot] = [owner |-> p, id |-> l.id]

\* A row identity nobody remembers for this slot: crypto.randomUUID().
Unused(s, i) ==
  /\ row[s] # NoRow => row[s].id # i
  /\ \A p \in Procs, t \in Tasks :
       [slot |-> s, id |-> i] \notin leases[p] \cup bundle[p][t]

FreshId(s) == CHOOSE i \in RowIds : Unused(s, i)

----------------------------------------------------------------------------
\* Selection of a wave.

\* The active run of p is the only one of its workspace (WriterLease).
Start(p) ==
  /\ pc[p] = "new"
  /\ \A q \in Procs : Project[q] = Project[p] => ~Live(q)
  /\ pc' = [pc EXCEPT ![p] = "snapshot"]
  /\ UNCHANGED <<row, procVars>>

\* selectParallelDispatches: candidates in graph order, each while every
\* scope it needs has been given to fewer tasks of this wave than its limit.
Selected(p, candidates) ==
  LET takes[t \in Tasks] ==
        /\ t \in candidates
        /\ \A ns \in NamespacesOf(p, t) :
             Cardinality({u \in Tasks : /\ GraphOrder[u] < GraphOrder[t]
                                        /\ ns \in NamespacesOf(p, u)
                                        /\ takes[u]}) < LimitOf(p, ns)
  IN {t \in candidates : takes[t]}

Snapshot(p, candidates) ==
  /\ pc[p] = "snapshot"
  /\ Selected(p, candidates) # {}
  /\ pc' = [pc EXCEPT ![p] = "reserve"]
  /\ todo' = [todo EXCEPT ![p] = Selected(p, candidates)]
  /\ UNCHANGED <<row, scope, ordinal, leases, bundle, unreleased, worker, thrown>>

\* Nothing is eligible, fail-fast drains, a stop was requested.
NothingToDispatch(p) ==
  /\ pc[p] = "snapshot"
  /\ pc' = [pc EXCEPT ![p] = "finish"]
  /\ UNCHANGED <<row, procVars>>

----------------------------------------------------------------------------
\* Reservation: capacityPort.reserve and acquireSlot.

\* The dispatch being reserved: the first of todo in graph order.
Current(p, t) ==
  /\ t \in todo[p]
  /\ \A u \in todo[p] : GraphOrder[t] <= GraphOrder[u]

Scope(p, t) == ScopesOf(p, t)[scope[p]]
Slot(p, t) == <<Scope(p, t), ordinal[p]>>
Reserving(p, t) == pc[p] = "reserve" /\ Current(p, t)

\* A slot was obtained: the next scope, or the bundle is complete.
Obtained(p, t, id) ==
  LET got == leases[p] \cup {[slot |-> Slot(p, t), id |-> id]} IN
  IF scope[p] < Len(ScopesOf(p, t))
    THEN /\ leases' = [leases EXCEPT ![p] = got]
         /\ scope' = [scope EXCEPT ![p] = @ + 1]
         /\ ordinal' = [ordinal EXCEPT ![p] = 1]
         /\ UNCHANGED <<pc, bundle>>
    ELSE /\ leases' = [leases EXCEPT ![p] = {}]
         /\ scope' = [scope EXCEPT ![p] = 1]
         /\ ordinal' = [ordinal EXCEPT ![p] = 1]
         /\ bundle' = [bundle EXCEPT ![p][t] = got]
         /\ pc' = [pc EXCEPT ![p] = "claim"]

\* acquireDurableLease finds a row of this very process: it is renewed and
\* returned, whichever worker it was acquired for.
ReserveOwn(p, t) ==
  /\ Reserving(p, t)
  /\ row[Slot(p, t)] # NoRow
  /\ row[Slot(p, t)].owner = p
  /\ Obtained(p, t, row[Slot(p, t)].id)
  /\ UNCHANGED <<row, todo, unreleased, worker, thrown>>

\* MUTANT of ReserveFree: a lapsed lease is taken without a probe of its owner.
ReserveFreeUnprobed(p, t) ==
  /\ Reserving(p, t)
  /\ row[Slot(p, t)] # NoRow => row[Slot(p, t)].owner # p
  /\ \E i \in RowIds : Unused(Slot(p, t), i)
  /\ LET id == FreshId(Slot(p, t)) IN
       /\ row' = [row EXCEPT ![Slot(p, t)] = [owner |-> p, id |-> id]]
       /\ Obtained(p, t, id)
  /\ UNCHANGED <<todo, unreleased, worker, thrown>>

\* No active row, or a row past its grace whose owner's process is no more: a
\* new row.
ReserveFree(p, t) ==
  /\ Reserving(p, t)
  /\ row[Slot(p, t)] # NoRow => Gone(row[Slot(p, t)].owner)
  /\ \E i \in RowIds : Unused(Slot(p, t), i)
  /\ LET id == FreshId(Slot(p, t)) IN
       /\ row' = [row EXCEPT ![Slot(p, t)] = [owner |-> p, id |-> id]]
       /\ Obtained(p, t, id)
  /\ UNCHANGED <<todo, unreleased, worker, thrown>>

\* RALPH_LEASE_CONFLICT: the row is somebody else's.
Conflict(p, t) ==
  /\ Reserving(p, t)
  /\ row[Slot(p, t)] # NoRow
  /\ row[Slot(p, t)].owner # p

ReserveConflict(p, t) ==
  /\ Conflict(p, t)
  /\ ordinal[p] < LimitOf(p, Scope(p, t))
  /\ ordinal' = [ordinal EXCEPT ![p] = @ + 1]
  /\ UNCHANGED <<pc, row, todo, scope, leases, bundle, unreleased, worker, thrown>>

\* Where claimParallelDispatches goes once todo is `rest'.
AfterDispatch(p, rest, claimed) ==
  pc' = [pc EXCEPT ![p] = IF rest # {} THEN "reserve"
                          ELSE IF claimed # {} THEN "execute" ELSE "finish"]

Claimed(p) == {t \in Tasks : worker[p][t] = "claimed"}

\* MUTANT of ReserveFull: the slots of the earlier scopes are forgotten.
ReserveFullLeaks(p, t) ==
  /\ Conflict(p, t)
  /\ ordinal[p] = LimitOf(p, Scope(p, t))
  /\ leases' = [leases EXCEPT ![p] = {}]
  /\ scope' = [scope EXCEPT ![p] = 1]
  /\ ordinal' = [ordinal EXCEPT ![p] = 1]
  /\ todo' = [todo EXCEPT ![p] = @ \ {t}]
  /\ AfterDispatch(p, todo[p] \ {t}, Claimed(p))
  /\ UNCHANGED <<row, bundle, unreleased, worker, thrown>>

\* Every ordinal conflicts: the leases obtained so far are released and the
\* dispatch is reported as a conflict of this scope.
ReserveFull(p, t) ==
  /\ Conflict(p, t)
  /\ ordinal[p] = LimitOf(p, Scope(p, t))
  /\ GiveBack(p, leases[p], {})
  /\ leases' = [leases EXCEPT ![p] = {}]
  /\ scope' = [scope EXCEPT ![p] = 1]
  /\ ordinal' = [ordinal EXCEPT ![p] = 1]
  /\ todo' = [todo EXCEPT ![p] = @ \ {t}]
  /\ AfterDispatch(p, todo[p] \ {t}, Claimed(p))
  /\ UNCHANGED <<bundle, worker, thrown>>

\* Any other error of acquireDurableLease, or of the release of a full scope:
\* the leases are released, and so is every dispatch claimed before this one
\* (releaseClaimedAfterFatalError).
ReserveError(p, t) ==
  /\ Reserving(p, t)
  /\ \E kept \in SUBSET MayStay(p, leases[p]) : GiveBack(p, leases[p], kept)
  /\ leases' = [leases EXCEPT ![p] = {}]
  /\ scope' = [scope EXCEPT ![p] = 1]
  /\ ordinal' = [ordinal EXCEPT ![p] = 1]
  /\ todo' = [todo EXCEPT ![p] = {}]
  /\ pc' = [pc EXCEPT ![p] = "abort"]
  /\ UNCHANGED <<bundle, worker, thrown>>

----------------------------------------------------------------------------
\* The resource claims of the dispatch, after its capacity.

ClaimAcquired(p, t) ==
  /\ pc[p] = "claim" /\ Current(p, t)
  /\ worker' = [worker EXCEPT ![p][t] = "claimed"]
  /\ todo' = [todo EXCEPT ![p] = @ \ {t}]
  /\ AfterDispatch(p, todo[p] \ {t}, {t})
  /\ UNCHANGED <<row, scope, ordinal, leases, bundle, unreleased, thrown>>

\* releaseBundle: the bundle is forgotten before its leases are released, and
\* a lease whose transaction failed is not tried again.
DropBundle(p, t, kept) ==
  /\ GiveBack(p, bundle[p][t], kept)
  /\ bundle' = [bundle EXCEPT ![p][t] = {}]

\* MUTANT of ClaimConflict: the dispatch is tried again instead of given up.
ClaimConflictRetries(p, t) ==
  /\ pc[p] = "claim" /\ Current(p, t)
  /\ DropBundle(p, t, {})
  /\ pc' = [pc EXCEPT ![p] = "reserve"]
  /\ UNCHANGED <<todo, scope, ordinal, leases, worker, thrown>>

\* RALPH_RESOURCE_CLAIM_CONFLICT: only this dispatch is given up.
ClaimConflict(p, t) ==
  /\ pc[p] = "claim" /\ Current(p, t)
  /\ DropBundle(p, t, {})
  /\ todo' = [todo EXCEPT ![p] = @ \ {t}]
  /\ AfterDispatch(p, todo[p] \ {t}, Claimed(p))
  /\ UNCHANGED <<scope, ordinal, leases, worker, thrown>>

\* Any other error of the claim aborts the preparation of the wave, and so does
\* an error of the release of this dispatch's capacity.
ClaimError(p, t) ==
  /\ pc[p] = "claim" /\ Current(p, t)
  /\ \E kept \in SUBSET MayStay(p, bundle[p][t]) : DropBundle(p, t, kept)
  /\ todo' = [todo EXCEPT ![p] = {}]
  /\ pc' = [pc EXCEPT ![p] = "abort"]
  /\ UNCHANGED <<scope, ordinal, leases, worker, thrown>>

\* releaseClaimedAfterFatalError: one claimed dispatch, then the next.
AbortOne(p, t) ==
  /\ pc[p] = "abort"
  /\ worker[p][t] = "claimed"
  /\ \E kept \in SUBSET MayStay(p, bundle[p][t]) : DropBundle(p, t, kept)
  /\ worker' = [worker EXCEPT ![p][t] = "none"]
  /\ UNCHANGED <<pc, todo, scope, ordinal, leases, thrown>>

AbortEnds(p) ==
  /\ pc[p] = "abort"
  /\ Claimed(p) = {}
  /\ pc' = [pc EXCEPT ![p] = "finish"]
  /\ UNCHANGED <<row, procVars>>

----------------------------------------------------------------------------
\* The wave: executeParallelWaves, executeWorker, integrateWave.

\* executeWorker passes capacityPort.assertOwned and begins.
WorkerStart(p, t) ==
  /\ pc[p] = "execute"
  /\ worker[p][t] = "claimed"
  /\ Owned(p, t)
  /\ worker' = [worker EXCEPT ![p][t] = "working"]
  /\ UNCHANGED <<pc, row, todo, scope, ordinal, leases, bundle, unreleased, thrown>>

\* assertOwned throws: a lost row, or a lease not renewed in time.
WorkerRefused(p, t) ==
  /\ pc[p] = "execute"
  /\ worker[p][t] = "claimed"
  /\ worker' = [worker EXCEPT ![p][t] = "failed"]
  /\ UNCHANGED <<pc, row, todo, scope, ordinal, leases, bundle, unreleased, thrown>>

\* MUTANT of WorkerSettles: a worker gives its bundle back when it settles,
\* before the wave is integrated.
WorkerSettlesReleasing(p, t, outcome) ==
  /\ pc[p] = "execute"
  /\ worker[p][t] = "working"
  /\ worker' = [worker EXCEPT ![p][t] = outcome]
  /\ row' = Released(p, bundle[p][t])
  /\ UNCHANGED <<pc, todo, scope, ordinal, leases, bundle, unreleased, thrown>>

\* executeTask returns, or throws: the outcome the wave sees.
WorkerSettles(p, t, outcome) ==
  /\ pc[p] = "execute"
  /\ worker[p][t] = "working"
  /\ worker' = [worker EXCEPT ![p][t] = outcome]
  /\ UNCHANGED <<pc, row, todo, scope, ordinal, leases, bundle, unreleased, thrown>>

\* Promise.allSettled: integration begins when every worker has settled.
AllSettled(p) ==
  /\ pc[p] = "execute"
  /\ \A t \in Tasks : worker[p][t] \notin {"claimed", "working"}
  /\ pc' = [pc EXCEPT ![p] = "integrate"]
  /\ UNCHANGED <<row, procVars>>

\* observe() rejected before the wave, or when a worker started or settled: the
\* wave is given up, with its bundles, once no worker runs.
ObserverThrows(p) ==
  /\ pc[p] = "execute"
  /\ \A t \in Tasks : worker[p][t] # "working"
  /\ pc' = [pc EXCEPT ![p] = "finish"]
  /\ UNCHANGED <<row, procVars>>

\* integrateWave, one completed worker after the other in graph order.
IntegrateOne(p, t) ==
  /\ pc[p] = "integrate"
  /\ worker[p][t] = "completed"
  /\ \A u \in Tasks : GraphOrder[u] < GraphOrder[t] => worker[p][u] # "completed"
  /\ Owned(p, t)
  /\ worker' = [worker EXCEPT ![p][t] = "integrated"]
  /\ UNCHANGED <<pc, row, todo, scope, ordinal, leases, bundle, unreleased, thrown>>

\* The loop ends, ends early (conflict, failed gate), or throws.
IntegrationEnds(p) ==
  /\ pc[p] = "integrate"
  /\ pc' = [pc EXCEPT ![p] = "release"]
  /\ UNCHANGED <<row, procVars>>

IntegrationThrows(p) ==
  /\ pc[p] = "integrate"
  /\ pc' = [pc EXCEPT ![p] = "release"]
  /\ thrown' = [thrown EXCEPT ![p] = TRUE]
  /\ UNCHANGED <<row, todo, scope, ordinal, leases, bundle, unreleased,
                 worker>>

\* The releases of the wave run concurrently, in any order; one that fails, of
\* the claims or of a slot, does not keep the others from being attempted.
ReleaseOne(p, t) ==
  /\ pc[p] = "release"
  /\ worker[p][t] # "none"
  /\ \E kept \in SUBSET MayStay(p, bundle[p][t]), failed \in BOOLEAN :
       /\ kept # {} => failed
       /\ DropBundle(p, t, kept)
       /\ thrown' = [thrown EXCEPT ![p] = @ \/ failed]
  /\ worker' = [worker EXCEPT ![p][t] = "none"]
  /\ UNCHANGED <<pc, todo, scope, ordinal, leases>>

\* The release or integration error is thrown, otherwise the next wave is
\* selected.
WaveEnds(p) ==
  /\ pc[p] = "release"
  /\ \A t \in Tasks : worker[p][t] = "none"
  /\ pc' = [pc EXCEPT ![p] = IF thrown[p] THEN "finish" ELSE "snapshot"]
  /\ UNCHANGED <<row, procVars>>

\* finally: capacityPort.releaseAll, then the command returns.
Finish(p) ==
  /\ pc[p] = "finish"
  /\ LET all == UNION {bundle[p][t] : t \in Tasks} IN
       \E kept \in SUBSET MayStay(p, all) : GiveBack(p, all, kept)
  /\ bundle' = [bundle EXCEPT ![p] = [t \in Tasks |-> {}]]
  /\ worker' = [worker EXCEPT ![p] = [t \in Tasks |-> "none"]]
  /\ pc' = [pc EXCEPT ![p] = "ended"]
  /\ UNCHANGED <<todo, scope, ordinal, leases, thrown>>

\* The process dies: its memory is gone, its rows stay in the ledgers.
Crash(p) ==
  /\ Live(p)
  /\ pc' = [pc EXCEPT ![p] = "dead"]
  /\ todo' = [todo EXCEPT ![p] = {}]
  /\ scope' = [scope EXCEPT ![p] = 1]
  /\ ordinal' = [ordinal EXCEPT ![p] = 1]
  /\ leases' = [leases EXCEPT ![p] = {}]
  /\ bundle' = [bundle EXCEPT ![p] = [t \in Tasks |-> {}]]
  /\ unreleased' = [unreleased EXCEPT ![p] = {}]
  /\ worker' = [worker EXCEPT ![p] = [t \in Tasks |-> "none"]]
  /\ thrown' = [thrown EXCEPT ![p] = FALSE]
  /\ UNCHANGED row

----------------------------------------------------------------------------
Reserve(p) ==
  \E t \in Tasks :
     \/ ReserveOwn(p, t) \/ ReserveFree(p, t) \/ ReserveConflict(p, t)
     \/ ReserveFull(p, t) \/ ReserveError(p, t)
Claim(p) ==
  \E t \in Tasks :
     ClaimAcquired(p, t) \/ ClaimConflict(p, t) \/ ClaimError(p, t)
Abort(p) == AbortEnds(p) \/ \E t \in Tasks : AbortOne(p, t)
Work(p) ==
  \/ AllSettled(p) \/ ObserverThrows(p)
  \/ \E t \in Tasks :
       \/ WorkerStart(p, t) \/ WorkerRefused(p, t)
       \/ \E outcome \in {"completed", "failed"} : WorkerSettles(p, t, outcome)
Integrate(p) ==
  \/ IntegrationEnds(p) \/ IntegrationThrows(p)
  \/ \E t \in Tasks : IntegrateOne(p, t)
Release(p) == WaveEnds(p) \/ \E t \in Tasks : ReleaseOne(p, t)

Step(p) ==
  \/ \E candidates \in SUBSET Tasks : Snapshot(p, candidates)
  \/ NothingToDispatch(p)
  \/ Reserve(p) \/ Claim(p) \/ Abort(p)
  \/ Work(p) \/ Integrate(p) \/ Release(p) \/ Finish(p)

Next == \E p \in Procs : Start(p) \/ Step(p) \/ Crash(p)

Spec == Init /\ [][Next]_vars
FairSpec == Spec /\ \A p \in Procs : WF_vars(Step(p))

----------------------------------------------------------------------------
\* Properties.

\* A process between two waves owns no active row, and one that has returned
\* only the rows whose own release transaction failed: whatever else happened on
\* the way (a full scope after some slots were obtained, a claim conflict, a
\* fatal error, a failed integration, the failed release of another slot),
\* reserve and release leave no slot behind in a ledger other projects read.
IdleHoldsNothing ==
  \A p \in Procs, s \in Slots :
     row[s] # NoRow /\ row[s].owner = p =>
       /\ pc[p] \notin {"new", "snapshot"}
       /\ pc[p] = "ended" => [slot |-> s, id |-> row[s].id] \in unreleased[p]

\* A worker that passed assertOwned keeps every slot of its bundle until the
\* release phase of its wave: neither a sibling nor another process can make
\* it run, or be integrated, without capacity.
StartedOwns ==
  \A p \in Procs, t \in Tasks :
     /\ pc[p] \in {"execute", "integrate"}
     /\ worker[p][t] \in {"working", "completed", "integrated"}
     => Owned(p, t)

Using(ns) == {p \in Procs : \E t \in Tasks :
                /\ worker[p][t] = "working" /\ ns \in NamespacesOf(p, t)}

\* What the shared ledger does bound, through crashes and take-overs: among the
\* PROCESSES with a running worker in a scope, never more than the limit of one
\* of them pass that limit or a tighter one.  (A process whose project allows
\* more may run beside them: nothing makes the projects agree on a limit.)
ProcessesBounded ==
  \A ns \in Namespaces : \A p \in Using(ns) :
    Cardinality({q \in Using(ns) : LimitOf(q, ns) <= LimitOf(p, ns)})
      <= LimitOf(p, ns)

\* Once the slots of a scope are given up no wave hangs on them: every wave
\* that begins to reserve ends, if its process lives.
WaveTerminates ==
  \A p \in Procs :
     pc[p] = "reserve" ~> pc[p] \in {"snapshot", "ended", "dead"}

----------------------------------------------------------------------------
\* The inductive invariant behind the theorems of ParallelCapacityProofs.

\* Every active row of a process that lives is a lease it can still release:
\* one of the reservation in progress, or one of a bundle, or its release was
\* attempted and failed.
Accounted(p) ==
  pc[p] # "dead" =>
    \A s \in Slots :
      row[s] # NoRow /\ row[s].owner = p =>
        \/ [slot |-> s, id |-> row[s].id] \in leases[p]
        \/ \E t \in Tasks : [slot |-> s, id |-> row[s].id] \in bundle[p][t]
        \/ [slot |-> s, id |-> row[s].id] \in unreleased[p]

\* The reservation in progress: its leases, scope and ordinal.
ReservationShape(p) ==
  /\ pc[p] # "reserve" => leases[p] = {} /\ scope[p] = 1 /\ ordinal[p] = 1
  /\ pc[p] \notin {"reserve", "claim"} => todo[p] = {}
  /\ \A t \in Tasks : Reserving(p, t) =>
       /\ scope[p] \in 1..Len(ScopesOf(p, t))
       /\ ordinal[p] \in 1..LimitOf(p, Scope(p, t))

\* A release that failed ends the run: no later wave begins.
FailedRelease(p) ==
  unreleased[p] # {} =>
    \/ pc[p] \in {"abort", "finish", "ended"}
    \/ pc[p] = "release" /\ thrown[p]

\* The wave: which workers and bundles there are in each phase.
WaveShape(p) ==
  /\ pc[p] \in Off \cup {"snapshot"} => \A t \in Tasks : worker[p][t] = "none"
  /\ pc[p] \in {"reserve", "claim", "abort"} =>
       \A t \in Tasks : worker[p][t] \in {"none", "claimed"}
  /\ \A t \in todo[p] : worker[p][t] = "none"
  /\ \A t \in Tasks : bundle[p][t] # {} =>
       worker[p][t] # "none" \/ (pc[p] = "claim" /\ Current(p, t))

\* StartedOwns of one process.
Backed(p) ==
  pc[p] \in {"execute", "integrate"} =>
    \A t \in Tasks :
      worker[p][t] \in {"working", "completed", "integrated"} => Owned(p, t)

\* reserve() goes through every scope: the leases of a reservation cover the
\* scopes before the current one, a bundle covers them all.
Covers(p, ls, scopes, n) ==
  \A k \in 1..n : \E l \in ls, o \in 1..LimitOf(p, scopes[k]) :
     l.slot = <<scopes[k], o>>

Covered(p) ==
  /\ \A t \in Tasks : Reserving(p, t) =>
       Covers(p, leases[p], ScopesOf(p, t), scope[p] - 1)
  /\ \A t \in Tasks : bundle[p][t] # {} =>
       Covers(p, bundle[p][t], ScopesOf(p, t), Len(ScopesOf(p, t)))
  /\ \A t \in Tasks : worker[p][t] = "working" => pc[p] = "execute"

ProcInv(p) ==
  /\ Accounted(p) /\ ReservationShape(p) /\ FailedRelease(p) /\ WaveShape(p)
  /\ Backed(p) /\ Covered(p)

Inv == TypeOK /\ \A p \in Procs : ProcInv(p)
=============================================================================
