---------------------------- MODULE WriterLease ----------------------------
(***************************************************************************)
(* The workspace writer lease: packages/persistence/src/leases.ts and its  *)
(* only writer-side client, packages/orchestration/src/run-lock.ts.        *)
(*                                                                         *)
(* A process here is one command invocation.  It calls                     *)
(* acquireExecutionLock once, with an owner identity (instance, pid, start *)
(* token, host) that no other invocation ever has, so a lease row is       *)
(* identified by the process that inserted it: lease[p] is the row of p,   *)
(* and "the same owner" is "the same p".                                   *)
(*                                                                         *)
(* The ledger is SQLite: each step that touches `lease' is one immediate   *)
(* transaction.  The diagnostic file execution.lock (the "mirror") is not  *)
(* in the ledger; each of its file operations is a step of its own.        *)
(* Everything between two awaits of the source is one step.                *)
(***************************************************************************)
EXTENDS Integers

CONSTANTS
  Procs,            \* command invocations that want to write the workspace
  Host,             \* Host[p]: the machine p runs on
  None,             \* "no lease observed", "no owner"
  LeaseDuration,    \* leaseDurationMs
  StaleGrace,       \* staleGraceMs
  Confirmations,    \* staleProbeConfirmations
  LegacyStarts,     \* whether a v1 installation is still started here
  RaceAttempts,     \* attempts of the acquisition loop and of the mirror loop
  MaxTime,          \* bound on the clock
  MaxRevision       \* bound on the revision of a row

ASSUME ConstantsAssumption ==
  /\ None \notin Procs
  /\ LeaseDuration \in Nat \ {0}
  /\ StaleGrace \in Nat
  /\ Confirmations \in Nat \ {0}
  /\ LegacyStarts \in BOOLEAN
  /\ RaceAttempts \in Nat \ {0}
  /\ MaxTime \in Nat
  /\ MaxRevision \in Nat

VARIABLES
  pc,            \* where each process is
  lease,         \* the rows of table leases, one resource, by owner
  obsOwner,      \* acquire: the active row read before the transaction
  obsRevision,   \* acquire: its revision when it was read
  probes,        \* acquire: negative probes of its owner so far
  tries,         \* iterations used of the loop the process is in
  renewing,      \* the renewal timer has a mirror write in flight
  renewFailed,   \* renewalFailure is set, the timer is stopped
  mirror,        \* the file execution.lock
  legacyAlive,   \* a v1 process that opened the file as its lock is running
  overlap,       \* it opened the file while a v2 process used lock or file
  now            \* wall clock

acquireVars == <<obsOwner, obsRevision, probes>>
renewVars == <<renewing, renewFailed>>
vars == <<pc, lease, obsOwner, obsRevision, probes, tries, renewing,
          renewFailed, mirror, legacyAlive, overlap, now>>

----------------------------------------------------------------------------
\* Control locations.
AcquirePc == {"observe", "probe", "commit"}
MirrorPc == {"mirrorOpen", "mirrorFill", "mirrorInspect", "mirrorReplace"}
LockedPc == {"held", "binding", "closing"}
UnmirrorPc == {"unmirrorRead", "unmirrorRemove"}
RunningPc == AcquirePc \cup MirrorPc \cup LockedPc \cup UnmirrorPc
EndedPc == {"done", "failed", "dead"}
AllPc == RunningPc \cup EndedPc \cup {"idle"}

\* Between the transaction that inserts its row and the one that releases it
\* a process believes it is the writer of the workspace.
HoldingPc == MirrorPc \cup LockedPc

\* Where a process uses the lock, or has settled what it does to the file.
UsingPc == LockedPc \cup {"mirrorFill", "mirrorReplace", "unmirrorRemove"}

LeaseStatus == {"none", "active", "released", "stolen"}
LeaseRow == [status : LeaseStatus, revision : Nat, expiresAt : Nat,
             graceExpiresAt : Nat, bound : BOOLEAN]
NoRow == [status |-> "none", revision |-> 0, expiresAt |-> 0,
          graceExpiresAt |-> 0, bound |-> FALSE]

MirrorFile == [kind : {"none", "legacy", "empty", "lease"},
               owner : Procs \cup {None}]
NoMirror == [kind |-> "none", owner |-> None]
LegacyMirror == [kind |-> "legacy", owner |-> None]
EmptyMirror(p) == [kind |-> "empty", owner |-> p]
LeaseMirror(p) == [kind |-> "lease", owner |-> p]

TypeOK ==
  /\ pc \in [Procs -> AllPc]
  /\ lease \in [Procs -> LeaseRow]
  /\ obsOwner \in [Procs -> Procs \cup {None}]
  /\ obsRevision \in [Procs -> Nat]
  /\ probes \in [Procs -> Nat]
  /\ tries \in [Procs -> Nat]
  /\ renewing \in [Procs -> BOOLEAN]
  /\ renewFailed \in [Procs -> BOOLEAN]
  /\ mirror \in MirrorFile
  /\ legacyAlive \in BOOLEAN
  /\ overlap \in BOOLEAN
  /\ now \in Nat

Init ==
  /\ pc = [p \in Procs |-> "idle"]
  /\ lease = [p \in Procs |-> NoRow]
  /\ obsOwner = [p \in Procs |-> None]
  /\ obsRevision = [p \in Procs |-> 0]
  /\ probes = [p \in Procs |-> 0]
  /\ tries = [p \in Procs |-> 0]
  /\ renewing = [p \in Procs |-> FALSE]
  /\ renewFailed = [p \in Procs |-> FALSE]
  /\ legacyAlive \in BOOLEAN
  /\ mirror \in IF legacyAlive THEN {LegacyMirror} ELSE {NoMirror, LegacyMirror}
  /\ overlap = FALSE
  /\ now = 0

Active(r) == lease[r].status = "active"
Goto(p, l) == pc' = [pc EXCEPT ![p] = l]

\* The locals of the acquisition loop go out of scope.
Forget(p) ==
  /\ obsOwner' = [obsOwner EXCEPT ![p] = None]
  /\ obsRevision' = [obsRevision EXCEPT ![p] = 0]
  /\ probes' = [probes EXCEPT ![p] = 0]
  /\ tries' = [tries EXCEPT ![p] = 0]

----------------------------------------------------------------------------
(* acquireDurableLease *)

Start(p) ==
  /\ pc[p] = "idle"
  /\ Goto(p, "observe")
  /\ UNCHANGED <<lease, acquireVars, tries, renewVars, mirror,
                 legacyAlive, overlap, now>>

\* No active row: go straight to the transaction.
ObserveFree(p) ==
  /\ pc[p] = "observe"
  /\ \A r \in Procs : ~Active(r)
  /\ obsOwner' = [obsOwner EXCEPT ![p] = None]
  /\ Goto(p, "commit")
  /\ UNCHANGED <<lease, obsRevision, probes, tries, renewVars, mirror,
                 legacyAlive, overlap, now>>

\* The owner is inside its lease or its grace period: conflict.
ObserveFresh(p) ==
  /\ pc[p] = "observe"
  /\ \E r \in Procs : Active(r) /\ now < lease[r].graceExpiresAt
  /\ Goto(p, "failed")
  /\ Forget(p)
  /\ UNCHANGED <<lease, renewVars, mirror, legacyAlive, overlap, now>>

\* The grace period is over: the owner has to be probed.
ObserveStale(p) ==
  /\ pc[p] = "observe"
  /\ \E r \in Procs :
       /\ Active(r)
       /\ now >= lease[r].graceExpiresAt
       /\ obsOwner' = [obsOwner EXCEPT ![p] = r]
       /\ obsRevision' = [obsRevision EXCEPT ![p] = lease[r].revision]
  /\ probes' = [probes EXCEPT ![p] = 0]
  /\ Goto(p, "probe")
  /\ UNCHANGED <<lease, tries, renewVars, mirror, legacyAlive, overlap, now>>

\* MUTANT of ProbeAnswers: the pid of another machine is looked up on this one.
ProbeAnswersLocally(p, r) ==
  IF pc[r] \in EndedPc \/ Host[r] # Host[p] THEN {"dead"} ELSE {"alive"}

\* What probeProcessIdentity may answer about r when asked from p.  An owner
\* that ended can look alive: it has not exited yet, or its pid is reused by a
\* process p may not inspect.
ProbeAnswers(p, r) ==
  IF Host[r] # Host[p] THEN {"unreachable"}
  ELSE IF pc[r] \in EndedPc THEN {"dead", "identity-mismatch", "alive"}
  ELSE {"alive"}

\* MUTANT of Negative: an owner that cannot be probed counts as gone.
NegativeUnlessAlive(answer) == answer # "alive"

Negative(answer) == answer \in {"dead", "identity-mismatch"}

ProbeRefused(p) ==
  /\ pc[p] = "probe"
  /\ \E answer \in ProbeAnswers(p, obsOwner[p]) : ~Negative(answer)
  /\ Goto(p, "failed")
  /\ Forget(p)
  /\ UNCHANGED <<lease, renewVars, mirror, legacyAlive, overlap, now>>

ProbeConfirmed(p) ==
  /\ pc[p] = "probe"
  /\ \E answer \in ProbeAnswers(p, obsOwner[p]) : Negative(answer)
  /\ probes' = [probes EXCEPT ![p] = @ + 1]
  /\ Goto(p, IF probes[p] + 1 < Confirmations THEN "probe" ELSE "commit")
  /\ UNCHANGED <<lease, obsOwner, obsRevision, tries, renewVars, mirror,
                 legacyAlive, overlap, now>>

\* MUTANT of Unchanged: the observed row is compared by id only.
SameRow(p) ==
  IF obsOwner[p] = None
  THEN \A r \in Procs : ~Active(r)
  ELSE Active(obsOwner[p])

\* The immediate transaction sees the row (or the absence) that was observed.
Unchanged(p) ==
  IF obsOwner[p] = None
  THEN \A r \in Procs : ~Active(r)
  ELSE Active(obsOwner[p]) /\ lease[obsOwner[p]].revision = obsRevision[p]

NewRow(bind) ==
  [status |-> "active", revision |-> 0, expiresAt |-> now + LeaseDuration,
   graceExpiresAt |-> now + LeaseDuration + StaleGrace, bound |-> bind]

Displaced(row) == [row EXCEPT !.status = "stolen", !.revision = @ + 1]

CommitAcquire(p) ==
  /\ pc[p] = "commit"
  /\ Unchanged(p)
  /\ \E bind \in BOOLEAN :
       lease' = [r \in Procs |-> CASE r = p -> NewRow(bind)
                                   [] r # p /\ r = obsOwner[p] -> Displaced(lease[r])
                                   [] OTHER -> lease[r]]
  /\ Goto(p, "mirrorOpen")
  /\ Forget(p)
  /\ UNCHANGED <<renewVars, mirror, legacyAlive, overlap, now>>

\* The row changed since it was read: observe again, at most RaceAttempts times.
CommitRetry(p) ==
  /\ pc[p] = "commit"
  /\ ~Unchanged(p)
  /\ \/ /\ tries[p] + 1 < RaceAttempts
        /\ tries' = [tries EXCEPT ![p] = @ + 1]
        /\ Goto(p, "observe")
        /\ UNCHANGED acquireVars
     \/ /\ tries[p] + 1 >= RaceAttempts
        /\ Goto(p, "failed")
        /\ Forget(p)
  /\ UNCHANGED <<lease, renewVars, mirror, legacyAlive, overlap, now>>

----------------------------------------------------------------------------
(* releaseDurableLease, renewDurableLease, bindDurableLeaseRun: the row of  *)
(* the calling owner after the transaction.                                *)

Released(row) ==
  IF row.status = "active"
  THEN [row EXCEPT !.status = "released", !.revision = @ + 1]
  ELSE row

Renewed(row) ==
  [row EXCEPT !.revision = @ + 1, !.expiresAt = now + LeaseDuration,
              !.graceExpiresAt = now + LeaseDuration + StaleGrace]

Bound(row) == IF row.bound THEN row
              ELSE [row EXCEPT !.bound = TRUE, !.revision = @ + 1]

----------------------------------------------------------------------------
(* writeInitialMirror; a failure (a file operation may always fail) releases *)
(* the row and gives up.                                                   *)

\* MUTANT of MirrorFails: the mirror is tried again without limit.
MirrorRetries(p) ==
  /\ Goto(p, "mirrorOpen")
  /\ Forget(p)
  /\ UNCHANGED lease

MirrorFails(p) ==
  /\ lease' = [lease EXCEPT ![p] = Released(@)]
  /\ Goto(p, "failed")
  /\ Forget(p)

\* open(path, "wx") creates an empty file or reports EEXIST.
MirrorOpen(p) ==
  /\ pc[p] = "mirrorOpen"
  /\ \/ /\ mirror.kind = "none"
        /\ mirror' = EmptyMirror(p)
        /\ Goto(p, "mirrorFill")
     \/ /\ mirror.kind # "none"
        /\ Goto(p, "mirrorInspect")
        /\ UNCHANGED mirror
  /\ UNCHANGED <<lease, acquireVars, tries, renewVars,
                 legacyAlive, overlap, now>>

\* The content goes to the open handle: if the path was unlinked or replaced
\* meanwhile, the file at the path does not get it.
MirrorFill(p) ==
  /\ pc[p] = "mirrorFill"
  /\ \/ /\ mirror' = IF mirror = EmptyMirror(p) THEN LeaseMirror(p) ELSE mirror
        /\ Goto(p, "held")
        /\ Forget(p)
        /\ UNCHANGED lease
     \/ MirrorFails(p) /\ UNCHANGED mirror
  /\ UNCHANGED <<renewVars, legacyAlive, overlap, now>>

\* MUTANT of Replaceable: any well-formed mirror may be replaced.
ReplaceableUnprobed == mirror.kind \in {"lease", "legacy"}

\* A well-formed v2 mirror, or a v1 lock whose process is gone.
Replaceable ==
  \/ mirror.kind = "lease"
  \/ mirror.kind = "legacy" /\ ~legacyAlive

\* The file exists: gone again (retry), malformed or of a live v1 process
\* (give up), or replaceable.
MirrorInspect(p) ==
  /\ pc[p] = "mirrorInspect"
  /\ \/ /\ mirror.kind = "none"
        /\ tries[p] + 1 < RaceAttempts
        /\ tries' = [tries EXCEPT ![p] = @ + 1]
        /\ Goto(p, "mirrorOpen")
        /\ UNCHANGED <<lease, acquireVars>>
     \/ /\ \/ mirror.kind = "none" /\ tries[p] + 1 >= RaceAttempts
           \/ mirror.kind # "none" /\ ~Replaceable
        /\ MirrorFails(p)
     \/ /\ Replaceable
        /\ Goto(p, "mirrorReplace")
        /\ UNCHANGED <<lease, acquireVars, tries>>
  /\ UNCHANGED <<renewVars, mirror, legacyAlive, overlap, now>>

\* writeFileAtomic(path, content, { overwrite: true })
MirrorReplace(p) ==
  /\ pc[p] = "mirrorReplace"
  /\ \/ /\ mirror' = LeaseMirror(p)
        /\ Goto(p, "held")
        /\ Forget(p)
        /\ UNCHANGED lease
     \/ MirrorFails(p) /\ UNCHANGED mirror
  /\ UNCHANGED <<renewVars, legacyAlive, overlap, now>>

----------------------------------------------------------------------------
(* The lock object: timer, bindRun, assertOwned, release. *)

\* renewOnce, run by the timer: ledger first, mirror afterwards.
RenewTick(p) ==
  /\ pc[p] \in {"held", "binding"}
  /\ ~renewing[p] /\ ~renewFailed[p]
  /\ lease[p].revision < MaxRevision
  /\ IF Active(p)
     THEN /\ lease' = [lease EXCEPT ![p] = Renewed(@)]
          /\ renewing' = [renewing EXCEPT ![p] = TRUE]
          /\ UNCHANGED renewFailed
     ELSE /\ renewFailed' = [renewFailed EXCEPT ![p] = TRUE]
          /\ UNCHANGED <<lease, renewing>>
  /\ UNCHANGED <<pc, acquireVars, tries, mirror, legacyAlive, overlap, now>>

RenewMirror(p) ==
  /\ renewing[p]
  /\ renewing' = [renewing EXCEPT ![p] = FALSE]
  /\ \/ mirror' = LeaseMirror(p) /\ UNCHANGED renewFailed
     \/ renewFailed' = [renewFailed EXCEPT ![p] = TRUE] /\ UNCHANGED mirror
  /\ UNCHANGED <<pc, lease, acquireVars, tries, legacyAlive, overlap, now>>

\* assertDurableLeaseOwned, behind the renewalFailure check of the lock.
Owned(p) == ~renewFailed[p] /\ Active(p) /\ now < lease[p].expiresAt

\* bindRun: waits for the renewal in flight, asserts, binds, mirrors.  When the
\* mirror cannot be written the caller gets the error and releases the lock.
BindRun(p) ==
  /\ pc[p] = "held"
  /\ ~renewing[p]
  /\ Owned(p)
  /\ lease[p].revision < MaxRevision
  /\ lease' = [lease EXCEPT ![p] = Bound(@)]
  /\ Goto(p, "binding")
  /\ UNCHANGED <<acquireVars, tries, renewVars, mirror,
                 legacyAlive, overlap, now>>

BindMirror(p) ==
  /\ pc[p] = "binding"
  /\ \/ mirror' = LeaseMirror(p) /\ Goto(p, "held")
     \/ Goto(p, "closing") /\ UNCHANGED mirror
  /\ UNCHANGED <<lease, acquireVars, tries, renewVars,
                 legacyAlive, overlap, now>>

\* release() is called: by choice, or because assertOwned threw.  `released'
\* is set and the timer cleared; a renewal in flight is awaited.
Close(p) ==
  /\ pc[p] = "held"
  /\ Goto(p, "closing")
  /\ UNCHANGED <<lease, acquireVars, tries, renewVars, mirror,
                 legacyAlive, overlap, now>>

\* MUTANT of ReleaseLease: the renewal in flight is not awaited.
ReleaseUnawaited(p) ==
  /\ pc[p] = "closing"
  /\ lease' = [lease EXCEPT ![p] = Released(@)]
  /\ Goto(p, "unmirrorRead")
  /\ UNCHANGED <<acquireVars, tries, renewVars, mirror,
                 legacyAlive, overlap, now>>

\* MUTANT of ReleaseLease: it insists on a lease that is still owned.
ReleaseIfOwned(p) ==
  /\ pc[p] = "closing"
  /\ ~renewing[p] /\ Owned(p)
  /\ lease' = [lease EXCEPT ![p] = Released(@)]
  /\ Goto(p, "unmirrorRead")
  /\ UNCHANGED <<acquireVars, tries, renewVars, mirror,
                 legacyAlive, overlap, now>>

ReleaseLease(p) ==
  /\ pc[p] = "closing"
  /\ ~renewing[p]
  /\ lease' = [lease EXCEPT ![p] = Released(@)]
  /\ Goto(p, "unmirrorRead")
  /\ renewFailed' = [renewFailed EXCEPT ![p] = FALSE]
  /\ UNCHANGED <<acquireVars, tries, renewing, mirror,
                 legacyAlive, overlap, now>>

\* removeOwnedMirror, first half: read the file.  The outbox flush before it
\* may throw, and then the file stays.
UnmirrorRead(p) ==
  /\ pc[p] = "unmirrorRead"
  /\ \/ Goto(p, IF mirror = LeaseMirror(p) THEN "unmirrorRemove" ELSE "done")
     \/ Goto(p, "done")
  /\ UNCHANGED <<lease, acquireVars, tries, renewVars, mirror,
                 legacyAlive, overlap, now>>

\* removeOwnedMirror, second half: rm(path, { force: true }).
UnmirrorRemove(p) ==
  /\ pc[p] = "unmirrorRemove"
  /\ mirror' = NoMirror
  /\ Goto(p, "done")
  /\ UNCHANGED <<lease, acquireVars, tries, renewVars,
                 legacyAlive, overlap, now>>

----------------------------------------------------------------------------
(* Environment. *)

\* The process is killed, or its machine is: its start token never returns.
Crash(p) ==
  /\ pc[p] \in RunningPc
  /\ Goto(p, "dead")
  /\ renewing' = [renewing EXCEPT ![p] = FALSE]
  /\ renewFailed' = [renewFailed EXCEPT ![p] = FALSE]
  /\ Forget(p)
  /\ UNCHANGED <<lease, mirror, legacyAlive, overlap, now>>

\* A v1 process starts: the file is its lock, and open(path, "wx") is all it
\* asks.  It knows nothing of the ledger.  The file is empty until the content
\* is written; a v2 process refuses both.
LegacyStart ==
  /\ LegacyStarts
  /\ ~legacyAlive
  /\ mirror.kind = "none"
  /\ legacyAlive' = TRUE
  /\ mirror' = LegacyMirror
  /\ overlap' = (\E p \in Procs : pc[p] \in UsingPc)
  /\ UNCHANGED <<pc, lease, acquireVars, tries, renewVars, now>>

\* The v1 process ends.  It removes a file that it just read as its own, so
\* one that took the place of its own meanwhile too; or it is killed.
LegacyExit ==
  /\ legacyAlive
  /\ legacyAlive' = FALSE
  /\ mirror' \in {NoMirror, mirror}
  /\ UNCHANGED <<pc, lease, acquireVars, tries, renewVars, overlap, now>>

Tick ==
  /\ now < MaxTime
  /\ now' = now + 1
  /\ UNCHANGED <<pc, lease, acquireVars, tries, renewVars, mirror, legacyAlive,
                 overlap>>

----------------------------------------------------------------------------
Observe(p) == ObserveFree(p) \/ ObserveFresh(p) \/ ObserveStale(p)
Probe(p) == ProbeRefused(p) \/ ProbeConfirmed(p)
Commit(p) == CommitAcquire(p) \/ CommitRetry(p)
WriteInitialMirror(p) ==
  MirrorOpen(p) \/ MirrorFill(p) \/ MirrorInspect(p) \/ MirrorReplace(p)
Renew(p) == RenewTick(p) \/ RenewMirror(p)
Bind(p) == BindRun(p) \/ BindMirror(p)
Release(p) == ReleaseLease(p) \/ UnmirrorRead(p) \/ UnmirrorRemove(p)

Next ==
  \/ \E p \in Procs :
       \/ Start(p) \/ Observe(p) \/ Probe(p) \/ Commit(p)
       \/ WriteInitialMirror(p) \/ Renew(p) \/ Bind(p) \/ Close(p)
       \/ Release(p) \/ Crash(p)
  \/ LegacyStart \/ LegacyExit
  \/ Tick

Spec == Init /\ [][Next]_vars

\* The steps of a process that nothing but the process itself can hold up:
\* code after an await whose operation ends.  Starting, renewing (a timer),
\* binding, closing and crashing are choices of the user or the environment.
Fairness ==
  \A p \in Procs :
    /\ WF_vars(Observe(p) \/ Probe(p) \/ Commit(p) \/ WriteInitialMirror(p))
    /\ WF_vars(RenewMirror(p))
    /\ WF_vars(Release(p))

FairSpec == Spec /\ Fairness

----------------------------------------------------------------------------
(* Properties. *)

\* Two supervisors never both believe they are the writer of the workspace,
\* whatever the clock, the renewals and the crashes do: the promise of
\* acquireExecutionLock to everything the runner writes.
MutualExclusion ==
  \A p, q \in Procs : pc[p] \in HoldingPc /\ pc[q] \in HoldingPc => p = q

\* A process that has not released the lock and is alive still owns an active
\* row: no take-over ever pulls the lease from under a live writer, however
\* late its renewals are.
HolderOwnsLease ==
  \A p \in Procs : pc[p] \in HoldingPc => Active(p)

\* leases_one_active_resource_idx is never what stops an insert: the
\* transaction of acquireDurableLease already leaves one active row at most.
OneActiveRow ==
  \A p, q \in Procs : Active(p) /\ Active(q) => p = q

\* A row is displaced only when its owner is dead and the grace period of the
\* row as it stands (not as it was first read) is over.
StealsOnlyStale ==
  [][\A p \in Procs :
       lease[p].status = "active" /\ lease'[p].status = "stolen"
         => pc[p] = "dead" /\ now >= lease[p].graceExpiresAt]_vars

\* While a supervisor holds the lock the mirror is absent or names it: no
\* write of an earlier owner lands after the hand-over.  The one other file it
\* may find there is that of a v1 process that started beside it.
MirrorNeverNamesAnother ==
  \A p \in Procs :
    pc[p] \in LockedPc =>
      \/ mirror \in {NoMirror, LeaseMirror(p)}
      \/ mirror = LegacyMirror /\ overlap

\* A v1 process that got its file while no v2 process held the lock, was past
\* the inspection of the file or had yet to remove it, keeps every v2 process
\* out of the workspace for as long as it runs.  No more is true: the file is
\* missing while a v2 process holds the lock when the late removal of its
\* predecessor (removeOwnedMirror) took it, or between the v2 process's look
\* at a stale file and its own write; a v1 process that starts then writes
\* beside the holder of the lease.
LegacyExcluded ==
  legacyAlive /\ ~overlap => \A p \in Procs : pc[p] \notin LockedPc

\* The lock that the ledger rows implement.
Lock == INSTANCE WriterLock WITH
  writers <- {p \in Procs : Active(p)},
  dead <- {p \in Procs : pc[p] = "dead"},
  past <- {p \in Procs : lease[p].status # "none"}

\* Observation, probes, swap, renewal, binding, release and crashes amount to
\* a lock: acquireDurableLease gives it to one invocation in one step, when
\* nobody living has it, and only the owner's own release takes it away again.
ImplementsLock == Lock!Spec

\* Every acquisition comes to an end: a lock, an error or a crash.
AcquisitionEnds ==
  \A p \in Procs :
    pc[p] \in AcquirePc \cup MirrorPc
      ~> pc[p] \in LockedPc \cup {"failed", "dead"}

\* release() that was called ends with the lease given back.
ReleaseCompletes ==
  \A p \in Procs :
    pc[p] = "closing" ~> (~Active(p) \/ pc[p] = "dead")

----------------------------------------------------------------------------
(* The inductive invariant behind the theorems of WriterLeaseProofs.       *)

\* Only a writer, or one that died as a writer, has an active row.
ActiveOwner ==
  \A p \in Procs : Active(p) => pc[p] \in HoldingPc \cup {"dead"}

\* An invocation that is still acquiring has inserted no row.
NoRowYet ==
  \A p \in Procs :
    pc[p] \in AcquirePc \cup {"idle"} => lease[p].status = "none"

\* The row a process is probing exists, and its owner has ended as soon as
\* one probe was negative.
ProbedGone ==
  \A p \in Procs :
    /\ pc[p] = "probe" => obsOwner[p] # None
    /\ \/ pc[p] = "probe" /\ probes[p] > 0
       \/ pc[p] = "commit" /\ obsOwner[p] # None
       => pc[obsOwner[p]] \in EndedPc

\* A row that still has the observed revision is still past its grace.
ObservedStale ==
  \A p \in Procs :
    pc[p] \in {"probe", "commit"} /\ obsOwner[p] # None =>
      /\ lease[obsOwner[p]].status # "none"
      /\ lease[obsOwner[p]].revision >= obsRevision[p]
      /\ lease[obsOwner[p]].revision = obsRevision[p] =>
           lease[obsOwner[p]].graceExpiresAt <= now

\* Who may have written the mirror, and where a live v1 process stops us.
MirrorOwner ==
  /\ MirrorNeverNamesAnother
  /\ legacyAlive /\ ~overlap =>
       mirror = LegacyMirror /\ \A p \in Procs : pc[p] \notin UsingPc
  /\ \A p \in Procs :
       /\ pc[p] = "mirrorFill" =>
            \/ mirror \in {NoMirror, EmptyMirror(p)}
            \/ mirror = LegacyMirror /\ overlap
       /\ renewing[p] => pc[p] \in LockedPc

LeaseInv ==
  /\ HolderOwnsLease
  /\ OneActiveRow
  /\ ActiveOwner
  /\ NoRowYet
  /\ ProbedGone
  /\ ObservedStale

Inv == TypeOK /\ LeaseInv /\ MirrorOwner
=============================================================================
