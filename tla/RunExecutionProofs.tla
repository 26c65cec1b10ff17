------------------------- MODULE RunExecutionProofs -------------------------
(***************************************************************************)
(* TLAPS proofs about RunExecution, for any finite set of tasks in any     *)
(* order and with any dependencies, any budgets of revisions and retries,  *)
(* and any number of faults and edits.                                     *)
(*                                                                         *)
(* Inv has three parts besides the types.  DurableInv is about the ledger  *)
(* and the file and changes only with them: the lemmas of the second       *)
(* section show it for the few ways in which they change.  PlaceInv is     *)
(* about the position of the supervisor: the lemmas of the third section,  *)
(* one per action or per group of actions that change the same things,     *)
(* show it with the types.  WriteInv is about marker writes between their  *)
(* comparison and their rename, which few actions touch: it is shown last. *)
(***************************************************************************)
EXTENDS RunExecution, TLAPS, WellFoundedInduction

USE TasksAssumption, BoundsAssumption
USE DEF ledger, disk, memory, bounds, At, Goto

Att == [st : AttemptStatus, dec : Decisions]
Rev == [used : 0..MaxRevisions, feedback : BOOLEAN, idle : 0..(MaxNoChange + 1)]
Tx == [st : {"none", "prepared", "marker_written", "committed"},
       before : Content \cup {NoWrite}, after : Content \cup {NoWrite}]
Late == [from : Content, to : Content,
         stage : {"waiting", "compared", "landed"}, task : Tasks \cup {NoTask}]

\* Inv but for WriteInv
Rest == TypeOK /\ DurableInv /\ PlaceInv
\* a late write is still the same, or gone
LateKept == late' # NoWrite => /\ late # NoWrite
                               /\ late'.from = late.from /\ late'.to = late.to
USE DEF Rest, LateKept, Leased

-----------------------------------------------------------------------------
(* The operators of the model. *)

\* A set of naturals has a least element.
LEMMA LeastNatural ==
  ASSUME NEW S, S \subseteq Nat, S # {}
  PROVE  \E m \in S : \A n \in S : m <= n
  <1>. DEFINE R == OpToRel(<, Nat)
  <1>1. IsWellFoundedOn(R, Nat)
    BY NatLessThanWellFounded
  <1>. HIDE DEF R
  <1>2. PICK m \in S : \A n \in S : ~(<<n, m>> \in R)
    BY <1>1, WFMin
  <1>3. ASSUME NEW n \in S PROVE m <= n
    <2>1. ~(<<n, m>> \in R) /\ m \in Nat /\ n \in Nat
      BY <1>2
    <2>2. ~(n < m)
      BY <2>1 DEF R, OpToRel
    <2>. QED
      BY <2>1, <2>2
  <1>. QED
    BY <1>3

\* The first task of a set in graph order is one of the set.
LEMMA FirstIsMember ==
  ASSUME NEW S \in SUBSET Tasks, S # {}
  PROVE  First(S) \in S
  <1>. DEFINE I == {i \in DOMAIN Order : Order[i] \in S}
              IsFirst(i) == /\ Order[i] \in S
                            /\ \A j \in DOMAIN Order : Order[j] \in S => i <= j
  <1>1. I \subseteq Nat /\ I # {}
    OBVIOUS
  <1>2. PICK m \in I : \A n \in I : m <= n
    <2>. HIDE DEF I
    <2>. QED
      BY <1>1, LeastNatural
  <1>3. m \in DOMAIN Order /\ IsFirst(m)
    BY <1>2
  <1>4. IsFirst(CHOOSE i \in DOMAIN Order : IsFirst(i))
    <2>. HIDE DEF IsFirst
    <2>. QED
      BY <1>3
  <1>. QED
    BY <1>4 DEF First

\* The selected task can be worked on: it is not completed, and was started
\* before or has its dependencies behind it.
LEMMA SelectedTask ==
  ASSUME SelectTask # NoTask
  PROVE  /\ SelectTask \in Tasks
         /\ \/ EffectiveStatus(SelectTask) \in
                 {"active", "verifying", "evaluating", "interrupted",
                  "retryable_failed"}
            \/ /\ ~Completed(EffectiveStatus(SelectTask))
               /\ DependenciesPassed(SelectTask)
  <1>. DEFINE resumable == {t \in Tasks : Resumes(t)}
              eligible == {t \in Tasks : Eligible(t)}
  <1>1. CASE resumable # {}
    <2>1. SelectTask = First(resumable)
      BY <1>1 DEF SelectTask
    <2>2. SelectTask \in resumable
      BY <1>1, <2>1, FirstIsMember
    <2>. QED
      BY <2>2 DEF Resumes
  <1>2. CASE resumable = {}
    <2>1. eligible # {} /\ SelectTask = First(eligible)
      BY <1>2 DEF SelectTask
    <2>2. SelectTask \in eligible
      BY <2>1, FirstIsMember
    <2>. QED
      BY <2>2 DEF Eligible
  <1>. QED
    BY <1>1, <1>2

\* Mark changes one marker.
LEMMA MarkContent ==
  ASSUME NEW c \in Content, NEW t \in Tasks, NEW s \in Markers
  PROVE  /\ Mark(c, t, s) \in Content
         /\ \A x \in Tasks :
              Mark(c, t, s).m[x] = IF x = t THEN s ELSE c.m[x]
  BY DEF Content, Mark, Markers

\* The contents that Ralph writes.
LEMMA MarkedActive ==
  ASSUME NEW c \in Content, NEW t \in Tasks, NEW b, b = Mark(c, t, "active")
  PROVE  /\ b \in Content
         /\ \A x \in Tasks : b.m[x] = IF x = t THEN "active" ELSE c.m[x]
  <1>1. "active" \in Markers
    BY DEF Markers
  <1>2. /\ Mark(c, t, "active") \in Content
        /\ \A x \in Tasks :
             Mark(c, t, "active").m[x] = IF x = t THEN "active" ELSE c.m[x]
    BY <1>1, MarkContent
  <1>. QED
    BY <1>2

\* The same for [x].
LEMMA MarkedCompleted ==
  ASSUME NEW c \in Content, NEW t \in Tasks, NEW b, b = Mark(c, t, "completed")
  PROVE  /\ b \in Content
         /\ \A x \in Tasks : b.m[x] = IF x = t THEN "completed" ELSE c.m[x]
  <1>1. "completed" \in Markers
    BY DEF Markers
  <1>2. /\ Mark(c, t, "completed") \in Content
        /\ \A x \in Tasks :
             Mark(c, t, "completed").m[x] = IF x = t THEN "completed" ELSE c.m[x]
    BY <1>1, MarkContent
  <1>. QED
    BY <1>2

\* A marker that moved forward never left [x].
LEMMA StepKeepsCompleted ==
  ASSUME NEW a \in Content, NEW b, OneStep(a, b)
  PROVE  /\ b \in Content
         /\ \A t \in Tasks : a.m[t] = "completed" => b.m[t] = "completed"
  <1>1. PICK t \in Tasks : \/ a.m[t] = "pending" /\ b = Mark(a, t, "active")
                           \/ a.m[t] = "active" /\ b = Mark(a, t, "completed")
    BY DEF OneStep
  <1>2. PICK s \in {"active", "completed"} : b = Mark(a, t, s)
    BY <1>1
  <1>3. /\ b \in Content
        /\ \A x \in Tasks : b.m[x] = IF x = t THEN s ELSE a.m[x]
    <2>1. s \in Markers
      BY DEF Markers
    <2>2. /\ Mark(a, t, s) \in Content
          /\ \A x \in Tasks : Mark(a, t, s).m[x] = IF x = t THEN s ELSE a.m[x]
      BY <2>1, MarkContent
    <2>. QED
      BY <1>2, <2>2
  <1>4. a.m[t] # "completed"
    BY <1>1
  <1>. QED
    BY <1>3, <1>4
-----------------------------------------------------------------------------
(* The ways in which the ledger and the file change. *)

\* Nothing changes, except that the run may not become completed.
LEMMA DurableSame ==
  ASSUME DurableInv,
         LateKept,
         UNCHANGED <<file, mat, rows, att, tx, graph, licensed, edits>>,
         run' = run \/ run' # "completed" \/ (mat => Tasks \subseteq licensed)
  PROVE  DurableInv'
  <1>1. NothingBeforeRows' /\ PendingIsCommittable' /\ CommittedAgrees'
    BY DEF DurableInv, NothingBeforeRows, PendingIsCommittable, PendingTasks,
           Pending, CommittedAgrees
  <1>2. LicenceInv' /\ LateInv'
    BY DEF DurableInv, LicenceInv, MayComplete, LateInv, OneStep
  <1>3. edits' = 0 => FileAhead' /\ StartedInOrder'
    BY DEF DurableInv, FileAhead, StartedInOrder, MayBeActive, DependenciesOf
  <1>. QED
    BY <1>1, <1>2, <1>3 DEF DurableInv

\* The supervisor compiles the file.
LEMMA DurableCompiled ==
  ASSUME DurableInv, graph' = file,
         UNCHANGED <<file, late, run, mat, rows, att, tx, licensed, edits>>
  PROVE  DurableInv'
  <1>1. NothingBeforeRows' /\ PendingIsCommittable' /\ CommittedAgrees'
    BY DEF DurableInv, NothingBeforeRows, PendingIsCommittable, PendingTasks,
           Pending, CommittedAgrees
  <1>2. LicenceInv' /\ LateInv'
    BY DEF DurableInv, LicenceInv, MayComplete, LateInv, OneStep
  <1>3. edits' = 0 => FileAhead' /\ StartedInOrder'
    BY DEF DurableInv, FileAhead, StartedInOrder, MayBeActive, DependenciesOf
  <1>. QED
    BY <1>1, <1>2, <1>3 DEF DurableInv

\* The row and the attempt of one task change, while no completion is pending
\* and the task is not completed.
LEMMA DurableTaskMoves ==
  ASSUME DurableInv, NEW s \in Tasks, mat, PendingTasks = {},
         rows[s].st # "completed", rows'[s].st # "completed",
         \A t \in Tasks \ {s} : rows'[t] = rows[t] /\ att'[t] = att[t],
         licensed \subseteq licensed',
         att'[s].dec = "passed" => s \in licensed',
         edits = 0 => \A d \in DependenciesOf(s) : rows[d].st = "completed",
         graph' = graph \/ graph' = file, LateKept,
         UNCHANGED <<file, run, mat, tx, edits>>
  PROVE  DurableInv'
  <1>1. NothingBeforeRows' /\ PendingIsCommittable'
    BY DEF DurableInv, NothingBeforeRows, PendingIsCommittable, PendingTasks,
           Pending
  <1>2. CommittedAgrees'
    <2>1. ASSUME tx[s].st = "committed" PROVE FALSE
      <3>1. rows[s] = [st |-> "completed", h |-> tx[s].after, at |-> FALSE]
        BY <2>1 DEF DurableInv, CommittedAgrees
      <3>. QED
        BY <3>1
    <2>. QED
      BY SMTT(30), <2>1 DEF DurableInv, CommittedAgrees
  <1>3. LicenceInv' /\ LateInv'
    BY DEF DurableInv, LicenceInv, MayComplete, LateInv, OneStep
  <1>4. edits' = 0 => FileAhead' /\ StartedInOrder'
    <2>. SUFFICES ASSUME edits = 0 PROVE FileAhead' /\ StartedInOrder'
      OBVIOUS
    <2>1. FileAhead'
      BY DEF DurableInv, FileAhead
    <2>2. ASSUME NEW t \in Tasks, MayBeActive(t)',
                 NEW d \in DependenciesOf(t)
          PROVE  file'.m[d] = "completed"
      BY <2>2 DEF DurableInv, StartedInOrder, MayBeActive
    <2>3. ASSUME NEW t \in Tasks, rows'[t].st \notin {"pending", "completed"},
                 NEW d \in DependenciesOf(t)
          PROVE  rows'[d].st = "completed"
      BY <2>3 DEF DurableInv, StartedInOrder, DependenciesOf
    <2>. QED
      BY <2>1, <2>2, <2>3 DEF StartedInOrder, DependenciesOf
  <1>. QED
    BY <1>1, <1>2, <1>3, <1>4 DEF DurableInv

\* Ralph writes the file; unless the user has edited it, no [x] is lost.
LEMMA DurableFileMoves ==
  ASSUME DurableInv, LateKept,
         edits = 0 => \A t \in Tasks :
            file.m[t] = "completed" => file'.m[t] = "completed",
         \A t \in Tasks : file'.m[t] = "completed" => t \in licensed,
         edits = 0 => \A t \in Tasks : file'.m[t] = "active" =>
            \A d \in DependenciesOf(t) : file.m[d] = "completed",
         UNCHANGED <<run, mat, rows, att, tx, graph, licensed, edits>>
  PROVE  DurableInv'
  <1>1. NothingBeforeRows' /\ PendingIsCommittable' /\ CommittedAgrees'
    BY DEF DurableInv, NothingBeforeRows, PendingIsCommittable, PendingTasks,
           Pending, CommittedAgrees
  <1>2. LicenceInv' /\ LateInv'
    BY DEF DurableInv, LicenceInv, MayComplete, LateInv, OneStep
  <1>3. edits' = 0 => FileAhead' /\ StartedInOrder'
    BY DEF DurableInv, FileAhead, StartedInOrder, MayBeActive, DependenciesOf
  <1>. QED
    BY <1>1, <1>2, <1>3 DEF DurableInv

\* A completion that is pending is committed.
LEMMA DurableCommits ==
  ASSUME TypeOK, DurableInv, NEW s \in PendingTasks, NEW h \in Content,
         Commit(s, h), h.m[s] = "completed",
         edits = 0 => file.m[s] = "completed",
         graph' = graph \/ graph' = file,
         UNCHANGED <<file, late, run, mat, licensed, edits>>
  PROVE  DurableInv'
  <1>1. s \in Tasks /\ mat /\ att[s].dec = "passed" /\ s \in licensed
    BY DEF DurableInv, PendingIsCommittable, PendingTasks, LicenceInv,
           MayComplete
  <1>2. /\ rows'[s] = [st |-> "completed", h |-> h, at |-> FALSE]
        /\ rows'[s].st = "completed"
        /\ \A t \in Tasks \ {s} : rows'[t] = rows[t]
    BY <1>1 DEF Commit, TypeOK
  <1>3. /\ tx'[s].st = "committed" /\ tx'[s].after = h
        /\ \A t \in Tasks \ {s} : tx'[t] = tx[t]
    BY <1>1 DEF Commit, CommitsCleanly, TypeOK
  <1>4. /\ att'[s] = [st |-> "passed", dec |-> "passed"]
        /\ \A t \in Tasks \ {s} : att'[t] = att[t]
    BY SMTT(30), <1>1 DEF Commit, TypeOK
  <1>5. NothingBeforeRows' /\ PendingIsCommittable'
    BY SMTT(30), <1>1, <1>2, <1>3, <1>4 DEF DurableInv, NothingBeforeRows,
       PendingIsCommittable, PendingTasks, Pending
  <1>6. CommittedAgrees'
    <2>1. ASSUME NEW t \in Tasks, t # s, tx'[t].st = "committed"
          PROVE  /\ rows'[t] = [st |-> "completed", h |-> tx'[t].after,
                                at |-> FALSE]
                 /\ att'[t] = [st |-> "passed", dec |-> "passed"]
                 /\ tx'[t].after.m[t] = "completed"
      <3>1. rows'[t] = rows[t] /\ tx'[t] = tx[t] /\ att'[t] = att[t]
        BY <1>2, <1>3, <1>4, <2>1
      <3>. QED
        BY <2>1, <3>1 DEF DurableInv, CommittedAgrees
    <2>. QED
      BY <1>2, <1>3, <1>4, <2>1 DEF CommittedAgrees
  <1>7. LicenceInv' /\ LateInv'
    BY <1>1, <1>2, <1>4 DEF DurableInv, LicenceInv, MayComplete, LateInv,
       OneStep
  <1>8. edits' = 0 => FileAhead' /\ StartedInOrder'
    <2>. SUFFICES ASSUME edits = 0 PROVE FileAhead' /\ StartedInOrder'
      OBVIOUS
    <2>1. FileAhead'
      BY <1>1, <1>2 DEF DurableInv, FileAhead
    <2>2. ASSUME NEW t \in Tasks, MayBeActive(t)',
                 NEW d \in DependenciesOf(t)
          PROVE  file'.m[d] = "completed"
      BY <2>2 DEF DurableInv, StartedInOrder, MayBeActive
    <2>3. ASSUME NEW t \in Tasks, rows'[t].st \notin {"pending", "completed"},
                 NEW d \in DependenciesOf(t)
          PROVE  rows'[d].st = "completed"
      <3>1. rows'[t] = rows[t] /\ d \in Tasks
        BY <1>2, <2>3 DEF DependenciesOf
      <3>2. rows[d].st = "completed"
        BY <2>3, <3>1 DEF DurableInv, StartedInOrder
      <3>. QED
        BY <1>2, <3>1, <3>2
    <2>. QED
      BY <2>1, <2>2, <2>3 DEF StartedInOrder, DependenciesOf
  <1>. QED
    BY <1>5, <1>6, <1>7, <1>8 DEF DurableInv

\* A completion is prepared, or its marker recorded as written.
LEMMA DurableTxMoves ==
  ASSUME DurableInv, NEW s \in Tasks, \A t \in Tasks \ {s} : tx'[t] = tx[t],
         tx'[s].st \in {"prepared", "marker_written"},
         mat, rows[s].st # "completed", rows[s].h = tx'[s].before,
         att[s].dec = "passed", att[s].st \in {"active", "interrupted"},
         graph' = graph \/ graph' = file,
         UNCHANGED <<file, late, run, mat, rows, att, licensed, edits>>
  PROVE  DurableInv'
  <1>1. NothingBeforeRows' /\ CommittedAgrees'
    BY DEF DurableInv, NothingBeforeRows, CommittedAgrees
  <1>2. PendingIsCommittable'
    BY DEF DurableInv, PendingIsCommittable, PendingTasks, Pending
  <1>3. LicenceInv' /\ LateInv'
    BY DEF DurableInv, LicenceInv, MayComplete, LateInv, OneStep
  <1>4. edits' = 0 => FileAhead' /\ StartedInOrder'
    BY DEF DurableInv, FileAhead, StartedInOrder, MayBeActive, DependenciesOf
  <1>. QED
    BY <1>1, <1>2, <1>3, <1>4 DEF DurableInv

-----------------------------------------------------------------------------
(* Rows, attempts and transactions as the actions write them. *)

\* A task gets a status, and its attempt is active or not.
LEMMA RowStatusHeld ==
  ASSUME rows \in [Tasks -> TypeRow], NEW t \in Tasks, NEW s \in TaskStatus,
         NEW b \in BOOLEAN, SetRow(t, s, b)
  PROVE  /\ rows' \in [Tasks -> TypeRow]
         /\ rows'[t].st = s /\ rows'[t].h = rows[t].h
         /\ \A x \in Tasks \ {t} : rows'[x] = rows[x]
  <1>1. PICK r : r = [rows[t] EXCEPT !.st = s, !.at = b]
    OBVIOUS
  <1>2. r \in TypeRow /\ r.st = s /\ r.h = rows[t].h
    BY ZenonT(30), <1>1 DEF TypeRow
  <1>3. rows' = [rows EXCEPT ![t] = r]
    BY <1>1 DEF SetRow
  <1>. QED
    BY <1>2, <1>3

\* A task gets a status.
LEMMA RowStatus ==
  ASSUME rows \in [Tasks -> TypeRow], NEW t \in Tasks, NEW s \in TaskStatus,
         rows' = [rows EXCEPT ![t].st = s]
  PROVE  /\ rows' \in [Tasks -> TypeRow]
         /\ rows'[t].st = s /\ rows'[t].h = rows[t].h
         /\ \A x \in Tasks \ {t} : rows'[x] = rows[x]
  BY DEF TypeRow

\* A task gets a status and a marker hash.
LEMMA RowStatusHash ==
  ASSUME rows \in [Tasks -> TypeRow], NEW t \in Tasks, NEW s \in TaskStatus,
         NEW c \in Content, rows' = [rows EXCEPT ![t].st = s, ![t].h = c]
  PROVE  /\ rows' \in [Tasks -> TypeRow]
         /\ rows'[t].st = s /\ rows'[t].h = c
         /\ \A x \in Tasks \ {t} : rows'[x] = rows[x]
  BY ZenonT(30) DEF TypeRow

\* A task gets an active attempt.
LEMMA RowHeld ==
  ASSUME rows \in [Tasks -> TypeRow], NEW t \in Tasks,
         rows' = [rows EXCEPT ![t].at = TRUE]
  PROVE  /\ rows' \in [Tasks -> TypeRow]
         /\ rows'[t].st = rows[t].st /\ rows'[t].h = rows[t].h
         /\ \A x \in Tasks \ {t} : rows'[x] = rows[x]
  BY ZenonT(30) DEF TypeRow

\* An attempt gets a status.
LEMMA AttemptStatusSet ==
  ASSUME att \in [Tasks -> Att], NEW t \in Tasks, NEW s \in AttemptStatus,
         att' = [att EXCEPT ![t].st = s]
  PROVE  /\ att' \in [Tasks -> Att]
         /\ att'[t].st = s /\ att'[t].dec = att[t].dec
         /\ \A x \in Tasks \ {t} : att'[x] = att[x]
  BY DEF Att

\* An attempt gets a decision.
LEMMA AttemptDecided ==
  ASSUME att \in [Tasks -> Att], NEW t \in Tasks, NEW d \in Decisions,
         att' = [att EXCEPT ![t].dec = d]
  PROVE  /\ att' \in [Tasks -> Att]
         /\ att'[t].st = att[t].st /\ att'[t].dec = d
         /\ \A x \in Tasks \ {t} : att'[x] = att[x]
  BY DEF Att

\* A transaction advances.
LEMMA TxAdvances ==
  ASSUME NEW r \in Tx, NEW q, NEW c \in Content,
         \/ q = [r EXCEPT !.st = "marker_written", !.after = c]
         \/ q = [r EXCEPT !.st = "committed"]
  PROVE  q \in Tx /\ q.before = r.before
  <1>1. CASE q = [r EXCEPT !.st = "marker_written", !.after = c]
    BY <1>1 DEF Tx
  <1>2. CASE q = [r EXCEPT !.st = "committed"]
    BY <1>2 DEF Tx
  <1>. QED
    BY <1>1, <1>2

\* A transaction has its marker written.
LEMMA TxWritten ==
  ASSUME tx \in [Tasks -> Tx], NEW t \in Tasks, NEW c \in Content,
         tx' = [tx EXCEPT ![t].st = "marker_written", ![t].after = c]
  PROVE  /\ tx' \in [Tasks -> Tx]
         /\ tx'[t].st = "marker_written" /\ tx'[t].before = tx[t].before
         /\ \A x \in Tasks \ {t} : tx'[x] = tx[x]
  <1>1. PICK q : q = [tx[t] EXCEPT !.st = "marker_written", !.after = c]
    OBVIOUS
  <1>2. q \in Tx /\ q.before = tx[t].before
    BY <1>1, TxAdvances
  <1>3. q.st = "marker_written"
    BY <1>1 DEF Tx
  <1>4. tx' = [tx EXCEPT ![t] = q]
    BY <1>1
  <1>5. tx'[t] = q /\ \A x \in Tasks \ {t} : tx'[x] = tx[x]
    BY <1>4
  <1>6. tx' \in [Tasks -> Tx]
    <2>. HIDE DEF Tx
    <2>. QED
      BY <1>2, <1>4
  <1>. QED
    BY <1>2, <1>3, <1>5, <1>6

\* A completed task is committed.
LEMMA CommitTypes ==
  ASSUME TypeOK, NEW t \in Tasks, NEW h \in Content, Commit(t, h)
  PROVE  /\ rows' \in [Tasks -> TypeRow] /\ att' \in [Tasks -> Att]
         /\ tx' \in [Tasks -> Tx] /\ tx'[t].st = "committed"
         /\ rows'[t].st = "completed"
         /\ \A x \in Tasks \ {t} : tx'[x] = tx[x] /\ rows'[x] = rows[x]
  <1>1. rows \in [Tasks -> TypeRow] /\ att \in [Tasks -> Att]
        /\ tx \in [Tasks -> Tx]
    BY DEF TypeOK, Att, Tx
  <1>2. /\ rows' \in [Tasks -> TypeRow] /\ rows'[t].st = "completed"
        /\ \A x \in Tasks \ {t} : rows'[x] = rows[x]
    <2>1. [st |-> "completed", h |-> h, at |-> FALSE] \in TypeRow
      BY DEF TypeRow, TaskStatus
    <2>. QED
      BY <1>1, <2>1 DEF Commit
  <1>3. att' \in [Tasks -> Att]
    BY <1>1, AttemptStatusSet DEF Commit, AttemptStatus
  <1>4. /\ tx' \in [Tasks -> Tx] /\ tx'[t].st = "committed"
        /\ \A x \in Tasks \ {t} : tx'[x] = tx[x]
    <2>1. PICK q : q = [tx[t] EXCEPT !.st = "committed"]
      OBVIOUS
    <2>2. q \in Tx
      BY <1>1, <2>1, TxAdvances
    <2>3. q.st = "committed"
      BY <1>1, <2>1 DEF Tx
    <2>4. tx' = [tx EXCEPT ![t] = q]
      BY <2>1 DEF Commit
    <2>. QED
      BY <1>1, <2>2, <2>3, <2>4
  <1>. QED
    BY <1>2, <1>3, <1>4

\* What is known at every position of a task that is not completing.
LEMMA InQuietTask ==
  ASSUME Inv, pc \in InTask \ (Completing \cup {"recompile"}),
         mat \/ pc \notin {"fence", "eligible"}
  PROVE  /\ sel \in Tasks /\ mat /\ PendingTasks = {}
         /\ rows[sel].st # "completed"
         /\ edits = 0 => \A d \in DependenciesOf(sel) : rows[d].st = "completed"
  BY DEF Inv, PlaceInv, SelectedInv, PendingInv, SelectedInOrder, InTask,
         Completing

-----------------------------------------------------------------------------
(* The actions. *)

\* Nothing has happened yet.
LEMMA InitInv == Init => Inv
  <1>. SUFFICES ASSUME Init PROVE Inv
    OBVIOUS
  <1>1. file \in Content
    BY DEF Init, Content, Markers
  <1>2. /\ rows = [t \in Tasks |-> InitialRow(file, t)]
        /\ \A t \in Tasks : InitialRow(file, t) \in TypeRow
        /\ \A t \in Tasks : rows[t].st = file.m[t]
        /\ \A t \in Tasks : file.m[t] \in {"pending", "completed"}
    BY <1>1 DEF Init, InitialRow, TypeRow, TaskStatus, Content, Markers
  <1>3. /\ \A t \in Tasks : tx[t].st = "none"
        /\ \A t \in Tasks : att[t].st = "none" /\ att[t].dec = "none"
        /\ tx \in [Tasks -> Tx] /\ att \in [Tasks -> Att]
        /\ rev \in [Tasks -> Rev]
    BY DEF Init, NoTx, NoAttempt, NoRevision, Tx, Att, Rev, AttemptStatus,
           Decisions
  <1>4. TypeOK
    <2>1. rows \in [Tasks -> TypeRow]
      BY <1>2
    <2>2. 0 \in 0..MaxFaults /\ 0 \in 0..MaxEdits
      OBVIOUS
    <2>3. licensed \subseteq Tasks /\ run \in RunStatus /\ pc \in Positions
      BY DEF Init, RunStatus, Positions
    <2>. QED
      BY <1>1, <1>3, <2>1, <2>2, <2>3 DEF Init, TypeOK, Tx, Att, Rev
  <1>5. NothingBeforeRows /\ PendingIsCommittable /\ CommittedAgrees
    BY <1>3 DEF NothingBeforeRows, PendingIsCommittable, PendingTasks, Pending,
                CommittedAgrees
  <1>6. LicenceInv /\ LateInv
    BY <1>2, <1>3 DEF Init, LicenceInv, MayComplete, LateInv
  <1>7. FileAhead /\ StartedInOrder
    BY <1>2 DEF Init, FileAhead, StartedInOrder, MayBeActive
  <1>8. PlaceInv /\ WriteInv
    BY DEF Init, PlaceInv, SelectedInv, AttemptInv, PendingInv,
           SelectedInOrder, InTask, Completing, WriteInv, Renaming, LateHolds
  <1>. QED
    BY <1>4, <1>5, <1>6, <1>7, <1>8 DEF Inv, DurableInv

\* An activation that loses its lease is still the same write, or gone.
LEMMA LateUnleasedKept ==
  ASSUME Inv, late' = late \/ late' = LateUnleased
  PROVE  late' \in {NoWrite} \cup Late /\ LateKept
  <1>1. late \in {NoWrite} \cup Late
    BY DEF Inv, TypeOK, Late
  <1>2. CASE late' = [late EXCEPT !.task = NoTask] /\ late # NoWrite
    <2>1. PICK w : w = [late EXCEPT !.task = NoTask]
      OBVIOUS
    <2>2. w \in Late /\ w.from = late.from /\ w.to = late.to
      BY <1>1, <1>2, <2>1 DEF Late
    <2>. QED
      BY <1>2, <2>1, <2>2
  <1>3. CASE late' = NoWrite
    BY <1>3
  <1>4. CASE late' = late
    BY <1>1, <1>4
  <1>. QED
    BY <1>2, <1>3, <1>4 DEF LateUnleased

\* However a supervisor ends, it leaves the ledger and the file as they are.
LEMMA DownStep ==
  ASSUME Inv, Down, run' \in RunStatus, faults' \in 0..MaxFaults,
         run' = run \/ run' # "completed" \/ (mat => Tasks \subseteq licensed),
         late' = late \/ late' = LateUnleased,
         UNCHANGED <<mat, rows, att, rev, tx, file, edited, licensed, edits>>
  PROVE  Rest'
  <1>1. late' \in {NoWrite} \cup Late /\ LateKept
    BY LateUnleasedKept
  <1>2. TypeOK'
    BY <1>1 DEF Inv, TypeOK, Down, Positions, Late
  <1>3. DurableInv'
    BY <1>1, DurableSame DEF Inv, Down
  <1>4. PlaceInv'
    BY DEF Down, PlaceInv, SelectedInv, AttemptInv, PendingInv,
           SelectedInOrder, InTask, Completing
  <1>. QED
    BY <1>2, <1>3, <1>4

\* The catch block of executeRun.
LEMMA ThrowStep == ASSUME Inv, Throw PROVE Rest'
  <1>1. CatchStatus(run) \in RunStatus /\ faults \in 0..MaxFaults
        /\ (CatchStatus(run) = run \/ CatchStatus(run) # "completed")
    BY DEF Inv, TypeOK, CatchStatus, RunStatus
  <1>. QED
    BY <1>1, DownStep DEF Throw

\* A run is settled as completed only when every row is.
LEMMA SettleStep == ASSUME Inv, Settle PROVE Rest'
  <1>1. SettledStatus \in RunStatus
    BY DEF SettledStatus, RunStatus
  <1>2. SettledStatus = "completed" => (mat => Tasks \subseteq licensed)
    <2>1. \A t \in Tasks : rows[t].st = "completed" => t \in licensed
      BY DEF Inv, DurableInv, LicenceInv, MayComplete
    <2>. QED
      BY <2>1 DEF SettledStatus, Remaining, Completed
  <1>3. faults' \in 0..MaxFaults
    BY DEF Settle, Inv, TypeOK
  <1>. QED
    BY <1>1, <1>2, <1>3, DownStep DEF Settle

\* Errors, crashes, the end of an abandoned task and of `ralph stop'.
LEMMA FaultStep ==
  ASSUME Inv, \/ OperationalError \/ EvidenceIntegrityError \/ Crash
              \/ AbandonRun \/ CancelDormant
  PROVE  Rest'
  <1>1. faults' \in 0..MaxFaults
    BY DEF Inv, TypeOK, OperationalError, EvidenceIntegrityError, Crash,
           AbandonRun, CancelDormant
  <1>2. run' \in RunStatus /\ (run' = run \/ run' # "completed")
    BY DEF Inv, TypeOK, OperationalError, EvidenceIntegrityError, Crash,
           AbandonRun, CancelDormant, CatchStatus, RunStatus
  <1>3. late' = late \/ late' = LateUnleased
    BY DEF OperationalError, EvidenceIntegrityError, Crash, AbandonRun,
           CancelDormant
  <1>. QED
    BY <1>1, <1>2, <1>3, DownStep DEF OperationalError, EvidenceIntegrityError,
       Crash, AbandonRun, CancelDormant

\* A resumed run begins with the file and whatever is pending.
LEMMA OpenResumedStep == ASSUME Inv, OpenResumed PROVE Rest'
  <1>1. TypeOK'
    BY DEF Inv, TypeOK, OpenResumed, Positions, Preparing
  <1>2. DurableInv'
    BY DurableCompiled DEF Inv, OpenResumed
  <1>3. PlaceInv'
    BY DEF OpenResumed, PlaceInv, SelectedInv, AttemptInv, PendingInv,
           SelectedInOrder, InTask, Completing
  <1>. QED
    BY <1>1, <1>2, <1>3 DEF Inv

\* A new run takes its rows from the file.
LEMMA OpenNewStep == ASSUME Inv, OpenNew PROVE Rest'
  <1>1. file \in Content /\ graph' = file /\ file' = file
    BY DEF Inv, TypeOK, OpenNew
  <1>2. /\ \A t \in Tasks : InitialRow(file, t) \in TypeRow
        /\ \A t \in Tasks : rows'[t].st = file.m[t]
    BY <1>1 DEF OpenNew, InitialRow, TypeRow, TaskStatus, Content, Markers
  <1>3. /\ \A t \in Tasks : tx'[t].st = "none"
        /\ \A t \in Tasks : att'[t].st = "none" /\ att'[t].dec = "none"
        /\ tx' \in [Tasks -> Tx] /\ att' \in [Tasks -> Att]
        /\ rev' \in [Tasks -> Rev]
    BY DEF OpenNew, NoTx, NoAttempt, NoRevision, Tx, Att, Rev, AttemptStatus,
           Decisions
  <1>4. TypeOK'
    <2>1. rows' \in [Tasks -> TypeRow]
      BY <1>2 DEF OpenNew
    <2>2. run' \in RunStatus /\ mat' \in BOOLEAN /\ pc' \in Positions
      BY DEF OpenNew, RunStatus, Positions, Preparing
    <2>3. /\ file' \in Content /\ graph' \in Content
          /\ late' \in {NoWrite} \cup Late /\ edited' \in BOOLEAN
      BY <1>1 DEF Inv, TypeOK, OpenNew, Late
    <2>4. /\ sel' \in Tasks \cup {NoTask} /\ deferred' \subseteq Tasks
          /\ licensed' \subseteq Tasks /\ result' \in {"none", "failed", "blocked"}
          /\ faults' \in 0..MaxFaults /\ edits' \in 0..MaxEdits
      BY DEF Inv, TypeOK, OpenNew
    <2>. QED
      BY <1>3, <2>1, <2>2, <2>3, <2>4 DEF TypeOK, Tx, Att, Rev, Late
  <1>5. NothingBeforeRows' /\ PendingIsCommittable' /\ CommittedAgrees'
    BY <1>3 DEF NothingBeforeRows, PendingIsCommittable, PendingTasks, Pending,
                CommittedAgrees
  <1>6. LicenceInv' /\ LateInv'
    BY <1>1, <1>2, <1>3 DEF Inv, DurableInv, OpenNew, LicenceInv, MayComplete,
                            LateInv, OneStep
  <1>7. edits' = 0 => FileAhead' /\ StartedInOrder'
    <2>. SUFFICES ASSUME edits = 0 PROVE FileAhead' /\ StartedInOrder'
      BY DEF OpenNew
    <2>1. FileAhead'
      BY <1>1, <1>2 DEF FileAhead
    <2>2. ASSUME NEW t \in Tasks, MayBeActive(t)' PROVE MayBeActive(t)
      BY <1>1, <2>2 DEF MayBeActive, OpenNew
    <2>3. \A t \in Tasks : file.m[t] \in {"pending", "active", "completed"}
      BY <1>1 DEF Content, Markers
    <2>4. ASSUME NEW t \in Tasks, rows'[t].st \notin {"pending", "completed"},
                 NEW d \in DependenciesOf(t)
          PROVE  rows'[d].st = "completed"
      <3>1. MayBeActive(t) /\ d \in Tasks
        BY <1>2, <2>3, <2>4 DEF MayBeActive, DependenciesOf
      <3>. QED
        BY <1>2, <2>4, <3>1 DEF Inv, DurableInv, StartedInOrder
    <2>. QED
      BY <1>1, <2>1, <2>2, <2>4 DEF Inv, DurableInv, StartedInOrder,
                                    DependenciesOf
  <1>8. PlaceInv'
    BY DEF OpenNew, PlaceInv, SelectedInv, AttemptInv, PendingInv,
           SelectedInOrder, InTask, Completing
  <1>. QED
    BY <1>4, <1>5, <1>6, <1>7, <1>8 DEF Inv, DurableInv

\* The rows are materialised.
LEMMA MaterializeStep == ASSUME Inv, Materialize PROVE Rest'
  <1>1. TypeOK'
    BY DEF Inv, TypeOK, Materialize, Positions, Preparing
  <1>2. run # "completed"
    BY DEF Inv, PlaceInv, SelectedInv, Materialize
  <1>3. NothingBeforeRows' /\ PendingIsCommittable' /\ CommittedAgrees'
    BY DEF Inv, DurableInv, Materialize, NothingBeforeRows,
           PendingIsCommittable, PendingTasks, Pending, CommittedAgrees
  <1>4. LicenceInv' /\ LateInv'
    BY <1>2 DEF Inv, DurableInv, Materialize, LicenceInv, MayComplete, LateInv,
                OneStep
  <1>5. edits' = 0 => FileAhead' /\ StartedInOrder'
    BY DEF Inv, DurableInv, Materialize, FileAhead, StartedInOrder,
           MayBeActive, DependenciesOf
  <1>6. PlaceInv'
    BY DEF Materialize, PlaceInv, SelectedInv, AttemptInv, PendingInv,
           SelectedInOrder, InTask, Completing
  <1>. QED
    BY <1>1, <1>3, <1>4, <1>5, <1>6 DEF Inv, DurableInv

\* The recovery goes on, and reaches the selection with nothing pending.
LEMMA RecoveryStep ==
  ASSUME Inv, \/ ReconcileNothing \/ CheckParity \/ ReconcileStop \/ StartRun
              \/ \E t \in Tasks : ReconcileWritten(t)
  PROVE  Rest'
  <1>1. CASE ReconcileNothing
    <2>1. TypeOK'
      BY SMTT(30), <1>1 DEF Inv, TypeOK, ReconcileNothing, Positions, Preparing, InRun,
         RunStatus
    <2>2. DurableInv'
      BY <1>1, DurableSame DEF Inv, ReconcileNothing
    <2>3. PlaceInv'
      BY <1>1 DEF Inv, ReconcileNothing, PlaceInv, SelectedInv, AttemptInv, PendingInv,
         SelectedInOrder, InTask, Completing, PendingTasks, Pending
    <2>. QED
      BY <2>1, <2>2, <2>3 DEF Inv
  <1>2. CASE CheckParity
    <2>1. TypeOK'
      BY SMTT(30), <1>2 DEF Inv, TypeOK, CheckParity, Positions, Preparing, InRun,
         RunStatus
    <2>2. DurableInv'
      BY <1>2, DurableSame DEF Inv, CheckParity
    <2>3. PlaceInv'
      BY <1>2 DEF Inv, CheckParity, PlaceInv, SelectedInv, AttemptInv, PendingInv,
         SelectedInOrder, InTask, Completing, PendingTasks, Pending
    <2>. QED
      BY <2>1, <2>2, <2>3 DEF Inv
  <1>3. CASE ReconcileStop
    <2>1. TypeOK'
      BY <1>3 DEF Inv, TypeOK, ReconcileStop, Positions, Preparing, InRun,
         RunStatus
    <2>2. DurableInv'
      BY <1>3, DurableSame DEF Inv, ReconcileStop
    <2>3. PlaceInv'
      BY <1>3 DEF Inv, ReconcileStop, PlaceInv, SelectedInv, AttemptInv, PendingInv,
         SelectedInOrder, InTask, Completing, PendingTasks, Pending
    <2>. QED
      BY <2>1, <2>2, <2>3 DEF Inv
  <1>4. CASE StartRun
    <2>1. TypeOK'
      BY <1>4 DEF Inv, TypeOK, StartRun, Positions, Preparing, InRun,
         RunStatus
    <2>2. DurableInv'
      BY <1>4, DurableSame DEF Inv, StartRun
    <2>3. PlaceInv'
      BY <1>4 DEF Inv, StartRun, PlaceInv, SelectedInv, AttemptInv, PendingInv,
         SelectedInOrder, InTask, Completing, PendingTasks, Pending
    <2>. QED
      BY <2>1, <2>2, <2>3 DEF Inv
  <1>5. ASSUME NEW t \in Tasks, ReconcileWritten(t) PROVE Rest'
    <2>1. TypeOK'
      BY <1>5 DEF Inv, TypeOK, ReconcileWritten, Positions, Preparing, InRun
    <2>2. DurableInv'
      BY <1>5, DurableSame DEF Inv, ReconcileWritten
    <2>3. PlaceInv'
      BY <1>5 DEF Inv, ReconcileWritten, PlaceInv, SelectedInv, AttemptInv, PendingInv,
         SelectedInOrder, InTask, Completing, PendingTasks, Pending
    <2>. QED
      BY <2>1, <2>2, <2>3 DEF Inv
  <1>. QED
    BY <1>1, <1>2, <1>3, <1>4, <1>5

\* A task is selected: it is not completed, and its dependencies are.
LEMMA SelectStep == ASSUME Inv, Select PROVE Rest'
  <1>1. SelectTask \in Tasks /\ sel' = SelectTask /\ pc' = "fence"
    BY SelectedTask DEF Select
  <1>2. TypeOK'
    BY <1>1 DEF Inv, TypeOK, Select, Positions, InRun, InTask
  <1>3. DurableInv'
    BY DurableSame DEF Inv, Select
  <1>4. mat => rows[sel'].st # "completed"
    BY <1>1, SelectedTask DEF Select, EffectiveStatus, Completed
  <1>5. edits = 0 /\ mat => \A d \in DependenciesOf(sel') : rows[d].st = "completed"
    <2>. SUFFICES ASSUME edits = 0, mat, NEW d \in DependenciesOf(sel')
                  PROVE  rows[d].st = "completed"
      OBVIOUS
    <2>1. CASE rows[sel'].st \in {"active", "verifying", "evaluating",
                                  "interrupted", "retryable_failed"}
      BY <1>1, <2>1 DEF Inv, DurableInv, StartedInOrder
    <2>2. CASE DependenciesPassed(sel')
      BY <2>2 DEF DependenciesPassed, EffectiveStatus, Completed,
                  DependenciesOf
    <2>. QED
      BY <1>1, <2>1, <2>2, SelectedTask DEF Select, EffectiveStatus
  <1>6. PlaceInv'
    BY <1>1, <1>4, <1>5 DEF Inv, Select, PlaceInv, SelectedInv, AttemptInv,
       PendingInv, SelectedInOrder, InTask, Completing, PendingTasks, Pending,
       DependenciesOf
  <1>. QED
    BY <1>2, <1>3, <1>6 DEF Inv

-----------------------------------------------------------------------------
(* executeTask up to the attempt. *)

\* An attempt that was left active is interrupted.
LEMMA InterruptAttemptsStep == ASSUME Inv, InterruptAttempts PROVE Rest'
  <1>1. mat /\ pc = "fence"
    BY DEF Inv, DurableInv, NothingBeforeRows, PlaceInv, SelectedInv, InTask,
           InterruptAttempts
  <1>2. /\ sel \in Tasks /\ PendingTasks = {} /\ rows[sel].st # "completed"
        /\ edits = 0 => \A d \in DependenciesOf(sel) : rows[d].st = "completed"
    BY <1>1, InQuietTask DEF InTask, Completing
  <1>3. /\ att' \in [Tasks -> Att]
        /\ att'[sel].st = "interrupted" /\ att'[sel].dec = att[sel].dec
        /\ \A x \in Tasks \ {sel} : att'[x] = att[x]
    BY <1>2, AttemptStatusSet DEF InterruptAttempts, AttemptStatus, Inv,
       TypeOK, Att
  <1>4. TypeOK'
    BY <1>3 DEF Inv, TypeOK, Att, InterruptAttempts, Positions, InRun, InTask
  <1>5. DurableInv'
    <2>1. att[sel].dec = "passed" => sel \in licensed
      BY <1>2 DEF Inv, DurableInv, LicenceInv, MayComplete
    <2>. QED
      BY <1>1, <1>2, <1>3, <2>1, DurableTaskMoves DEF Inv, InterruptAttempts
  <1>6. PlaceInv'
    BY <1>1, <1>2, <1>3 DEF Inv, InterruptAttempts, PlaceInv, SelectedInv,
       AttemptInv, PendingInv, SelectedInOrder, InTask, Completing,
       PendingTasks, Pending, DependenciesOf
  <1>. QED
    BY <1>4, <1>5, <1>6 DEF Inv

\* Nothing was left active, or the marker is there already.
LEMMA GoesOnStep ==
  ASSUME Inv, NoActiveAttempt \/ KeepActiveMarker \/ BudgetExhausted
  PROVE  Rest'
  <1>1. TypeOK'
    BY ZenonT(30) DEF Inv, TypeOK, NoActiveAttempt, KeepActiveMarker, BudgetExhausted,
           Positions, InRun, InTask
  <1>2. DurableInv'
    BY DurableSame DEF Inv, NoActiveAttempt, KeepActiveMarker, BudgetExhausted
  <1>3. PlaceInv'
    BY DEF Inv, NoActiveAttempt, KeepActiveMarker, BudgetExhausted, PlaceInv,
           SelectedInv, AttemptInv, PendingInv, SelectedInOrder, InTask,
           Completing, PendingTasks, Pending, DependenciesOf
  <1>. QED
    BY <1>1, <1>2, <1>3 DEF Inv

\* The row of a selected task gets a status that is not completed, and keeps
\* its hash.
LEMMA RowMoves ==
  ASSUME Inv, pc \in InTask \ (Completing \cup {"recompile"}),
         mat \/ pc \notin {"fence", "eligible"},
         NEW s \in TaskStatus \ {"completed"}, NEW b \in BOOLEAN,
         SetRow(sel, s, b) \/ rows' = [rows EXCEPT ![sel].st = s]
                           \/ UNCHANGED rows,
         UNCHANGED <<run, mat, att, rev, tx, disk, graph, licensed, bounds>>
  PROVE  /\ rows' \in [Tasks -> TypeRow] /\ DurableInv'
         /\ PendingTasks = {} /\ PendingTasks' = {} /\ sel \in Tasks /\ mat
         /\ rows'[sel].st # "completed" /\ rows'[sel].h = rows[sel].h
         /\ edits = 0 => \A d \in DependenciesOf(sel) : rows'[d].st = "completed"
  <1>1. /\ sel \in Tasks /\ mat /\ PendingTasks = {} /\ rows[sel].st # "completed"
        /\ edits = 0 => \A d \in DependenciesOf(sel) : rows[d].st = "completed"
    BY InQuietTask
  <1>2. /\ rows' \in [Tasks -> TypeRow]
        /\ rows'[sel].st # "completed" /\ rows'[sel].h = rows[sel].h
        /\ \A x \in Tasks \ {sel} : rows'[x] = rows[x]
    <2>1. rows \in [Tasks -> TypeRow]
      BY DEF Inv, TypeOK
    <2>2. CASE SetRow(sel, s, b)
      BY <1>1, <2>1, <2>2, RowStatusHeld
    <2>3. CASE rows' = [rows EXCEPT ![sel].st = s]
      BY ZenonT(30), <1>1, <2>1, <2>3, RowStatus
    <2>4. CASE UNCHANGED rows
      BY <1>1, <2>1, <2>4
    <2>. QED
      BY <2>2, <2>3, <2>4
  <1>3. DurableInv'
    <2>1. att[sel].dec = "passed" => sel \in licensed
      BY <1>1 DEF Inv, DurableInv, LicenceInv, MayComplete
    <2>. QED
      BY <1>1, <1>2, <2>1, DurableTaskMoves DEF Inv
  <1>4. PendingTasks' = {}
    BY <1>1 DEF PendingTasks, Pending
  <1>5. edits = 0 => \A d \in DependenciesOf(sel) : rows'[d].st = "completed"
    BY <1>1, <1>2 DEF DependenciesOf
  <1>. QED
    BY <1>1, <1>2, <1>3, <1>4, <1>5

\* What an earlier supervisor left active is interrupted.
LEMMA InterruptTaskStep == ASSUME Inv, InterruptTask PROVE Rest'
  <1>1. pc \in InTask \ (Completing \cup {"recompile"}) /\ "interrupted" \in TaskStatus
    BY DEF InterruptTask, InTask, Completing, TaskStatus
  <1>2. /\ rows' \in [Tasks -> TypeRow] /\ DurableInv'
        /\ PendingTasks' = {} /\ sel \in Tasks /\ mat
        /\ rows'[sel].st # "completed" /\ rows'[sel].h = rows[sel].h
        /\ edits = 0 => \A d \in DependenciesOf(sel) : rows'[d].st = "completed"
    BY <1>1, RowMoves DEF InterruptTask
  <1>3. TypeOK'
    BY <1>2 DEF Inv, TypeOK, InterruptTask, Positions, InRun, InTask
  <1>4. PlaceInv'
    BY <1>2 DEF Inv, InterruptTask, PlaceInv, SelectedInv, AttemptInv,
       PendingInv, SelectedInOrder, InTask, Completing, DependenciesOf
  <1>. QED
    BY <1>2, <1>3, <1>4 DEF Inv

\* The task becomes eligible.
LEMMA MakeEligibleStep == ASSUME Inv, MakeEligible PROVE Rest'
  <1>1. pc \in InTask \ (Completing \cup {"recompile"}) /\ "eligible" \in TaskStatus
    BY DEF MakeEligible, InTask, Completing, TaskStatus
  <1>2. /\ rows' \in [Tasks -> TypeRow] /\ DurableInv'
        /\ PendingTasks' = {} /\ sel \in Tasks /\ mat
        /\ rows'[sel].st # "completed" /\ rows'[sel].h = rows[sel].h
        /\ edits = 0 => \A d \in DependenciesOf(sel) : rows'[d].st = "completed"
    BY <1>1, RowMoves DEF MakeEligible
  <1>3. TypeOK'
    BY <1>2 DEF Inv, TypeOK, MakeEligible, Positions, InRun, InTask
  <1>4. PlaceInv'
    BY <1>2 DEF Inv, MakeEligible, PlaceInv, SelectedInv, AttemptInv,
       PendingInv, SelectedInOrder, InTask, Completing, DependenciesOf
  <1>. QED
    BY <1>2, <1>3, <1>4 DEF Inv

\* The gates begin.
LEMMA VerifyStep == ASSUME Inv, Verify PROVE Rest'
  <1>1. pc \in InTask \ (Completing \cup {"recompile"}) /\ "verifying" \in TaskStatus
    BY DEF Verify, InTask, Completing, TaskStatus
  <1>2. /\ rows' \in [Tasks -> TypeRow] /\ DurableInv'
        /\ PendingTasks' = {} /\ sel \in Tasks /\ mat
        /\ rows'[sel].st # "completed" /\ rows'[sel].h = rows[sel].h
        /\ edits = 0 => \A d \in DependenciesOf(sel) : rows'[d].st = "completed"
    BY <1>1, RowMoves DEF Verify
  <1>3. TypeOK'
    BY <1>2 DEF Inv, TypeOK, Verify, Positions, InRun, InTask
  <1>4. PlaceInv'
    BY <1>2 DEF Inv, Verify, PlaceInv, SelectedInv, AttemptInv,
       PendingInv, SelectedInOrder, InTask, Completing, DependenciesOf
  <1>. QED
    BY <1>2, <1>3, <1>4 DEF Inv

\* The judge begins.
LEMMA EvaluateStep == ASSUME Inv, Evaluate PROVE Rest'
  <1>1. pc \in InTask \ (Completing \cup {"recompile"}) /\ "evaluating" \in TaskStatus
    BY DEF Evaluate, InTask, Completing, TaskStatus
  <1>2. /\ rows' \in [Tasks -> TypeRow] /\ DurableInv'
        /\ PendingTasks' = {} /\ sel \in Tasks /\ mat
        /\ rows'[sel].st # "completed" /\ rows'[sel].h = rows[sel].h
        /\ edits = 0 => \A d \in DependenciesOf(sel) : rows'[d].st = "completed"
    BY <1>1, RowMoves DEF Evaluate
  <1>3. TypeOK'
    BY <1>2 DEF Inv, TypeOK, Evaluate, Positions, InRun, InTask
  <1>4. PlaceInv'
    BY <1>2 DEF Inv, Evaluate, PlaceInv, SelectedInv, AttemptInv,
       PendingInv, SelectedInOrder, InTask, Completing, DependenciesOf
  <1>. QED
    BY <1>2, <1>3, <1>4 DEF Inv

\* The next attempt of the same task.
LEMMA ReviseStep == ASSUME Inv, Revise PROVE Rest'
  <1>1. pc \in InTask \ (Completing \cup {"recompile"}) /\ "active" \in TaskStatus
    BY DEF Revise, InTask, Completing, TaskStatus
  <1>2. /\ rows' \in [Tasks -> TypeRow] /\ DurableInv'
        /\ PendingTasks' = {} /\ sel \in Tasks /\ mat
        /\ rows'[sel].st # "completed" /\ rows'[sel].h = rows[sel].h
        /\ edits = 0 => \A d \in DependenciesOf(sel) : rows'[d].st = "completed"
    BY <1>1, RowMoves DEF Revise
  <1>3. TypeOK'
    BY <1>2 DEF Inv, TypeOK, Revise, Positions, InRun, InTask
  <1>4. PlaceInv'
    BY <1>2 DEF Inv, Revise, PlaceInv, SelectedInv, AttemptInv,
       PendingInv, SelectedInOrder, InTask, Completing, DependenciesOf
  <1>. QED
    BY <1>2, <1>3, <1>4 DEF Inv

\* A decision that is not an approval: the task goes on or is deferred.
LEMMA SettleTaskStep == ASSUME Inv, SettleTask PROVE Rest'
  <1>. DEFINE s == IF att[sel].dec = "blocked" THEN "blocked"
                   ELSE "retryable_failed"
  <1>1. pc \in InTask \ (Completing \cup {"recompile"})
        /\ s \in TaskStatus \ {"completed"}
    BY DEF SettleTask, InTask, Completing, TaskStatus
  <1>2. SetRow(sel, s, FALSE) /\ UNCHANGED <<run, mat, att, rev, tx, disk,
                                             graph, licensed, bounds>>
    BY DEF SettleTask, Result
  <1>3. /\ rows' \in [Tasks -> TypeRow] /\ DurableInv'
        /\ PendingTasks' = {} /\ sel \in Tasks /\ mat
        /\ rows'[sel].st # "completed" /\ rows'[sel].h = rows[sel].h
        /\ edits = 0 => \A d \in DependenciesOf(sel) : rows'[d].st = "completed"
    <2>. HIDE DEF s
    <2>. QED
      BY <1>1, <1>2, RowMoves DEF SettleTask
  <1>4. /\ pc = "resettling"
        /\ \/ pc' \in {"revise", "exhausted"} /\ UNCHANGED memory
           \/ /\ pc' \in {"select", "settle"} /\ sel' = NoTask
              /\ deferred' = deferred \cup {sel}
              /\ result' \in {result, "blocked", "failed"}
    BY DEF SettleTask, Result
  <1>5. TypeOK'
    BY <1>2, <1>3, <1>4 DEF Inv, TypeOK, Positions, InRun, InTask
  <1>6. PlaceInv'
    BY <1>2, <1>3, <1>4 DEF Inv, PlaceInv, SelectedInv, AttemptInv,
       PendingInv, SelectedInOrder, InTask, Completing, DependenciesOf
  <1>. QED
    BY <1>3, <1>5, <1>6 DEF Inv

\* The revisions are used up.
LEMMA ExhaustionStep ==
  ASSUME Inv, NEW policy \in ExhaustedPolicies,
         SettleRevisionExhaustion(policy)
  PROVE  Rest'
  <1>. DEFINE s == CASE policy = "manual-review" -> "blocked"
                     [] policy = "fail" -> "rejected"
                     [] OTHER -> "retryable_failed"
  <1>1. pc \in InTask \ (Completing \cup {"recompile"})
        /\ s \in TaskStatus \ {"completed"}
    BY DEF SettleRevisionExhaustion, InTask, Completing, TaskStatus
  <1>2. SetRow(sel, s, FALSE) /\ UNCHANGED <<run, mat, att, rev, tx, disk,
                                             graph, licensed, bounds>>
    BY DEF SettleRevisionExhaustion, Result
  <1>3. /\ rows' \in [Tasks -> TypeRow] /\ DurableInv'
        /\ PendingTasks' = {} /\ sel \in Tasks
    <2>. HIDE DEF s
    <2>. QED
      BY <1>1, <1>2, RowMoves DEF SettleRevisionExhaustion
  <1>4. /\ pc' \in {"select", "settle"} /\ sel' = NoTask
        /\ deferred' = deferred \cup {sel}
        /\ result' \in {result, "blocked", "failed"}
    BY DEF SettleRevisionExhaustion, Result
  <1>5. TypeOK'
    <2>1. /\ pc' \in Positions /\ sel' \in Tasks \cup {NoTask}
          /\ deferred' \subseteq Tasks
          /\ result' \in {"none", "failed", "blocked"}
      BY <1>3, <1>4 DEF Inv, TypeOK, Positions, InRun, InTask
    <2>. QED
      BY <1>2, <1>3, <2>1 DEF Inv, TypeOK
  <1>6. PlaceInv'
    BY <1>3, <1>4 DEF PlaceInv, SelectedInv, AttemptInv, PendingInv,
       SelectedInOrder, InTask, Completing
  <1>. QED
    BY <1>3, <1>5, <1>6 DEF Inv

\* The row becomes active with the hash of the marker that was written.
LEMMA ActivateTaskStep == ASSUME Inv, ActivateTask PROVE Rest'
  <1>1. /\ sel \in Tasks /\ mat /\ PendingTasks = {} /\ rows[sel].st # "completed"
        /\ edits = 0 => \A d \in DependenciesOf(sel) : rows[d].st = "completed"
    BY InQuietTask DEF ActivateTask, InTask, Completing
  <1>2. Mark(graph, sel, "active") \in Content
        /\ Mark(graph, sel, "active").m[sel] = "active"
    <2>1. PICK b : b = Mark(graph, sel, "active")
      OBVIOUS
    <2>2. graph \in Content
      BY DEF Inv, TypeOK
    <2>3. /\ b \in Content
          /\ \A x \in Tasks : b.m[x] = IF x = sel THEN "active" ELSE graph.m[x]
      BY SMTT(30), <1>1, <2>1, <2>2, MarkedActive
    <2>. QED
      BY <1>1, <2>1, <2>3
  <1>3. /\ rows' \in [Tasks -> TypeRow]
        /\ rows'[sel].st = "active" /\ rows'[sel].h = Mark(graph, sel, "active")
        /\ \A x \in Tasks \ {sel} : rows'[x] = rows[x]
    BY <1>1, <1>2, RowStatusHash DEF ActivateTask, Inv, TypeOK, TaskStatus
  <1>4. graph' = graph \/ graph' = file
    BY DEF ActivateTask
  <1>5. TypeOK'
    BY <1>3, <1>4 DEF Inv, TypeOK, ActivateTask, Positions, InRun, InTask
  <1>6. DurableInv'
    <2>1. att[sel].dec = "passed" => sel \in licensed
      BY <1>1 DEF Inv, DurableInv, LicenceInv, MayComplete
    <2>. QED
      BY <1>1, <1>3, <1>4, <2>1, DurableTaskMoves DEF Inv, ActivateTask
  <1>7. PlaceInv'
    BY <1>1, <1>2, <1>3 DEF Inv, ActivateTask, PlaceInv, SelectedInv,
       AttemptInv, PendingInv, SelectedInOrder, InTask, Completing,
       PendingTasks, Pending, DependenciesOf
  <1>. QED
    BY <1>5, <1>6, <1>7 DEF Inv

-----------------------------------------------------------------------------
(* The attempt. *)

\* An attempt is created within the revision budget.
LEMMA CreateAttemptStep == ASSUME Inv, CreateAttempt PROVE Rest'
  <1>1. /\ sel \in Tasks /\ mat /\ PendingTasks = {} /\ rows[sel].st # "completed"
        /\ edits = 0 => \A d \in DependenciesOf(sel) : rows[d].st = "completed"
    BY InQuietTask DEF CreateAttempt, InTask, Completing
  <1>2. /\ rows' \in [Tasks -> TypeRow]
        /\ rows'[sel].st = rows[sel].st /\ rows'[sel].h = rows[sel].h
        /\ \A x \in Tasks \ {sel} : rows'[x] = rows[x]
    BY <1>1, RowHeld DEF CreateAttempt, Inv, TypeOK
  <1>3. /\ att' \in [Tasks -> Att]
        /\ att'[sel].st = "active" /\ att'[sel].dec = "none"
        /\ \A x \in Tasks \ {sel} : att'[x] = att[x]
    <2>1. [st |-> "active", dec |-> "none"] \in Att
      BY DEF Att, AttemptStatus, Decisions
    <2>. QED
      BY <1>1, <2>1 DEF CreateAttempt, Inv, TypeOK, Att
  <1>4. rev' \in [Tasks -> Rev]
    <2>. DEFINE r == rev[sel]
    <2>1. r \in Rev /\ rev \in [Tasks -> Rev] /\ ~(r.feedback /\ r.used >= MaxRevisions)
      BY <1>1 DEF Inv, TypeOK, Rev, CreateAttempt
    <2>. HIDE DEF r
    <2>2. PICK q : q = [r EXCEPT !.used = IF r.feedback THEN @ + 1 ELSE @]
      OBVIOUS
    <2>3. r.feedback => r.used + 1 \in 0..MaxRevisions
      BY <2>1 DEF Rev
    <2>4. q \in Rev
      BY <2>1, <2>2, <2>3 DEF Rev
    <2>5. rev' = [rev EXCEPT ![sel] = q]
      BY <2>2 DEF CreateAttempt, r
    <2>. QED
      BY <2>1, <2>4, <2>5
  <1>5. TypeOK'
    BY <1>2, <1>3, <1>4 DEF Inv, TypeOK, Att, Rev, CreateAttempt, Positions,
       InRun, InTask
  <1>6. DurableInv'
    BY <1>1, <1>2, <1>3, DurableTaskMoves DEF Inv, CreateAttempt
  <1>7. PlaceInv'
    BY <1>1, <1>2, <1>3 DEF Inv, CreateAttempt, PlaceInv, SelectedInv,
       AttemptInv, PendingInv, SelectedInOrder, InTask, Completing,
       PendingTasks, Pending, DependenciesOf
  <1>. QED
    BY <1>5, <1>6, <1>7 DEF Inv

\* An approving decision licenses the task.
LEMMA DecideStep ==
  ASSUME Inv, NEW d \in Decisions \ {"none"}, Decide(d) PROVE Rest'
  <1>1. /\ sel \in Tasks /\ mat /\ PendingTasks = {} /\ rows[sel].st # "completed"
        /\ edits = 0 => \A x \in DependenciesOf(sel) : rows[x].st = "completed"
    BY InQuietTask DEF Decide, InTask, Completing
  <1>2. /\ att' \in [Tasks -> Att]
        /\ att'[sel].st = att[sel].st /\ att'[sel].dec = d
        /\ \A x \in Tasks \ {sel} : att'[x] = att[x]
    BY <1>1, AttemptDecided DEF Decide, Inv, TypeOK, Att
  <1>3. rev' \in [Tasks -> Rev]
    <2>. DEFINE r == rev[sel]
    <2>1. r \in Rev /\ rev \in [Tasks -> Rev]
      BY <1>1 DEF Inv, TypeOK, Rev
    <2>. HIDE DEF r
    <2>2. PICK q : q = [r EXCEPT !.feedback = @ \/ d = "revision_required",
                          !.idle = IF d = "no_change" /\ @ <= MaxNoChange
                                   THEN @ + 1 ELSE @]
      OBVIOUS
    <2>3. /\ (r.feedback \/ d = "revision_required") \in BOOLEAN
          /\ (IF d = "no_change" /\ r.idle <= MaxNoChange THEN r.idle + 1
              ELSE r.idle) \in 0..(MaxNoChange + 1)
      BY <2>1 DEF Rev
    <2>4. q \in Rev
      BY <2>1, <2>2, <2>3 DEF Rev
    <2>5. rev' = [rev EXCEPT ![sel] = q]
      BY <2>2 DEF Decide, r
    <2>. QED
      BY <2>1, <2>4, <2>5
  <1>4. /\ licensed \subseteq licensed' /\ licensed' \subseteq Tasks
        /\ d = "passed" => sel \in licensed'
    BY <1>1 DEF Decide, Inv, TypeOK
  <1>5. TypeOK'
    BY <1>2, <1>3, <1>4 DEF Inv, TypeOK, Att, Rev, Decide, Positions,
       InRun, InTask
  <1>6. DurableInv'
    BY <1>1, <1>2, <1>4, DurableTaskMoves DEF Inv, Decide
  <1>7. PlaceInv'
    BY <1>1, <1>2 DEF Inv, Decide, PlaceInv, SelectedInv,
       AttemptInv, PendingInv, SelectedInOrder, InTask, Completing,
       PendingTasks, Pending, DependenciesOf
  <1>. QED
    BY <1>5, <1>6, <1>7 DEF Inv

\* The attempt is settled.
LEMMA SettleAttemptStep == ASSUME Inv, SettleAttempt PROVE Rest'
  <1>. DEFINE s == IF att[sel].dec = "revision_required" THEN "rejected"
                   ELSE "failed"
  <1>1. /\ sel \in Tasks /\ mat /\ PendingTasks = {} /\ rows[sel].st # "completed"
        /\ edits = 0 => \A d \in DependenciesOf(sel) : rows[d].st = "completed"
    BY InQuietTask DEF SettleAttempt, InTask, Completing
  <1>2. s \in AttemptStatus \ {"active"} /\ att' = [att EXCEPT ![sel].st = s]
    BY DEF SettleAttempt, AttemptStatus
  <1>3. /\ att' \in [Tasks -> Att]
        /\ att'[sel].st = s /\ att'[sel].dec = att[sel].dec
        /\ \A x \in Tasks \ {sel} : att'[x] = att[x]
    <2>. HIDE DEF s
    <2>. QED
      BY <1>1, <1>2, AttemptStatusSet DEF Inv, TypeOK, Att
  <1>4. TypeOK'
    BY <1>3 DEF Inv, TypeOK, Att, SettleAttempt, Positions, InRun, InTask
  <1>5. DurableInv'
    <2>1. att[sel].dec = "passed" => sel \in licensed
      BY <1>1 DEF Inv, DurableInv, LicenceInv, MayComplete
    <2>. QED
      BY <1>1, <1>3, <2>1, DurableTaskMoves DEF Inv, SettleAttempt
  <1>6. PlaceInv'
    BY <1>1, <1>2, <1>3 DEF Inv, SettleAttempt, PlaceInv, SelectedInv,
       AttemptInv, PendingInv, SelectedInOrder, InTask, Completing,
       PendingTasks, Pending, DependenciesOf
  <1>. QED
    BY <1>4, <1>5, <1>6 DEF Inv

-----------------------------------------------------------------------------
(* The markers, and the completion. *)

\* The file is compared before it is written.
LEMMA CompareStep ==
  ASSUME Inv, CompareActiveMarker \/ CompareCompletedMarker PROVE Rest'
  <1>1. TypeOK'
    <2>1. pc' \in Positions /\ edited' \in BOOLEAN
      BY DEF CompareActiveMarker, CompareCompletedMarker, Compare, Positions,
             InRun, InTask
    <2>2. UNCHANGED <<ledger, file, late, memory, licensed, bounds>>
      BY DEF CompareActiveMarker, CompareCompletedMarker
    <2>. QED
      BY <2>1, <2>2 DEF Inv, TypeOK
  <1>2. DurableInv'
    BY DurableSame DEF Inv, CompareActiveMarker, CompareCompletedMarker
  <1>3. PlaceInv'
    BY DEF Inv, CompareActiveMarker, CompareCompletedMarker, PlaceInv,
           SelectedInv, AttemptInv, PendingInv, SelectedInOrder, InTask,
           Completing, PendingTasks, Pending, DependenciesOf
  <1>. QED
    BY <1>1, <1>2, <1>3

\* While the user leaves it alone, the file is what it was compared with.
LEMMA RenamedIsCompared ==
  ASSUME Inv, pc \in Renaming
  PROVE  (~edited => file = graph) /\ (edits = 0 => file = graph)
  BY DEF Inv, WriteInv, Compared

\* [~] is renamed over the file.
LEMMA WriteActiveMarkerStep == ASSUME Inv, WriteActiveMarker PROVE Rest'
  <1>1. /\ sel \in Tasks /\ mat /\ PendingTasks = {} /\ rows[sel].st # "completed"
        /\ edits = 0 => \A d \in DependenciesOf(sel) : rows[d].st = "completed"
    BY InQuietTask DEF WriteActiveMarker, InTask, Completing
  <1>2. /\ graph \in Content /\ graph.m[sel] = "pending"
        /\ file' = Mark(graph, sel, "active")
        /\ edits = 0 => file = graph
    BY RenamedIsCompared DEF Inv, TypeOK, PlaceInv, AttemptInv, Renaming,
       WriteActiveMarker
  <1>3. /\ file' \in Content
        /\ \A x \in Tasks : file'.m[x] = IF x = sel THEN "active" ELSE graph.m[x]
    <2>1. PICK b : b = file'
      OBVIOUS
    <2>2. b = Mark(graph, sel, "active")
      BY <1>2, <2>1
    <2>3. /\ b \in Content
          /\ \A x \in Tasks : b.m[x] = IF x = sel THEN "active" ELSE graph.m[x]
      BY SMTT(30), <1>1, <1>2, <2>2, MarkedActive
    <2>. QED
      BY <2>1, <2>3
  <1>4. TypeOK'
    BY <1>3 DEF Inv, TypeOK, WriteActiveMarker, Positions, InRun, InTask
  <1>5. edits = 0 => \A t \in Tasks :
           file.m[t] = "completed" => file'.m[t] = "completed"
    BY <1>2, <1>3
  <1>6. \A t \in Tasks : file'.m[t] = "completed" => t \in licensed
    BY <1>3 DEF Inv, DurableInv, LicenceInv, MayComplete
  <1>7. edits = 0 => \A t \in Tasks : file'.m[t] = "active" =>
           \A d \in DependenciesOf(t) : file.m[d] = "completed"
    <2>. SUFFICES ASSUME edits = 0, NEW t \in Tasks, file'.m[t] = "active",
                         NEW d \in DependenciesOf(t)
                  PROVE  file.m[d] = "completed"
      OBVIOUS
    <2>1. FileAhead /\ StartedInOrder /\ d \in Tasks
      BY DEF Inv, DurableInv, DependenciesOf
    <2>2. CASE t = sel
      BY <1>1, <2>1, <2>2 DEF FileAhead
    <2>3. CASE t # sel
      BY <1>3, <2>1, <2>3 DEF StartedInOrder, MayBeActive
    <2>. QED
      BY <2>2, <2>3
  <1>8. DurableInv'
    BY <1>5, <1>6, <1>7, DurableFileMoves DEF Inv, WriteActiveMarker
  <1>9. PlaceInv'
    BY <1>1 DEF Inv, WriteActiveMarker, PlaceInv, SelectedInv,
       AttemptInv, PendingInv, SelectedInOrder, InTask, Completing,
       PendingTasks, Pending, DependenciesOf
  <1>. QED
    BY <1>4, <1>8, <1>9

\* [x] is renamed over the file for a task that is licensed.
LEMMA CompletedMarkerWritten ==
  ASSUME Inv, pc \in Renaming,
         NEW t \in Tasks, t \in licensed, graph.m[t] = "active",
         file' = Mark(graph, t, "completed"),
         UNCHANGED <<ledger, late, graph, licensed, edits>>
  PROVE  DurableInv' /\ file' \in Content /\ file'.m[t] = "completed"
  <1>1. graph \in Content /\ (edits = 0 => file = graph)
    BY RenamedIsCompared DEF Inv, TypeOK
  <1>2. /\ file' \in Content
        /\ \A x \in Tasks : file'.m[x] = IF x = t THEN "completed" ELSE graph.m[x]
    <2>1. PICK b : b = file'
      OBVIOUS
    <2>2. b = Mark(graph, t, "completed")
      BY <2>1
    <2>3. /\ b \in Content
          /\ \A x \in Tasks : b.m[x] = IF x = t THEN "completed" ELSE graph.m[x]
      BY SMTT(30), <1>1, <2>2, MarkedCompleted
    <2>. QED
      BY <2>1, <2>3
  <1>3. edits = 0 => \A x \in Tasks :
           file.m[x] = "completed" => file'.m[x] = "completed"
    BY <1>1, <1>2
  <1>4. \A x \in Tasks : file'.m[x] = "completed" => x \in licensed
    BY <1>2 DEF Inv, DurableInv, LicenceInv, MayComplete
  <1>5. edits = 0 => \A x \in Tasks : file'.m[x] = "active" =>
           \A d \in DependenciesOf(x) : file.m[d] = "completed"
    BY <1>2 DEF Inv, DurableInv, StartedInOrder, MayBeActive
  <1>6. DurableInv'
    BY <1>3, <1>4, <1>5, DurableFileMoves DEF Inv
  <1>. QED
    BY <1>2, <1>6

\* A pending completion is licensed.
LEMMA PendingIsLicensed ==
  ASSUME Inv, NEW t \in Tasks, Pending(t)
  PROVE  /\ t \in licensed /\ mat /\ rows[t].st # "completed"
         /\ rows[t].h = tx[t].before /\ tx[t].before \in Content
         /\ att[t].dec = "passed" /\ att[t].st \in {"active", "interrupted"}
  <1>1. /\ mat /\ rows[t].st # "completed" /\ rows[t].h = tx[t].before
        /\ att[t].dec = "passed" /\ att[t].st \in {"active", "interrupted"}
    BY DEF Inv, DurableInv, PendingIsCommittable, PendingTasks
  <1>2. t \in licensed
    BY <1>1 DEF Inv, DurableInv, LicenceInv, MayComplete
  <1>3. rows[t].h \in Content
    BY DEF Inv, TypeOK, TypeRow
  <1>. QED
    BY <1>1, <1>2, <1>3

\* The supervisor that prepared the completion writes its marker.
LEMMA WriteCompletedMarkerStep == ASSUME Inv, WriteCompletedMarker PROVE Rest'
  <1>1. /\ sel \in Tasks /\ PendingTasks = {sel} /\ graph.m[sel] = "active"
        /\ mat /\ pc \in Renaming
    BY DEF Inv, PlaceInv, SelectedInv, AttemptInv, PendingInv,
           WriteCompletedMarker, InTask, Completing, Renaming
  <1>2. Pending(sel)
    BY <1>1 DEF PendingTasks
  <1>3. DurableInv' /\ file' \in Content /\ file'.m[sel] = "completed"
    BY <1>1, <1>2, PendingIsLicensed, CompletedMarkerWritten
       DEF WriteCompletedMarker
  <1>4. TypeOK'
    BY <1>3 DEF Inv, TypeOK, WriteCompletedMarker, Positions, InRun, InTask
  <1>5. PlaceInv'
    BY <1>1, <1>3 DEF Inv, WriteCompletedMarker, PlaceInv, SelectedInv,
       AttemptInv, PendingInv, SelectedInOrder, InTask, Completing,
       PendingTasks, Pending, DependenciesOf
  <1>. QED
    BY <1>3, <1>4, <1>5

\* A later supervisor compares and writes it.
LEMMA ReconcileWriteStep ==
  ASSUME Inv, \/ ReconcileWriteMarker
              \/ \E t \in Tasks : ReconcileCompareMarker(t)
  PROVE  Rest'
  <1>1. CASE ReconcileWriteMarker
    <2>1. /\ sel \in Tasks /\ Pending(sel) /\ graph.m[sel] = "active"
          /\ pc \in Renaming
      BY <1>1 DEF ReconcileWriteMarker, Inv, PlaceInv, SelectedInv, Renaming
    <2>2. DurableInv' /\ file' \in Content
      BY <1>1, <2>1, PendingIsLicensed, CompletedMarkerWritten
         DEF ReconcileWriteMarker
    <2>3. TypeOK'
      BY <1>1, <2>2 DEF Inv, TypeOK, ReconcileWriteMarker, Positions, Preparing
    <2>4. PlaceInv'
      BY <1>1, <2>1 DEF ReconcileWriteMarker, PlaceInv, SelectedInv,
         AttemptInv, PendingInv, SelectedInOrder, InTask, Completing, Pending
    <2>. QED
      BY <2>2, <2>3, <2>4
  <1>2. ASSUME NEW t \in Tasks, ReconcileCompareMarker(t) PROVE Rest'
    <2>1. TypeOK'
      BY <1>2 DEF Inv, TypeOK, ReconcileCompareMarker, Compare, Positions,
         Preparing
    <2>2. DurableInv'
      BY <1>2, DurableSame DEF Inv, ReconcileCompareMarker
    <2>3. PlaceInv'
      BY <1>2 DEF ReconcileCompareMarker, PlaceInv, SelectedInv, AttemptInv,
         PendingInv, SelectedInOrder, InTask, Completing, Pending
    <2>. QED
      BY <2>1, <2>2, <2>3
  <1>. QED
    BY <1>1, <1>2

\* A completion is prepared with the hash that its row carries.
LEMMA PrepareStep == ASSUME Inv, Prepare PROVE Rest'
  <1>. DEFINE x == [st |-> "prepared", before |-> graph, after |-> NoWrite]
  <1>1. /\ sel \in Tasks /\ mat /\ PendingTasks = {} /\ rows[sel].st # "completed"
        /\ edits = 0 => \A d \in DependenciesOf(sel) : rows[d].st = "completed"
    BY InQuietTask DEF Prepare, InTask, Completing
  <1>2. /\ rows[sel].h = graph /\ graph.m[sel] = "active"
        /\ att[sel].dec = "passed" /\ att[sel].st = "active"
    BY DEF Inv, PlaceInv, AttemptInv, Prepare, PrepareGuard
  <1>3. x \in Tx /\ x.st = "prepared" /\ x.before = graph
    BY DEF Inv, TypeOK, Tx
  <1>4. tx' = [tx EXCEPT ![sel] = x] /\ tx \in [Tasks -> Tx]
    BY DEF Prepare, Inv, TypeOK, Tx
  <1>. HIDE DEF x
  <1>5. tx' \in [Tasks -> Tx] /\ PendingTasks' = {sel}
    BY <1>1, <1>3, <1>4 DEF PendingTasks, Pending
  <1>6. TypeOK'
    BY <1>5 DEF Inv, TypeOK, Tx, Prepare, Positions, InRun, InTask
  <1>7. DurableInv'
    <2>1. tx'[sel] = x /\ \A t \in Tasks \ {sel} : tx'[t] = tx[t]
      BY <1>1, <1>4
    <2>2. UNCHANGED <<file, late, run, mat, rows, att, graph, licensed, edits>>
      BY DEF Prepare
    <2>. QED
      BY <1>1, <1>2, <1>3, <2>1, <2>2, DurableTxMoves DEF Inv
  <1>8. PlaceInv'
    BY <1>1, <1>2, <1>5 DEF Inv, Prepare, PlaceInv, SelectedInv,
       AttemptInv, PendingInv, SelectedInOrder, InTask, Completing,
       DependenciesOf
  <1>. QED
    BY <1>6, <1>7, <1>8 DEF Inv

\* The marker of a pending completion is recorded as written.
LEMMA MarkerRecorded ==
  ASSUME Inv, NEW t \in Tasks, Pending(t), NEW c \in Content,
         tx' = [tx EXCEPT ![t].st = "marker_written", ![t].after = c],
         graph' = graph \/ graph' = file,
         UNCHANGED <<run, mat, rows, att, rev, disk, licensed, edits>>
  PROVE  /\ tx' \in [Tasks -> Tx] /\ PendingTasks' = PendingTasks
         /\ Pending(t)' /\ DurableInv'
  <1>1. tx \in [Tasks -> Tx]
    BY DEF Inv, TypeOK, Tx
  <1>2. /\ tx' \in [Tasks -> Tx]
        /\ tx'[t].st = "marker_written" /\ tx'[t].before = tx[t].before
        /\ \A x \in Tasks \ {t} : tx'[x] = tx[x]
    BY <1>1, TxWritten
  <1>3. PendingTasks' = PendingTasks /\ Pending(t)'
    BY <1>2 DEF PendingTasks, Pending
  <1>4. /\ mat /\ rows[t].st # "completed" /\ rows[t].h = tx'[t].before
        /\ att[t].dec = "passed" /\ att[t].st \in {"active", "interrupted"}
    BY <1>2, PendingIsLicensed
  <1>5. DurableInv'
    BY <1>2, <1>4, DurableTxMoves DEF Inv
  <1>. QED
    BY <1>2, <1>3, <1>5

\* markCompletionMarkerWritten of the supervisor that wrote the marker.
LEMMA MarkCompletionMarkerWrittenStep ==
  ASSUME Inv, MarkCompletionMarkerWritten PROVE Rest'
  <1>1. sel \in Tasks /\ PendingTasks = {sel} /\ mat
    BY DEF Inv, PlaceInv, SelectedInv, PendingInv,
           MarkCompletionMarkerWritten, InTask, Completing
  <1>2. Pending(sel) /\ Mark(graph, sel, "completed") \in Content
    BY <1>1, MarkContent DEF PendingTasks, Inv, TypeOK, Markers
  <1>3. tx' \in [Tasks -> Tx] /\ PendingTasks' = {sel} /\ DurableInv'
    BY <1>1, <1>2, MarkerRecorded DEF MarkCompletionMarkerWritten
  <1>4. TypeOK'
    BY <1>3 DEF Inv, TypeOK, Tx, MarkCompletionMarkerWritten, Positions, InRun,
                InTask
  <1>5. PlaceInv'
    BY <1>1, <1>3 DEF Inv, MarkCompletionMarkerWritten, PlaceInv, SelectedInv,
       AttemptInv, PendingInv, SelectedInOrder, InTask, Completing,
       DependenciesOf
  <1>. QED
    BY <1>3, <1>4, <1>5 DEF Inv

\* The same for a marker found or written by a later supervisor.
LEMMA ReconcileMarkStep ==
  ASSUME Inv, \/ ReconcileMarkWritten
              \/ \E t \in Tasks : ReconcileExistingMarker(t)
  PROVE  Rest'
  <1>1. CASE ReconcileMarkWritten
    <2>1. sel \in Tasks /\ Pending(sel)
      BY <1>1 DEF Inv, PlaceInv, SelectedInv, ReconcileMarkWritten
    <2>2. Mark(tx[sel].before, sel, "completed") \in Content
      BY <2>1, PendingIsLicensed, MarkContent DEF Markers
    <2>3. tx' \in [Tasks -> Tx] /\ Pending(sel)' /\ DurableInv'
      BY <1>1, <2>1, <2>2, MarkerRecorded DEF ReconcileMarkWritten
    <2>4. TypeOK'
      BY <1>1, <2>3 DEF Inv, TypeOK, Tx, ReconcileMarkWritten, Positions,
         Preparing
    <2>5. PlaceInv'
      BY <1>1, <2>1, <2>3 DEF ReconcileMarkWritten, PlaceInv, SelectedInv,
         AttemptInv, PendingInv, SelectedInOrder, InTask, Completing, Pending
    <2>. QED
      BY <2>3, <2>4, <2>5 DEF Inv
  <1>2. ASSUME NEW t \in Tasks, ReconcileExistingMarker(t) PROVE Rest'
    <2>1. Pending(t) /\ graph \in Content
      BY <1>2 DEF ReconcileExistingMarker, Pending, Inv, TypeOK
    <2>2. tx' \in [Tasks -> Tx] /\ Pending(t)' /\ DurableInv'
      BY <1>2, <2>1, MarkerRecorded DEF ReconcileExistingMarker
    <2>3. TypeOK'
      BY <1>2, <2>2 DEF Inv, TypeOK, Tx, ReconcileExistingMarker, Positions,
         Preparing
    <2>4. PlaceInv'
      BY <1>2, <2>2 DEF ReconcileExistingMarker, PlaceInv, SelectedInv,
         AttemptInv, PendingInv, SelectedInOrder, InTask, Completing, Pending
    <2>. QED
      BY <2>2, <2>3, <2>4 DEF Inv
  <1>. QED
    BY <1>1, <1>2

\* A later supervisor commits what it reconciled.
LEMMA ReconcileCommitStep == ASSUME Inv, ReconcileCommit PROVE Rest'
  <1>1. sel \in PendingTasks /\ sel \in Tasks /\ graph \in Content
    BY DEF Inv, TypeOK, PlaceInv, SelectedInv, ReconcileCommit, PendingTasks
  <1>2. edits = 0 => file.m[sel] = "completed"
    BY <1>1 DEF Inv, DurableInv, FileAhead, ReconcileCommit
  <1>3. DurableInv'
    BY <1>1, <1>2, DurableCommits DEF Inv, ReconcileCommit
  <1>4. /\ rows' \in [Tasks -> TypeRow] /\ att' \in [Tasks -> Att]
        /\ tx' \in [Tasks -> Tx]
    BY <1>1, CommitTypes DEF Inv, ReconcileCommit
  <1>5. TypeOK'
    BY <1>4 DEF Inv, TypeOK, Att, Tx, ReconcileCommit, Positions, Preparing
  <1>6. PlaceInv'
    BY DEF ReconcileCommit, PlaceInv, SelectedInv, AttemptInv, PendingInv,
           SelectedInOrder, InTask, Completing
  <1>. QED
    BY <1>3, <1>5, <1>6 DEF Inv

\* The supervisor that prepared the completion commits it.
LEMMA CommitCompletionStep == ASSUME Inv, CommitCompletion PROVE Rest'
  <1>. DEFINE h == Mark(graph, sel, "completed")
  <1>1. /\ sel \in Tasks /\ PendingTasks = {sel} /\ mat
        /\ edits = 0 => /\ file.m[sel] = "completed"
                        /\ \A d \in DependenciesOf(sel) : rows[d].st = "completed"
    BY DEF Inv, PlaceInv, SelectedInv, PendingInv, SelectedInOrder,
           CommitCompletion, InTask, Completing
  <1>2. h \in Content /\ h.m[sel] = "completed"
    <2>1. graph \in Content
      BY DEF Inv, TypeOK
    <2>. QED
      BY <1>1, <2>1, MarkedCompleted
  <1>3. Commit(sel, h)
    BY DEF CommitCompletion
  <1>. HIDE DEF h
  <1>4. DurableInv'
    BY <1>1, <1>2, <1>3, DurableCommits DEF Inv, CommitCompletion
  <1>5. /\ rows' \in [Tasks -> TypeRow] /\ att' \in [Tasks -> Att]
        /\ tx' \in [Tasks -> Tx] /\ tx'[sel].st = "committed"
        /\ rows'[sel].st = "completed"
        /\ \A x \in Tasks \ {sel} : tx'[x] = tx[x] /\ rows'[x] = rows[x]
    BY <1>1, <1>2, <1>3, CommitTypes DEF Inv
  <1>6. TypeOK'
    BY <1>5 DEF Inv, TypeOK, Att, Tx, CommitCompletion, Positions, InRun, InTask
  <1>7. PendingTasks' = {}
    BY SMTT(30), <1>1, <1>5 DEF PendingTasks, Pending
  <1>8. edits = 0 => \A d \in DependenciesOf(sel) : rows'[d].st = "completed"
    BY <1>1, <1>5 DEF DependenciesOf
  <1>9. PlaceInv'
    BY <1>1, <1>7, <1>8 DEF CommitCompletion, PlaceInv, SelectedInv,
       AttemptInv, PendingInv, SelectedInOrder, InTask, Completing,
       DependenciesOf
  <1>. QED
    BY <1>4, <1>6, <1>9 DEF Inv

\* The file is compiled for the next task.
LEMMA RecompileStep == ASSUME Inv, Recompile PROVE Rest'
  <1>1. TypeOK'
    BY DEF Inv, TypeOK, Recompile, Positions, InRun
  <1>2. DurableInv'
    BY DurableCompiled DEF Inv, Recompile
  <1>3. PlaceInv'
    BY DEF Inv, Recompile, PlaceInv, SelectedInv, AttemptInv, PendingInv,
           SelectedInOrder, InTask, Completing, PendingTasks, Pending
  <1>. QED
    BY <1>1, <1>2, <1>3 DEF Inv

-----------------------------------------------------------------------------
(* Abandoned tasks, late writes, stops and the user. *)

\* What an abandoned write of [~] or [x] says.
LEMMA LateWriteFields ==
  ASSUME Inv, sel \in Tasks, NEW marker \in {"active", "completed"},
         NEW stage \in {"waiting", "compared", "landed"},
         NEW w, w = LateWrite(marker, stage)
  PROVE  /\ w \in Late /\ w.from = graph /\ w.stage = stage
         /\ w.to = Mark(graph, sel, marker)
         /\ w.task = IF marker = "active" THEN sel ELSE NoTask
         /\ \A x \in Tasks : w.to.m[x] = IF x = sel THEN marker ELSE graph.m[x]
  <1>1. graph \in Content /\ marker \in Markers
    BY DEF Inv, TypeOK, Markers
  <1>2. PICK b : b = Mark(graph, sel, marker)
    OBVIOUS
  <1>3. /\ b \in Content
        /\ \A x \in Tasks : b.m[x] = IF x = sel THEN marker ELSE graph.m[x]
    BY <1>1, <1>2, MarkContent
  <1>4. PICK k : k = IF marker = "active" THEN sel ELSE NoTask
    OBVIOUS
  <1>5. w = [from |-> graph, to |-> b, stage |-> stage, task |-> k]
    BY <1>2, <1>4 DEF LateWrite
  <1>6. /\ w \in Late /\ w.from = graph /\ w.to = b
        /\ w.stage = stage /\ w.task = k
    BY <1>1, <1>3, <1>4, <1>5 DEF Late
  <1>. QED
    BY <1>2, <1>3, <1>4, <1>6

\* What may still be on its way to the disk when a task is abandoned.
LEMMA AbandonedWriteIsOneStep ==
  ASSUME Inv, pc \in Abandonable, NEW w \in AbandonedWrites
  PROVE  /\ w \in Late /\ w.from = graph /\ OneStep(w.from, w.to)
         /\ \A t \in Tasks : w.to.m[t] = "completed" => t \in licensed
         /\ edits = 0 => \A t \in Tasks : w.to.m[t] = "active" =>
              \A d \in DependenciesOf(t) : file.m[d] = "completed"
         /\ w.stage = "compared" => pc \in Renaming
         /\ w.stage = "landed" => w.task # NoTask
         /\ w.task # NoTask => w.task = sel /\ mat /\ PendingTasks = {}
  <1>1. sel \in Tasks /\ sel # NoTask
    BY DEF Inv, PlaceInv, SelectedInv, Abandonable, InTask
  <1>2. \A t \in Tasks : graph.m[t] = "completed" => t \in licensed
    BY DEF Inv, DurableInv, LicenceInv, MayComplete
  <1>3. edits = 0 => \A t \in Tasks : graph.m[t] = "active" =>
           \A d \in DependenciesOf(t) : file.m[d] = "completed"
    BY DEF Inv, DurableInv, StartedInOrder, MayBeActive
  <1>4. ASSUME pc \in {"marking", "renameactive", "activating"},
               graph.m[sel] = "pending",
               NEW stage \in {"waiting", "compared", "landed"},
               w = LateWrite("active", stage),
               stage = "compared" => pc = "renameactive"
        PROVE  /\ w \in Late /\ w.from = graph /\ OneStep(w.from, w.to)
               /\ \A t \in Tasks : w.to.m[t] = "completed" => t \in licensed
               /\ edits = 0 => \A t \in Tasks : w.to.m[t] = "active" =>
                    \A d \in DependenciesOf(t) : file.m[d] = "completed"
               /\ w.stage = "compared" => pc \in Renaming
               /\ w.task = sel /\ mat /\ PendingTasks = {}
    <2>1. /\ w \in Late /\ w.from = graph /\ w.stage = stage
          /\ w.to = Mark(graph, sel, "active") /\ w.task = sel
          /\ \A x \in Tasks : w.to.m[x] = IF x = sel THEN "active" ELSE graph.m[x]
      BY <1>1, <1>4, LateWriteFields
    <2>2. OneStep(w.from, w.to)
      BY <1>1, <1>4, <2>1 DEF OneStep
    <2>3. /\ mat /\ PendingTasks = {}
          /\ edits = 0 => \A d \in DependenciesOf(sel) : rows[d].st = "completed"
      BY <1>4, InQuietTask DEF InTask, Completing
    <2>4. edits = 0 => \A d \in DependenciesOf(sel) : file.m[d] = "completed"
      BY <2>3 DEF Inv, DurableInv, FileAhead, DependenciesOf
    <2>5. edits = 0 => \A t \in Tasks : w.to.m[t] = "active" =>
             \A d \in DependenciesOf(t) : file.m[d] = "completed"
      BY <1>3, <2>1, <2>4
    <2>. QED
      BY <1>2, <1>4, <2>1, <2>2, <2>3, <2>5 DEF Renaming
  <1>5. ASSUME pc \in {"writing", "renamecompleted"},
               NEW stage \in {"waiting", "compared"},
               w = LateWrite("completed", stage),
               stage = "compared" => pc = "renamecompleted"
        PROVE  /\ w \in Late /\ w.from = graph /\ OneStep(w.from, w.to)
               /\ \A t \in Tasks : w.to.m[t] = "completed" => t \in licensed
               /\ edits = 0 => \A t \in Tasks : w.to.m[t] = "active" =>
                    \A d \in DependenciesOf(t) : file.m[d] = "completed"
               /\ w.stage = "compared" => pc \in Renaming
               /\ w.stage # "landed" /\ w.task = NoTask
    <2>1. /\ w \in Late /\ w.from = graph /\ w.stage = stage
          /\ w.to = Mark(graph, sel, "completed") /\ w.task = NoTask
          /\ \A x \in Tasks :
               w.to.m[x] = IF x = sel THEN "completed" ELSE graph.m[x]
      BY <1>1, <1>5, LateWriteFields
    <2>2. graph.m[sel] = "active" /\ Pending(sel)
      BY <1>5 DEF Inv, PlaceInv, AttemptInv, PendingInv, Completing,
                  PendingTasks
    <2>3. OneStep(w.from, w.to)
      BY <1>1, <2>1, <2>2 DEF OneStep
    <2>4. sel \in licensed
      BY <1>1, <2>2, PendingIsLicensed
    <2>5. edits = 0 => \A t \in Tasks : w.to.m[t] = "active" =>
             \A d \in DependenciesOf(t) : file.m[d] = "completed"
      BY <1>3, <2>1
    <2>. QED
      BY <1>2, <1>5, <2>1, <2>3, <2>4, <2>5 DEF Renaming
  <1>6. pc = "renameactive" => graph.m[sel] = "pending"
    BY DEF Inv, PlaceInv, AttemptInv
  <1>7. \/ /\ pc = "marking" /\ graph.m[sel] = "pending"
           /\ w = LateWrite("active", "waiting")
        \/ pc = "renameactive" /\ w = LateWrite("active", "compared")
        \/ /\ pc = "activating" /\ graph.m[sel] = "pending"
           /\ w = LateWrite("active", "landed")
        \/ pc = "writing" /\ w = LateWrite("completed", "waiting")
        \/ pc = "renamecompleted" /\ w = LateWrite("completed", "compared")
    BY DEF AbandonedWrites
  <1>8. CASE pc \in {"marking", "renameactive", "activating"}
    BY <1>1, <1>4, <1>6, <1>7, <1>8
  <1>9. CASE pc \in {"writing", "renamecompleted"}
    BY <1>5, <1>7, <1>9
  <1>. QED
    BY <1>7, <1>8, <1>9

\* The catch block of executeTask interrupts the active attempt.
LEMMA AbandonStep == ASSUME Inv, Abandon PROVE Rest'
  <1>1. sel \in Tasks
    BY DEF Inv, PlaceInv, SelectedInv, Abandon, Abandonable, InTask
  <1>2. /\ att' \in [Tasks -> Att] /\ att'[sel].st # "active"
        /\ \A t \in Tasks : att'[t].dec = att[t].dec
        /\ \A t \in Tasks : \/ att'[t] = att[t]
                            \/ /\ att[t].st = "active"
                               /\ att'[t].st = "interrupted"
    <2>1. att \in [Tasks -> Att]
      BY DEF Inv, TypeOK, Att
    <2>2. CASE att[sel].st = "active"
      <3>1. att' = [att EXCEPT ![sel].st = "interrupted"]
        BY <2>2 DEF Abandon
      <3>2. /\ att' \in [Tasks -> Att]
            /\ att'[sel].st = "interrupted" /\ att'[sel].dec = att[sel].dec
            /\ \A x \in Tasks \ {sel} : att'[x] = att[x]
        BY <1>1, <2>1, <3>1, AttemptStatusSet DEF AttemptStatus
      <3>. QED
        BY <2>2, <3>2
    <2>3. CASE att[sel].st # "active"
      BY <2>1, <2>3 DEF Abandon
    <2>. QED
      BY <2>2, <2>3
  <1>3. \/ late' = late
        \/ /\ late' \in Late /\ OneStep(late'.from, late'.to)
           /\ \A t \in Tasks : late'.to.m[t] = "completed" => t \in licensed
           /\ edits = 0 => \A t \in Tasks : late'.to.m[t] = "active" =>
                \A d \in DependenciesOf(t) : file.m[d] = "completed"
    <2>1. PICK w : w = late'
      OBVIOUS
    <2>2. CASE w \in AbandonedWrites
      <3>1. /\ w \in Late /\ OneStep(w.from, w.to)
            /\ \A t \in Tasks : w.to.m[t] = "completed" => t \in licensed
            /\ edits = 0 => \A t \in Tasks : w.to.m[t] = "active" =>
                 \A d \in DependenciesOf(t) : file.m[d] = "completed"
        BY <2>2, AbandonedWriteIsOneStep DEF Abandon
      <3>. QED
        BY <2>1, <3>1
    <2>. QED
      BY <2>1, <2>2 DEF Abandon
  <1>4. TypeOK'
    <2>1. late' \in {NoWrite} \cup Late
      BY <1>3 DEF Inv, TypeOK, Late
    <2>2. faults' \in 0..MaxFaults
      <3>1. faults \in 0..MaxFaults /\ faults < MaxFaults /\ faults' = faults + 1
        BY DEF Abandon, Inv, TypeOK
      <3>. QED
        BY <3>1
    <2>. QED
      BY <1>2, <2>1, <2>2 DEF Inv, TypeOK, Att, Late, Abandon, Positions, InRun
  <1>5. NothingBeforeRows' /\ PendingIsCommittable'
    BY <1>2 DEF Inv, DurableInv, Abandon, NothingBeforeRows,
       PendingIsCommittable, PendingTasks, Pending
  <1>6. CommittedAgrees'
    <2>. SUFFICES ASSUME NEW t \in Tasks, tx[t].st = "committed"
                  PROVE  att'[t] = att[t]
      BY DEF Inv, DurableInv, CommittedAgrees, Abandon
    <2>1. att[t] = [st |-> "passed", dec |-> "passed"]
      BY DEF Inv, DurableInv, CommittedAgrees
    <2>2. att[t].st # "active"
      BY <2>1
    <2>. QED
      BY <1>2, <2>2
  <1>7. LicenceInv' /\ LateInv'
    <2>1. LicenceInv'
      BY <1>2, <1>3 DEF Inv, DurableInv, Abandon, LicenceInv, MayComplete
    <2>2. LateInv'
      <3>1. CASE late' = late
        BY <3>1 DEF Inv, DurableInv, LateInv, OneStep
      <3>2. CASE OneStep(late'.from, late'.to)
        BY <3>2 DEF LateInv, OneStep
      <3>. QED
        BY <1>3, <3>1, <3>2
    <2>. QED
      BY <2>1, <2>2
  <1>8. edits' = 0 => FileAhead' /\ StartedInOrder'
    BY <1>3 DEF Inv, DurableInv, Abandon, FileAhead, StartedInOrder,
       MayBeActive, DependenciesOf
  <1>9. PlaceInv'
    BY <1>1, <1>2 DEF Inv, Abandon, Abandonable, PlaceInv, SelectedInv,
       AttemptInv, PendingInv, SelectedInOrder, InTask, Completing,
       DependenciesOf
  <1>. QED
    BY <1>4, <1>5, <1>6, <1>7, <1>8, <1>9 DEF DurableInv

\* It then interrupts the task; a pending completion keeps its hash.
LEMMA AbandonTaskStep == ASSUME Inv, AbandonTask PROVE Rest'
  <1>1. sel \in Tasks /\ rows \in [Tasks -> TypeRow]
    BY DEF Inv, TypeOK, PlaceInv, SelectedInv, AbandonTask
  <1>2. CASE UNCHANGED rows
    <2>1. TypeOK'
      BY <1>2 DEF Inv, TypeOK, AbandonTask, Positions, InRun
    <2>2. DurableInv'
      BY <1>2, DurableSame DEF Inv, AbandonTask
    <2>3. PlaceInv'
      BY <1>2 DEF Inv, AbandonTask, PlaceInv, SelectedInv, AttemptInv,
         PendingInv, SelectedInOrder, InTask, Completing, DependenciesOf
    <2>. QED
      BY <2>1, <2>2, <2>3
  <1>3. CASE /\ mat /\ rows[sel].st \in {"active", "verifying", "evaluating"}
             /\ rows' = [rows EXCEPT ![sel].st = "interrupted"]
    <2>1. /\ rows' \in [Tasks -> TypeRow]
          /\ rows'[sel].st = "interrupted" /\ rows'[sel].h = rows[sel].h
          /\ \A x \in Tasks \ {sel} : rows'[x] = rows[x]
      BY <1>1, <1>3, RowStatus DEF TaskStatus
    <2>2. TypeOK'
      BY <2>1 DEF Inv, TypeOK, AbandonTask, Positions, InRun
    <2>3. NothingBeforeRows' /\ PendingIsCommittable'
      BY <1>1, <2>1 DEF Inv, DurableInv, AbandonTask, NothingBeforeRows,
         PendingIsCommittable, PendingTasks, Pending
    <2>4. CommittedAgrees'
      <3>1. ASSUME tx[sel].st = "committed" PROVE FALSE
        <4>1. rows[sel] = [st |-> "completed", h |-> tx[sel].after, at |-> FALSE]
          BY <1>1, <3>1 DEF Inv, DurableInv, CommittedAgrees
        <4>2. rows[sel].st = "completed"
          BY <4>1
        <4>. QED
          BY <1>3, <4>2
      <3>. QED
        BY ZenonT(30), <2>1, <3>1 DEF Inv, DurableInv, CommittedAgrees, AbandonTask
    <2>5. LicenceInv' /\ LateInv'
      BY <1>3, <2>1 DEF Inv, DurableInv, AbandonTask, LicenceInv, MayComplete,
         LateInv, OneStep
    <2>6. edits' = 0 => FileAhead' /\ StartedInOrder'
      <3>. SUFFICES ASSUME edits = 0 PROVE FileAhead' /\ StartedInOrder'
        BY DEF AbandonTask
      <3>1. FileAhead /\ StartedInOrder
        BY DEF Inv, DurableInv
      <3>2. FileAhead'
        BY <2>1, <3>1 DEF FileAhead, AbandonTask
      <3>3. ASSUME NEW t \in Tasks, MayBeActive(t)', NEW d \in DependenciesOf(t)
            PROVE  file'.m[d] = "completed"
        BY <3>1, <3>3 DEF StartedInOrder, MayBeActive, AbandonTask
      <3>4. ASSUME NEW t \in Tasks, rows'[t].st \notin {"pending", "completed"},
                   NEW d \in DependenciesOf(t)
            PROVE  rows'[d].st = "completed"
        <4>1. d \in Tasks /\ rows[t].st \notin {"pending", "completed"}
          BY <1>3, <2>1, <3>4 DEF DependenciesOf
        <4>2. rows[d].st = "completed"
          BY <3>1, <3>4, <4>1 DEF StartedInOrder
        <4>. QED
          BY <1>3, <2>1, <4>1, <4>2
      <3>. QED
        BY <3>2, <3>3, <3>4 DEF StartedInOrder, DependenciesOf
    <2>7. PlaceInv'
      <3>1. edits = 0 =>
              \A d \in DependenciesOf(sel) : rows'[d].st = "completed"
        BY <1>3, <2>1 DEF Inv, PlaceInv, SelectedInOrder, AbandonTask,
           DependenciesOf
      <3>. QED
        BY <3>1 DEF Inv, AbandonTask, PlaceInv, SelectedInv, AttemptInv,
           PendingInv, SelectedInOrder, InTask, Completing, DependenciesOf
    <2>. QED
      BY <2>2, <2>3, <2>4, <2>5, <2>6, <2>7 DEF Inv, DurableInv
  <1>. QED
    BY <1>2, <1>3 DEF AbandonTask

\* An abandoned write compares the file.
LEMMA LateWriteComparedStep == ASSUME Inv, LateWriteCompared PROVE Rest'
  <1>1. late' \in Late /\ LateKept
    <2>1. late \in Late /\ late # NoWrite
      BY DEF Inv, TypeOK, Late, LateWriteCompared
    <2>2. PICK w : w = [late EXCEPT !.stage = "compared"]
      OBVIOUS
    <2>3. w \in Late /\ w.from = late.from /\ w.to = late.to
      BY <2>1, <2>2 DEF Late
    <2>. QED
      BY <2>1, <2>2, <2>3 DEF LateWriteCompared
  <1>2. TypeOK'
    BY <1>1 DEF Inv, TypeOK, Late, LateWriteCompared
  <1>3. DurableInv'
    BY <1>1, DurableSame DEF Inv, LateWriteCompared
  <1>4. PlaceInv'
    BY DEF Inv, LateWriteCompared, PlaceInv, SelectedInv, AttemptInv,
           PendingInv, SelectedInOrder, InTask, Completing, PendingTasks,
           Pending, DependenciesOf
  <1>. QED
    BY <1>2, <1>3, <1>4

\* It is renamed over what it was compared with, or over a later edit.
LEMMA LateWriteLandsStep == ASSUME Inv, LateWriteLands PROVE Rest'
  <1>1. /\ late \in Late /\ late # NoWrite /\ file \in Content
        /\ OneStep(late.from, late.to) /\ file' = late.to
        /\ edits = 0 => file = late.from
    BY DEF Inv, TypeOK, DurableInv, LateInv, LateWriteLands, LateHolds, Late,
           WriteInv, Compared
  <1>2. file' \in Content
    BY <1>1 DEF Late
  <1>3. edits = 0 => \A t \in Tasks :
           file.m[t] = "completed" => file'.m[t] = "completed"
    <2>1. PICK b : b = file'
      OBVIOUS
    <2>2. \A t \in Tasks : late.from.m[t] = "completed" => b.m[t] = "completed"
      BY <1>1, <2>1, StepKeepsCompleted DEF Late
    <2>. QED
      BY <1>1, <2>1, <2>2
  <1>4. late' \in {NoWrite} \cup Late /\ LateKept
    <2>1. PICK w : w = [late EXCEPT !.stage = "landed"]
      OBVIOUS
    <2>2. w \in Late /\ w.from = late.from /\ w.to = late.to
      BY <1>1, <2>1 DEF Late
    <2>. QED
      BY <1>1, <2>1, <2>2 DEF LateWriteLands
  <1>5. TypeOK'
    BY <1>2, <1>4 DEF Inv, TypeOK, Late, LateWriteLands
  <1>6. \A t \in Tasks : file'.m[t] = "completed" => t \in licensed
    BY <1>1 DEF Inv, DurableInv, LicenceInv, MayComplete
  <1>7. edits = 0 => \A t \in Tasks : file'.m[t] = "active" =>
           \A d \in DependenciesOf(t) : file.m[d] = "completed"
    BY <1>1 DEF Inv, DurableInv, StartedInOrder, MayBeActive
  <1>8. DurableInv'
    BY <1>3, <1>4, <1>6, <1>7, DurableFileMoves DEF Inv, LateWriteLands
  <1>9. PlaceInv'
    BY <1>3 DEF Inv, LateWriteLands, PlaceInv, SelectedInv, AttemptInv,
       PendingInv, SelectedInOrder, InTask, Completing, PendingTasks, Pending,
       DependenciesOf
  <1>. QED
    BY <1>5, <1>8, <1>9

\* An abandoned activateTask makes the row active under the lease of the
\* supervisor that abandoned it.
LEMMA LateActivationStep == ASSUME Inv, LateActivation PROVE Rest'
  <1>1. /\ late \in Late /\ late # NoWrite
        /\ late.task = sel /\ pc \in Leased /\ mat /\ PendingTasks = {}
    BY DEF Inv, TypeOK, Late, LateActivation, WriteInv
  <1>2. sel \in Tasks /\ rows \in [Tasks -> TypeRow] /\ late.to \in Content
    BY <1>1 DEF Inv, TypeOK, PlaceInv, SelectedInv, Late
  <1>3. rows[sel].st # "completed"
    BY <1>1 DEF LateActivation, Activatable
  <1>4. /\ rows' \in [Tasks -> TypeRow] /\ rows'[sel].st = "active"
        /\ \A x \in Tasks \ {sel} : rows'[x] = rows[x]
    <2>1. PICK c : c = late.to
      OBVIOUS
    <2>2. rows' = [rows EXCEPT ![sel].st = "active", ![sel].h = c]
      BY <1>1, <2>1 DEF LateActivation
    <2>3. "active" \in TaskStatus /\ c \in Content
      BY <1>2, <2>1 DEF TaskStatus
    <2>. QED
      BY <1>2, <2>2, <2>3, RowStatusHash
  <1>5. edits = 0 => \A d \in DependenciesOf(sel) : rows[d].st = "completed"
    BY <1>1 DEF Inv, PlaceInv, SelectedInOrder
  <1>6. TypeOK'
    BY <1>4 DEF Inv, TypeOK, LateActivation
  <1>7. DurableInv'
    <2>1. att[sel].dec = "passed" => sel \in licensed
      BY <1>2 DEF Inv, DurableInv, LicenceInv, MayComplete
    <2>2. LateKept
      BY DEF LateActivation
    <2>. QED
      BY <1>1, <1>2, <1>3, <1>4, <1>5, <2>1, <2>2, DurableTaskMoves
         DEF Inv, LateActivation
  <1>8. PlaceInv'
    <2>1. edits = 0 => \A d \in DependenciesOf(sel) : rows'[d].st = "completed"
      BY <1>3, <1>4, <1>5 DEF DependenciesOf
    <2>. QED
      BY <1>1, <2>1 DEF Inv, LateActivation, PlaceInv, SelectedInv,
         AttemptInv, PendingInv, SelectedInOrder, InTask, Completing,
         PendingTasks, Pending, DependenciesOf
  <1>. QED
    BY <1>6, <1>7, <1>8

\* Or it never lands.
LEMMA LateWriteDroppedStep == ASSUME Inv, LateWriteDropped PROVE Rest'
  <1>1. TypeOK'
    BY DEF Inv, TypeOK, LateWriteDropped
  <1>2. NothingBeforeRows' /\ PendingIsCommittable' /\ CommittedAgrees'
    BY DEF Inv, DurableInv, LateWriteDropped, NothingBeforeRows,
           PendingIsCommittable, PendingTasks, Pending, CommittedAgrees
  <1>3. LicenceInv' /\ LateInv'
    BY DEF Inv, DurableInv, LateWriteDropped, LicenceInv, MayComplete, LateInv
  <1>4. edits' = 0 => FileAhead' /\ StartedInOrder'
    BY DEF Inv, DurableInv, LateWriteDropped, FileAhead, StartedInOrder,
           MayBeActive, DependenciesOf
  <1>5. PlaceInv'
    BY DEF Inv, LateWriteDropped, PlaceInv, SelectedInv, AttemptInv,
           PendingInv, SelectedInOrder, InTask, Completing, PendingTasks,
           Pending, DependenciesOf
  <1>. QED
    BY <1>1, <1>2, <1>3, <1>4, <1>5 DEF Inv, DurableInv

\* A stop changes the status of the run, and nothing else.
LEMMA StopStep == ASSUME Inv, StopRequested \/ StopDormant PROVE Rest'
  <1>1. TypeOK'
    <2>1. run' \in RunStatus /\ pc' \in Positions
      BY DEF Inv, TypeOK, StopRequested, StopDormant, RunStatus, Positions
    <2>2. faults' \in 0..MaxFaults
      BY SMTT(30) DEF Inv, TypeOK, StopRequested, StopDormant
    <2>3. UNCHANGED <<mat, rows, att, rev, tx, disk, memory, licensed, edits>>
      BY DEF StopRequested, StopDormant
    <2>. QED
      BY <2>1, <2>2, <2>3 DEF Inv, TypeOK
  <1>2. DurableInv'
    <2>1. /\ run' = run \/ run' # "completed"
          /\ UNCHANGED <<file, late, mat, rows, att, tx, graph, licensed, edits>>
      BY DEF StopRequested, StopDormant
    <2>. QED
      BY <2>1, DurableSame DEF Inv
  <1>3. PlaceInv'
    <2>1. CASE StopRequested
      BY <2>1 DEF Inv, StopRequested, InRun, PlaceInv, SelectedInv, AttemptInv,
         PendingInv, SelectedInOrder, InTask, Completing, PendingTasks,
         Pending, DependenciesOf
    <2>2. CASE StopDormant
      BY <2>2 DEF StopDormant, PlaceInv, SelectedInv, AttemptInv, PendingInv,
         SelectedInOrder, InTask, Completing
    <2>. QED
      BY <2>1, <2>2
  <1>. QED
    BY <1>1, <1>2, <1>3 DEF Inv

\* The user changes the text or a marker; a task that is ticked is licensed.
LEMMA UserEditStep == ASSUME Inv, UserEdit PROVE Rest'
  <1>1. file \in Content /\ edits' \in 0..MaxEdits /\ edits' # 0
    <2>1. /\ file \in Content
          /\ edits \in 0..MaxEdits /\ edits < MaxEdits /\ edits' = edits + 1
      BY DEF Inv, TypeOK, UserEdit
    <2>. QED
      BY <2>1
  <1>2. /\ file' \in Content /\ licensed \subseteq licensed'
        /\ licensed' \subseteq Tasks
        /\ \A t \in Tasks : file'.m[t] = "completed" => t \in licensed'
    <2>1. \A t \in Tasks : file.m[t] = "completed" => t \in licensed
      BY DEF Inv, DurableInv, LicenceInv, MayComplete
    <2>2. CASE file' = [file EXCEPT !.e = 1 - @] /\ licensed' = licensed
      <3>1. PICK b : b = [file EXCEPT !.e = 1 - @]
        OBVIOUS
      <3>2. b \in Content /\ b.m = file.m
        BY SMTT(30), <1>1, <3>1 DEF Content
      <3>. QED
        BY <2>1, <2>2, <3>1, <3>2 DEF Inv, TypeOK
    <2>3. ASSUME NEW t \in Tasks, NEW s \in Markers,
                 file' = Mark(file, t, s),
                 licensed' = IF s = "completed" THEN licensed \cup {t}
                             ELSE licensed
          PROVE  /\ file' \in Content /\ licensed \subseteq licensed'
                 /\ licensed' \subseteq Tasks
                 /\ \A x \in Tasks : file'.m[x] = "completed" => x \in licensed'
      <3>1. /\ Mark(file, t, s) \in Content
            /\ \A x \in Tasks :
                 Mark(file, t, s).m[x] = IF x = t THEN s ELSE file.m[x]
        BY <1>1, MarkContent
      <3>2. licensed \subseteq licensed' /\ licensed' \subseteq Tasks
            /\ (s = "completed" => t \in licensed')
        BY <2>3 DEF Inv, TypeOK
      <3>. QED
        BY <2>1, <2>3, <3>1, <3>2
    <2>. QED
      BY <2>2, <2>3 DEF UserEdit
  <1>3. TypeOK'
    <2>1. edited' \in BOOLEAN
      BY DEF Inv, TypeOK, UserEdit
    <2>. QED
      BY <1>1, <1>2, <2>1 DEF Inv, TypeOK, UserEdit
  <1>4. NothingBeforeRows' /\ PendingIsCommittable' /\ CommittedAgrees'
    BY DEF Inv, DurableInv, UserEdit, NothingBeforeRows, PendingIsCommittable,
           PendingTasks, Pending, CommittedAgrees
  <1>5. LicenceInv' /\ LateInv'
    BY <1>2 DEF Inv, DurableInv, UserEdit, LicenceInv, MayComplete, LateInv,
       OneStep
  <1>6. PlaceInv'
    BY <1>1 DEF Inv, UserEdit, PlaceInv, SelectedInv, AttemptInv, PendingInv,
       InTask, Completing, PendingTasks, Pending
  <1>. QED
    BY <1>1, <1>3, <1>4, <1>5, <1>6 DEF Inv, DurableInv

-----------------------------------------------------------------------------
(* The theorems. *)

\* Every step preserves the types, the ledger and the places.
LEMMA NextRest == ASSUME Inv, [Next]_vars PROVE Rest'
  <1>1. CASE Open
    BY <1>1, OpenResumedStep, OpenNewStep DEF Open
  <1>2. CASE Reconcile
    <2>1. CASE ReconcileNothing
      BY <2>1, RecoveryStep
    <2>2. ASSUME NEW t \in Tasks, \/ ReconcileExistingMarker(t)
                                  \/ ReconcileCompareMarker(t)
                                  \/ ReconcileWritten(t)
          PROVE  Rest'
      BY <2>2, ReconcileMarkStep, ReconcileWriteStep, RecoveryStep
    <2>3. CASE ReconcileWriteMarker \/ ReconcileMarkWritten \/ ReconcileCommit
      BY <2>3, ReconcileWriteStep, ReconcileMarkStep, ReconcileCommitStep
    <2>4. CASE ReconcileConflict
      BY <2>4, ThrowStep DEF ReconcileConflict
    <2>. QED
      BY <1>2, <2>1, <2>2, <2>3, <2>4 DEF Reconcile
  <1>3. CASE Activation
    <2>1. CASE NotMaterialized \/ MarkingConflict \/ TransitionInvalid
      BY <2>1, ThrowStep DEF NotMaterialized, MarkingConflict, TransitionInvalid
    <2>2. CASE InterruptAttempts \/ NoActiveAttempt \/ InterruptTask
      BY <2>2, InterruptAttemptsStep, GoesOnStep, InterruptTaskStep
    <2>3. CASE \/ MakeEligible \/ CompareActiveMarker \/ WriteActiveMarker
               \/ KeepActiveMarker \/ ActivateTask
      BY <2>3, MakeEligibleStep, CompareStep, WriteActiveMarkerStep,
         GoesOnStep, ActivateTaskStep
    <2>. QED
      BY <1>3, <2>1, <2>2, <2>3 DEF Activation
  <1>4. CASE Attempt
    <2>1. CASE CreateAttempt \/ BudgetExhausted \/ Verify \/ Evaluate
      BY <2>1, CreateAttemptStep, GoesOnStep, VerifyStep, EvaluateStep
    <2>2. CASE \E d \in Decisions \ {"none"} : Decide(d)
      BY <2>2, DecideStep
    <2>3. CASE SettleAttempt \/ SettleTask \/ Revise
      BY <2>3, SettleAttemptStep, SettleTaskStep, ReviseStep
    <2>4. CASE \E policy \in ExhaustedPolicies : SettleRevisionExhaustion(policy)
      BY <2>4, ExhaustionStep
    <2>. QED
      BY <1>4, <2>1, <2>2, <2>3, <2>4 DEF Attempt
  <1>5. CASE Completion
    <2>1. CASE PrepareConflict \/ WritingConflict
      BY <2>1, ThrowStep DEF PrepareConflict, WritingConflict
    <2>2. CASE \/ Prepare \/ CompareCompletedMarker \/ WriteCompletedMarker
               \/ MarkCompletionMarkerWritten
      BY <2>2, PrepareStep, CompareStep, WriteCompletedMarkerStep,
         MarkCompletionMarkerWrittenStep
    <2>3. CASE CommitCompletion \/ Recompile
      BY <2>3, CommitCompletionStep, RecompileStep
    <2>. QED
      BY <1>5, <2>1, <2>2, <2>3 DEF Completion
  <1>6. CASE \/ Materialize \/ CheckParity \/ ReconcileStop \/ StartRun
    BY <1>6, MaterializeStep, RecoveryStep
  <1>7. CASE ParityConflict \/ CancelSelection
    BY <1>7, ThrowStep DEF ParityConflict, CancelSelection
  <1>8. CASE Select \/ Settle \/ AbandonTask \/ AbandonRun \/ CancelDormant
    BY <1>8, SelectStep, SettleStep, AbandonTaskStep, FaultStep
  <1>9. CASE Supervisor
    BY <1>2, <1>3, <1>4, <1>5, <1>6, <1>7, <1>8, <1>9 DEF Supervisor
  <1>10. CASE Environment
    <2>1. CASE Abandon \/ UserEdit
      BY <2>1, AbandonStep, UserEditStep
    <2>4. CASE \/ LateWriteCompared \/ LateWriteLands \/ LateWriteDropped
               \/ LateActivation
      BY <2>4, LateWriteComparedStep, LateWriteLandsStep,
         LateWriteDroppedStep, LateActivationStep
    <2>2. CASE StopRequested \/ StopDormant
      BY <2>2, StopStep
    <2>3. CASE OperationalError \/ EvidenceIntegrityError \/ Crash
      BY <2>3, FaultStep
    <2>. QED
      BY <1>10, <2>1, <2>2, <2>3, <2>4 DEF Environment
  <1>11. CASE UNCHANGED vars
    <2>1. TypeOK'
      BY <1>11 DEF Inv, TypeOK, vars
    <2>2. DurableInv'
      BY <1>11, DurableSame DEF Inv, vars
    <2>3. PlaceInv'
      BY <1>11 DEF Inv, vars, PlaceInv, SelectedInv, AttemptInv, PendingInv,
         SelectedInOrder, InTask, Completing, PendingTasks, Pending,
         DependenciesOf
    <2>. QED
      BY <2>1, <2>2, <2>3 DEF Inv
  <1>. QED
    BY <1>1, <1>9, <1>10, <1>11 DEF Next

\* Most steps leave the file, the late write and the edits alone, and begin
\* no rename.
LEMMA WriteSame ==
  ASSUME WriteInv, pc \notin Leased, pc' \notin Renaming,
         UNCHANGED <<file, late, edited, edits>>
  PROVE  WriteInv'
  BY DEF WriteInv, Renaming, LateHolds, Compared

\* A supervisor that goes down takes its activation with it.
LEMMA WriteDown ==
  ASSUME Inv, pc' = "down", late' = LateUnleased,
         UNCHANGED <<file, edited, edits>>
  PROVE  WriteInv'
  <1>1. CASE late' = NoWrite
    BY <1>1 DEF Inv, WriteInv, Renaming, LateHolds
  <1>2. CASE /\ late # NoWrite /\ late.stage # "landed"
             /\ late' = [late EXCEPT !.task = NoTask]
    <2>1. PICK w : w = [late EXCEPT !.task = NoTask]
      OBVIOUS
    <2>2. late \in Late
      BY <1>2 DEF Inv, TypeOK, Late
    <2>3. /\ w.task = NoTask /\ w.stage = late.stage /\ w.from = late.from
      BY <2>1, <2>2 DEF Late
    <2>4. LateHolds' => LateHolds
      BY <1>2, <2>1, <2>3 DEF LateHolds
    <2>. QED
      BY <1>2, <2>1, <2>3, <2>4 DEF Inv, WriteInv, Renaming, LateHolds,
         Compared
  <1>. QED
    BY <1>1, <1>2 DEF LateUnleased

\* A comparison finds the file as it was compiled.
LEMMA WriteCompares ==
  ASSUME Inv, Compare, pc \notin Leased, pc' \in Renaming,
         UNCHANGED <<file, late, graph, edits>>
  PROVE  WriteInv'
  BY DEF Inv, WriteInv, Compare, MarkerConflict, Renaming, LateHolds, Compared

\* A rename ends.
LEMMA WriteRenames ==
  ASSUME Inv, pc \in Renaming, pc' \notin Renaming,
         UNCHANGED <<late, edited, edits>>
  PROVE  WriteInv'
  BY DEF Inv, WriteInv, Renaming, LateHolds, Compared

\* A task is abandoned, perhaps with a write on its way.
LEMMA WriteAbandoned == ASSUME Inv, Abandon PROVE WriteInv'
  <1>1. /\ pc \in Abandonable /\ pc \notin Leased /\ pc' = "abandoned"
        /\ UNCHANGED <<file, edited, sel, mat, tx, edits, graph>>
    BY DEF Abandon, Abandonable
  <1>2. CASE late' = late
    BY <1>1, <1>2, WriteSame DEF Inv, Renaming
  <1>3. CASE late' \in AbandonedWrites
    <2>1. PICK w : w = late'
      OBVIOUS
    <2>2. /\ w.from = graph
          /\ w.stage = "compared" => pc \in Renaming
          /\ w.stage = "landed" => w.task # NoTask
          /\ w.task # NoTask => w.task = sel /\ mat /\ PendingTasks = {}
      BY <1>1, <1>3, <2>1, AbandonedWriteIsOneStep
    <2>3. w.stage = "compared" /\ ~edited => file = w.from
      BY <2>2, RenamedIsCompared
    <2>4. PendingTasks' = PendingTasks
      BY <1>1 DEF PendingTasks, Pending
    <2>. QED
      BY <1>1, <2>1, <2>2, <2>3, <2>4 DEF Inv, WriteInv, Renaming, LateHolds,
         Compared
  <1>. QED
    BY <1>2, <1>3 DEF Abandon

\* The late write itself.
LEMMA WriteLate ==
  ASSUME Inv, \/ LateWriteCompared \/ LateWriteLands \/ LateWriteDropped
              \/ LateActivation
  PROVE  WriteInv'
  <1>1. CASE LateWriteCompared
    <2>1. PICK w : w = [late EXCEPT !.stage = "compared"]
      OBVIOUS
    <2>2. late \in Late
      BY <1>1 DEF Inv, TypeOK, Late, LateWriteCompared
    <2>3. w.task = late.task /\ w.stage = "compared" /\ w.from = late.from
      BY <2>1, <2>2 DEF Late
    <2>4. /\ late # NoWrite /\ pc \notin Renaming /\ file = late.from
          /\ late' = w /\ edited' = FALSE
          /\ UNCHANGED <<ledger, file, pc, memory, bounds>>
      BY <1>1, <2>1 DEF LateWriteCompared
    <2>5. PendingTasks' = PendingTasks
      BY <2>4 DEF PendingTasks, Pending
    <2>. QED
      BY <2>3, <2>4, <2>5 DEF Inv, WriteInv, Renaming, LateHolds, Compared
  <1>2. CASE LateWriteLands
    <2>1. PICK w : w = [late EXCEPT !.stage = "landed"]
      OBVIOUS
    <2>2. late \in Late /\ late # NoWrite
      BY <1>2 DEF Inv, TypeOK, Late, LateWriteLands, LateHolds
    <2>3. w.task = late.task /\ w.stage = "landed"
      BY <2>1, <2>2 DEF Late
    <2>4. /\ pc \notin Renaming
          /\ (late' = w /\ late.task # NoTask) \/ late' = NoWrite
          /\ UNCHANGED <<ledger, edited, pc, memory, bounds>>
      BY <1>2, <2>1 DEF LateWriteLands, Inv, WriteInv
    <2>5. PendingTasks' = PendingTasks
      BY <2>4 DEF PendingTasks, Pending
    <2>. QED
      BY <2>2, <2>3, <2>4, <2>5 DEF Inv, WriteInv, Renaming, LateHolds, Compared
  <1>3. CASE LateWriteDropped
    BY <1>3 DEF LateWriteDropped, Inv, WriteInv, Renaming, LateHolds, Compared
  <1>4. CASE LateActivation
    BY <1>4 DEF LateActivation, Inv, WriteInv, Renaming, LateHolds, Compared
  <1>. QED
    BY <1>1, <1>2, <1>3, <1>4

\* A stop, an edit and the interruption of an abandoned task go on beside it.
LEMMA WriteBeside ==
  ASSUME Inv, StopRequested \/ UserEdit \/ AbandonTask \/ UNCHANGED vars
  PROVE  WriteInv'
  <1>1. CASE UserEdit
    <2>1. /\ edits' # 0 /\ UNCHANGED <<late, ledger, pc, memory>>
          /\ edited' = (edited \/ pc \in Renaming \/ LateHolds)
      BY <1>1 DEF UserEdit, Inv, TypeOK
    <2>2. PendingTasks' = PendingTasks
      BY <2>1 DEF PendingTasks, Pending
    <2>. QED
      BY <2>1, <2>2 DEF Inv, WriteInv, Renaming, LateHolds
  <1>2. CASE StopRequested \/ AbandonTask \/ UNCHANGED vars
    <2>1. /\ UNCHANGED <<late, tx, mat, sel, file, edited, graph, edits>>
          /\ \/ pc' = pc
             \/ pc \in Leased /\ pc' \in Leased
      BY <1>2 DEF StopRequested, AbandonTask, vars
    <2>2. PendingTasks' = PendingTasks
      BY <2>1 DEF PendingTasks, Pending
    <2>. QED
      BY <2>1, <2>2 DEF Inv, WriteInv, Renaming, LateHolds, Compared
  <1>. QED
    BY <1>1, <1>2

\* Every step keeps what a write past its comparison relies on.
LEMMA NextWrite == ASSUME Inv, [Next]_vars PROVE WriteInv'
  <1>. USE DEF Renaming
  <1>1. ASSUME Throw, pc \notin Leased PROVE WriteInv'
    BY <1>1, WriteSame DEF Inv, Throw, Down
  <1>2. CASE Open
    BY <1>2, WriteSame DEF Inv, Open, OpenResumed, OpenNew
  <1>3. CASE Reconcile
    <2>1. ASSUME NEW t \in Tasks, ReconcileCompareMarker(t) PROVE WriteInv'
      BY <2>1, WriteCompares DEF ReconcileCompareMarker
    <2>2. CASE ReconcileWriteMarker
      BY <2>2, WriteRenames DEF ReconcileWriteMarker
    <2>3. CASE ReconcileConflict
      BY <1>1, <2>3 DEF ReconcileConflict
    <2>4. ASSUME NEW t \in Tasks,
                 ReconcileExistingMarker(t) \/ ReconcileWritten(t)
          PROVE  WriteInv'
      BY <2>4, WriteSame DEF Inv, ReconcileExistingMarker, ReconcileWritten
    <2>5. CASE ReconcileNothing \/ ReconcileMarkWritten \/ ReconcileCommit
      BY <2>5, WriteSame DEF Inv, ReconcileNothing, ReconcileMarkWritten,
         ReconcileCommit
    <2>. QED
      BY <1>3, <2>1, <2>2, <2>3, <2>4, <2>5 DEF Reconcile
  <1>4. CASE Activation
    <2>1. CASE CompareActiveMarker
      BY <2>1, WriteCompares DEF CompareActiveMarker
    <2>2. CASE WriteActiveMarker
      BY <2>2, WriteRenames DEF WriteActiveMarker
    <2>3. CASE NotMaterialized \/ MarkingConflict \/ TransitionInvalid
      BY <1>1, <2>3 DEF NotMaterialized, MarkingConflict, TransitionInvalid
    <2>4. CASE \/ InterruptAttempts \/ NoActiveAttempt \/ InterruptTask
               \/ MakeEligible \/ KeepActiveMarker \/ ActivateTask
      BY <2>4, WriteSame DEF Inv, InterruptAttempts, NoActiveAttempt,
         InterruptTask, MakeEligible, KeepActiveMarker, ActivateTask
    <2>. QED
      BY <1>4, <2>1, <2>2, <2>3, <2>4 DEF Activation
  <1>5. CASE Attempt
    <2>1. /\ pc \notin Leased /\ pc' \notin Renaming
          /\ UNCHANGED <<file, late, edited, edits>>
      BY <1>5 DEF Attempt, CreateAttempt, BudgetExhausted, Verify, Evaluate,
         Decide, SettleAttempt, SettleTask, Result, Revise,
         SettleRevisionExhaustion
    <2>. QED
      BY <2>1, WriteSame DEF Inv
  <1>6. CASE Completion
    <2>1. CASE CompareCompletedMarker
      BY <2>1, WriteCompares DEF CompareCompletedMarker
    <2>2. CASE WriteCompletedMarker
      BY <2>2, WriteRenames DEF WriteCompletedMarker
    <2>3. CASE PrepareConflict \/ WritingConflict
      BY <1>1, <2>3 DEF PrepareConflict, WritingConflict
    <2>4. CASE \/ Prepare \/ MarkCompletionMarkerWritten \/ CommitCompletion
               \/ Recompile
      BY <2>4, WriteSame DEF Inv, Prepare, MarkCompletionMarkerWritten,
         CommitCompletion, Recompile
    <2>. QED
      BY <1>6, <2>1, <2>2, <2>3, <2>4 DEF Completion
  <1>7. CASE Materialize \/ CheckParity \/ ReconcileStop \/ StartRun \/ Select
    BY <1>7, WriteSame DEF Inv, Materialize, CheckParity, ReconcileStop,
       StartRun, Select
  <1>8. CASE \/ ParityConflict \/ CancelSelection \/ Settle \/ CancelDormant
             \/ OperationalError \/ EvidenceIntegrityError \/ StopDormant
    <2>1. CASE ParityConflict \/ CancelSelection
      BY <1>1, <2>1 DEF ParityConflict, CancelSelection
    <2>2. CASE \/ Settle \/ CancelDormant \/ OperationalError
               \/ EvidenceIntegrityError \/ StopDormant
      BY <2>2, WriteSame DEF Inv, Settle, CancelDormant, OperationalError,
         EvidenceIntegrityError, StopDormant, Down, Preparing, InTask
    <2>. QED
      BY <1>8, <2>1, <2>2
  <1>9. CASE AbandonRun \/ Crash
    BY <1>9, WriteDown DEF AbandonRun, Crash, Down
  <1>10. CASE Supervisor
    BY <1>3, <1>4, <1>5, <1>6, <1>7, <1>8, <1>9, <1>10, WriteBeside
       DEF Supervisor
  <1>11. CASE Environment
    BY <1>8, <1>9, <1>11, WriteAbandoned, WriteLate, WriteBeside
       DEF Environment
  <1>. QED
    BY <1>2, <1>10, <1>11, WriteBeside DEF Next

\* The inductive invariant holds in every state of every execution.
THEOREM Invariance == Spec => []Inv
  <1>1. Init => Inv
    BY InitInv
  <1>2. Inv /\ [Next]_vars => Inv'
    BY NextRest, NextWrite DEF Inv
  <1>. QED
    BY <1>1, <1>2, PTL DEF Spec

\* The variables of the supervisor, the ledger and the file keep their types;
\* in particular the revisions of a task stay within maxRevisionAttempts.
THEOREM TypeCorrect == Spec => []TypeOK
  <1>1. Inv => TypeOK
    BY DEF Inv
  <1>. QED
    BY <1>1, Invariance, PTL

\* reconcileCompletions leaves nothing pending for the selection loop: no task
\* is selected, activated or attempted over a completion that is half done.
THEOREM ReconciledBeforeSelection == Spec => []NoSelectionWhilePending
  <1>1. Inv => NoSelectionWhilePending
    BY DEF Inv, PlaceInv, PendingInv, NoSelectionWhilePending, Completing
  <1>. QED
    BY <1>1, Invariance, PTL

\* The ledger never comes to refuse a completion it has prepared: whatever
\* supervisors do after prepareCompletion, hash, decision and attempt stand.
THEOREM PreparedStaysCommittable == Spec => []PendingIsCommittable
  <1>1. Inv => PendingIsCommittable
    BY DEF Inv, DurableInv
  <1>. QED
    BY <1>1, Invariance, PTL

\* No crash, late write, cancelled run or new run turns a task into a
\* completed one that no decision approved and the user did not tick.
THEOREM CompletionsAreLicensed == Spec => []CompletedIsLicensed
  <1>1. Inv => CompletedIsLicensed
    BY DEF Inv, DurableInv, LicenceInv, MayComplete, CompletedIsLicensed
  <1>. QED
    BY <1>1, Invariance, PTL

\* commitCompletion leaves row, attempt and transaction in step, and nobody
\* moves one of them afterwards.
THEOREM CommitsAgree == Spec => []CommittedAgrees
  <1>1. Inv => CommittedAgrees
    BY DEF Inv, DurableInv
  <1>. QED
    BY <1>1, Invariance, PTL

\* An attempt is created only when the last one is settled, and work is done
\* on a task only with its dependencies completed, the user's edits aside.
THEOREM AttemptsFollowTheGraph == Spec => []AttemptsAreOrdered
  <1>1. ASSUME Inv PROVE AttemptsAreOrdered
    <2>1. At("attempt") => att[sel].st # "active"
      BY <1>1 DEF Inv, PlaceInv, AttemptInv
    <2>2. edits = 0 /\ pc \in InTask /\ mat =>
            \A d \in Tasks : <<sel, d>> \in Deps => Completed(rows[d].st)
      BY <1>1 DEF Inv, PlaceInv, SelectedInOrder, DependenciesOf, Completed
    <2>. QED
      BY <2>1, <2>2 DEF AttemptsAreOrdered
  <1>. QED
    BY <1>1, Invariance, PTL

\* A step that changes the file without the user is the rename of a marker
\* that moved one step from what the file was compared with.
LEMMA FileStep ==
  ASSUME Inv, Next, file' # file, edits' = edits
  PROVE  /\ OneStep(Compared, file')
         /\ ~edited => file = Compared
  <1>. DEFINE Goal == /\ OneStep(Compared, file')
                      /\ ~edited => file = Compared
  <1>1. ASSUME pc \in Renaming, OneStep(graph, file') PROVE Goal
    <2>1. Compared = graph
      BY <1>1 DEF Compared
    <2>. QED
      BY <1>1, <2>1, RenamedIsCompared
  <1>2. CASE WriteActiveMarker
    <2>1. /\ sel \in Tasks /\ graph.m[sel] = "pending" /\ pc \in Renaming
          /\ file' = Mark(graph, sel, "active")
      BY <1>2 DEF WriteActiveMarker, Inv, PlaceInv, SelectedInv, AttemptInv,
                  InTask, Renaming
    <2>. QED
      BY <1>1, <2>1 DEF OneStep
  <1>3. CASE WriteCompletedMarker \/ ReconcileWriteMarker
    <2>1. /\ sel \in Tasks /\ graph.m[sel] = "active" /\ pc \in Renaming
          /\ file' = Mark(graph, sel, "completed")
      BY <1>3 DEF WriteCompletedMarker, ReconcileWriteMarker, Inv, PlaceInv,
                  SelectedInv, AttemptInv, InTask, Renaming
    <2>. QED
      BY <1>1, <2>1 DEF OneStep
  <1>4. CASE LateWriteLands
    <2>1. Compared = late.from /\ LateHolds
      BY <1>4 DEF LateWriteLands, LateHolds, Inv, WriteInv, Compared
    <2>2. OneStep(late.from, late.to) /\ file' = late.to
      BY <1>4 DEF LateWriteLands, LateHolds, Inv, DurableInv, LateInv
    <2>. QED
      BY <2>1, <2>2 DEF Inv, WriteInv
  <1>5. ~UserEdit
    <2>1. edits \in 0..MaxEdits
      BY DEF Inv, TypeOK
    <2>2. UserEdit => edits' = edits + 1
      BY DEF UserEdit
    <2>. QED
      BY <2>1, <2>2
  <1>6. ~Open
    BY DEF Open, OpenResumed, OpenNew
  <1>. HIDE DEF Goal
  <1>7. CASE Reconcile
    BY <1>3, <1>7 DEF Reconcile, ReconcileNothing, ReconcileExistingMarker,
       ReconcileCompareMarker, ReconcileWritten, ReconcileMarkWritten,
       ReconcileCommit, ReconcileConflict, Throw
  <1>8. CASE Activation
    BY <1>2, <1>8 DEF Activation, InterruptAttempts, NoActiveAttempt,
       InterruptTask, NotMaterialized, MakeEligible, CompareActiveMarker,
       KeepActiveMarker, MarkingConflict, ActivateTask, TransitionInvalid,
       Throw
  <1>9. ~Attempt
    BY DEF Attempt, CreateAttempt, BudgetExhausted, Verify, Evaluate, Decide,
           SettleAttempt, SettleTask, Revise, SettleRevisionExhaustion
  <1>10. CASE Completion
    BY <1>3, <1>10 DEF Completion, Prepare, PrepareConflict,
       CompareCompletedMarker, WritingConflict, MarkCompletionMarkerWritten,
       CommitCompletion, Recompile, Throw
  <1>11. CASE Supervisor
    BY <1>7, <1>8, <1>9, <1>10, <1>11 DEF Supervisor, Materialize,
       CheckParity, ParityConflict, ReconcileStop, StartRun, Select, Settle,
       CancelSelection, AbandonTask, AbandonRun, CancelDormant, Throw
  <1>12. CASE Environment
    BY <1>4, <1>5, <1>12 DEF Environment, Abandon, LateWriteCompared,
       LateWriteDropped, LateActivation, StopRequested, OperationalError,
       EvidenceIntegrityError, Crash, StopDormant
  <1>. QED
    BY <1>6, <1>11, <1>12 DEF Next, Goal

\* updateTaskMarker only ever moves one marker of the content it compared the
\* file with, and writes over nothing else unless the user saved the file
\* between the comparison and the rename, also when its caller has given up.
THEOREM MarkersOnlyAdvance == Spec => MarkersAdvance
  <1>1. Inv /\ [Next]_vars =>
          [file' # file /\ edits' = edits =>
              /\ OneStep(Compared, file')
              /\ ~edited => file = Compared]_vars
    BY FileStep DEF vars
  <1>. QED
    BY <1>1, Invariance, PTL DEF Spec, MarkersAdvance
=============================================================================
