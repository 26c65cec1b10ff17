----------------------------- MODULE WriterLock -----------------------------
(***************************************************************************)
(* What acquireExecutionLock promises to the rest of Ralph, without lease  *)
(* rows, clocks, probes or files: a lock that an invocation gets once,     *)
(* that a living one loses only by giving it back, and that passes on      *)
(* from a dead one.  WriterLease implements it.                            *)
(***************************************************************************)
CONSTANT Procs

VARIABLES
  writers,   \* who has the lock, dead or alive
  dead,      \* invocations that were killed
  past       \* invocations that have had the lock

lockVars == <<writers, dead, past>>

Init ==
  /\ writers = {}
  /\ dead = {}
  /\ past = {}

Acquire(p) ==
  /\ p \notin dead \cup past
  /\ writers \subseteq dead
  /\ writers' = {p}
  /\ past' = past \cup {p}
  /\ UNCHANGED dead

Release(p) ==
  /\ p \in writers \ dead
  /\ writers' = writers \ {p}
  /\ UNCHANGED <<dead, past>>

Die(p) ==
  /\ p \notin dead
  /\ dead' = dead \cup {p}
  /\ UNCHANGED <<writers, past>>

Next == \E p \in Procs : Acquire(p) \/ Release(p) \/ Die(p)

Spec == Init /\ [][Next]_lockVars
=============================================================================
