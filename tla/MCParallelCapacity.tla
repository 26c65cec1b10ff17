------------------------- MODULE MCParallelCapacity -------------------------
\* Two tasks: t1 on a provider without a limit, t2 on one with a limit.  The
\* two projects allow different numbers of workers on the machine.
EXTENDS ParallelCapacity
CONSTANTS a1, b1, t1, t2, projectA, projectB, free, limited, m

MCProject == [p \in Procs |-> IF p = b1 THEN projectB ELSE projectA]
MCTasks == {t1, t2}
MCGraphOrder == [t \in Tasks |-> IF t = t1 THEN 0 ELSE 1]
MCProvider == [t \in Tasks |-> IF t = t1 THEN free ELSE limited]
MCModel == [t \in Tasks |-> m]
MCMaxGlobal == [p \in Procs |-> IF p = b1 THEN 1 ELSE 2]
MCMaxProject == [p \in Procs |-> 2]
MCMaxByProvider == [p \in Procs |-> [q \in {limited} |-> 1]]
MCUnlimited == [p \in Procs |-> [q \in {} |-> 1]]
=============================================================================
