--------------------------- MODULE MCRunExecution ---------------------------
(* Two tasks, the second depending on the first. *)
EXTENDS RunExecution

CONSTANTS t1, t2

MCTasks == {t1, t2}
MCOrder == <<t1, t2>>
MCDeps == {<<t2, t1>>}
=============================================================================
