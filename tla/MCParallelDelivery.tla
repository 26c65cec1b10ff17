------------------------ MODULE MCParallelDelivery ------------------------
\* Independent tasks t1 and t2; t2 is verified on the target.
EXTENDS ParallelDelivery
CONSTANTS t1, t2

MCOrder == <<t1, t2>>
MCDeps == [t \in {t1, t2} |-> {}]
=============================================================================
