--------------------------- MODULE MCWriterLease ---------------------------
(* Model values for WriterLease: two invocations on one machine and, when    *)
(* there is a third, one on another machine that cannot be probed.           *)
EXTENDS WriterLease, TLC

CONSTANTS p1, p2, p3

LocalHost == [p \in {p1, p2} |-> "a"]
TwoHosts == [p \in {p1, p2, p3} |-> IF p = p3 THEN "b" ELSE "a"]
LocalSymmetry == Permutations({p1, p2})
=============================================================================
