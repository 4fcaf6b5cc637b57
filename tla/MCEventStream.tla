---------------------------- MODULE MCEventStream ----------------------------
(* The instance of EventStream for TLC. *)
EXTENDS EventStream, TLC

CONSTANTS p1, p2, g1, r1

\* All POSTs ask for the same run.
OneRun == [p \in Posts |-> r1]

Symmetry == Permutations(Posts)
=============================================================================
