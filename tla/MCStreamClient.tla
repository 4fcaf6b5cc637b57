---------------------------- MODULE MCStreamClient ----------------------------
(* Instances of StreamClient for TLC. *)
EXTENDS StreamClient

CONSTANTS p1, p2, p3, g1, g2, r1, r2, r3

\* Every POST asks for a run of its own.
OwnRuns == [p \in Posts |-> CASE p = p1 -> r1 [] p = p2 -> r2 [] OTHER -> r3]

\* All POSTs ask for the same run.
OneRun == [p \in Posts |-> r1]
=============================================================================
