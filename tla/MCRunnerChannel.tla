---------------------------- MODULE MCRunnerChannel ----------------------------
(* Instances of RunnerChannel for TLC. *)
EXTENDS RunnerChannel

CONSTANTS p1, p2, r1, r2

OwnRuns == [p \in Posts |-> IF p = p1 THEN r1 ELSE r2]
TwoPrompts == <<p1, p2>>

\* One frame of the second execution is too big, and the server may reject one of
\* the first.
BigFrames == {<<p2, 1>>}
BadFrames == {<<p1, 1>>}
=============================================================================
