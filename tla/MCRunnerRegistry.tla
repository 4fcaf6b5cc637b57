--------------------------- MODULE MCRunnerRegistry ---------------------------
(* Instances of RunnerRegistry for TLC. *)
EXTENDS RunnerRegistry, TLC

CONSTANTS s1, s2, p1, p2, p3

\* All POSTs are for one session: every race of the module is a race in a session.
OneSession == [p \in Posts |-> s1]

\* POSTs, with their runners, locks and runs, are interchangeable.
Symmetry == Permutations(Posts)
=============================================================================
