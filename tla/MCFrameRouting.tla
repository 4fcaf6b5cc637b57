---------------------------- MODULE MCFrameRouting ----------------------------
(* Instances of FrameRouting for TLC. *)
EXTENDS FrameRouting, TLC

CONSTANTS p1, p2, p3, r1, r2, r3

\* Every POST asks for a run of its own.
OwnRuns == [p \in Posts |-> CASE p = p1 -> r1 [] p = p2 -> r2 [] OTHER -> r3]

\* POSTs are interchangeable if the runs they ask for change places with them.
Asking(r) == CHOOSE p \in Posts : RunOf[p] = r
Swap(f) == [x \in Posts \cup Runs |-> IF x \in Posts THEN f[x] ELSE RunOf[f[Asking(x)]]]
Symmetry == {Swap(f) : f \in Permutations(Posts)}
=============================================================================
