------------------------------- MODULE MCToolGate -------------------------------
(* Instances of ToolGate for TLC. *)
EXTENDS ToolGate, TLC

CONSTANTS t1, t2

\* An outcome of the policy each, and one that depends on the stat.
ThreeShapes ==
    {[tool |-> "plain", bounded |-> FALSE, large |-> FALSE],
     [tool |-> "file_read", bounded |-> FALSE, large |-> TRUE],
     [tool |-> "read_project_file", bounded |-> FALSE, large |-> TRUE]}
=============================================================================
