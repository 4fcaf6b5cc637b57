---------------------------- MODULE MCSessionInbox ----------------------------
(* Instances of SessionInbox for TLC. *)
EXTENDS SessionInbox

CONSTANTS p1, p2, c1, c2
=============================================================================
