---------------------------- MODULE DeliveredStream ----------------------------
(***************************************************************************)
(* What a reader of a run is promised: the events of a run appear in its   *)
(* view in the order the run produced them, each of them once, and all of  *)
(* them in the end.                                                        *)
(***************************************************************************)
EXTENDS Naturals, Sequences

CONSTANTS Runs, Events

VARIABLES log, view

Init == log = [r \in Runs |-> <<>>] /\ view = [r \in Runs |-> <<>>]

Produce(r) ==
    /\ \E e \in Events : log' = [log EXCEPT ![r] = Append(@, e)]
    /\ UNCHANGED view

Show(r) ==
    /\ Len(view[r]) < Len(log[r])
    /\ view' = [view EXCEPT ![r] = Append(@, log[r][Len(@) + 1])]
    /\ UNCHANGED log

Next == \E r \in Runs : Produce(r) \/ Show(r)

Spec == Init /\ [][Next]_<<log, view>> /\ \A r \in Runs : WF_<<log, view>>(Show(r))
=============================================================================
