-------------------------------- MODULE Ingress --------------------------------
(***************************************************************************)
(* The backend's half of the runner's channel: _dispatch_frame             *)
(* (src/src/api/internal.py) decides to which run a frame belongs and      *)
(* appends it to the ring of that run (execution_registry.py).  Which      *)
(* frames arrive, and in which order, is up to the modules that extend     *)
(* this one.                                                               *)
(*                                                                         *)
(* The execution of the prompt of a POST p is the frames <<p, 0>>          *)
(* (RUN_STARTED), ..., <<p, Last>> (RUN_FINISHED or RUN_ERROR); only these *)
(* two carry the run id.  Nothing on the way from a frame to the ring and  *)
(* the bus suspends, so the handling of one frame is one step.             *)
(***************************************************************************)
EXTENDS Integers, Sequences

CONSTANTS
    Posts,      \* POST /stream requests
    Runs,       \* run ids
    RunOf,      \* the run id in the body of a POST
    None,       \* no run, no request
    Last,       \* the number of the terminal frame of an execution
    PendingCap  \* _PRE_RUN_BUFFER_CAP

ASSUME RoutingAssumption ==
    /\ RunOf \in [Posts -> Runs]
    /\ None \notin Posts /\ None \notin Runs
    /\ Last \in Nat \ {0} /\ PendingCap \in Nat

VARIABLES
    active,     \* active_run_by_session of the session
    pending,    \* pending_pre_run_started of the session
    events      \* all that was appended to the ring of a run; an entry's index is seq + 1

ingressVars == <<active, pending, events>>

InitIngress ==
    /\ active = None
    /\ pending = <<>>
    /\ events = [r \in Runs |-> <<>>]

\* _stamp_seq_and_publish, as far as the ring goes, for each of the frames.
Stamp(r, frames) == events' = [events EXCEPT ![r] = @ \o frames]

\* Mutant: setdefault keeps the run that is active already.
StartedArrivesSetDefault(p) ==
    /\ active' = IF active = None THEN RunOf[p] ELSE active
    /\ Stamp(RunOf[p], <<<<p, 0>>>> \o pending)
    /\ pending' = <<>>

\* The frames parked before the run come after its RUN_STARTED.
StartedArrives(p) ==
    /\ active' = RunOf[p]
    /\ Stamp(RunOf[p], <<<<p, 0>>>> \o pending)
    /\ pending' = <<>>

\* The active run is cleared only if it is the run that ended.
EndedArrives(p, frame) ==
    /\ active' = IF active = RunOf[p] THEN None ELSE active
    /\ Stamp(RunOf[p], <<frame>>)
    /\ UNCHANGED pending

\* Any other frame goes to the active run of the session.
GoesToActive(frame) ==
    /\ active # None
    /\ Stamp(active, <<frame>>)
    /\ UNCHANGED <<active, pending>>

\* With no active run it waits for the next RUN_STARTED, or is dropped.
Waits(frame) ==
    /\ active = None
    /\ pending' = IF Len(pending) < PendingCap THEN Append(pending, frame) ELSE pending
    /\ UNCHANGED <<active, events>>
=============================================================================
