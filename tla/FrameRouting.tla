----------------------------- MODULE FrameRouting -----------------------------
(***************************************************************************)
(* The frames of a session as its runners emit them, dispatched in that    *)
(* order by the ingress (module Ingress).                                  *)
(*                                                                         *)
(* One POST is one member of Posts.  The runner executes the prompts it    *)
(* finds in the inbox, one at a time; two runners of one session, which    *)
(* the registry can start, overlap.  Module RunnerChannel has the          *)
(* connection that the frames travel on.                                   *)
(***************************************************************************)
EXTENDS Ingress

CONSTANT Overlap    \* may two executions emit at the same time (two runners)?

ASSUME OverlapAssumption == Overlap \in BOOLEAN

VARIABLES
    inbox,      \* the prompts committed to the PGMQ queue, in order
    emitted,    \* how many frames of a prompt's execution were dispatched
    latest      \* history: the prompt whose RUN_STARTED was dispatched last

routingVars == <<inbox, emitted, latest, active, pending, events>>

Frames == Posts \X (0..Last)

RoutingTypeOK ==
    /\ inbox \in Seq(Posts)
    /\ emitted \in [Posts -> 0..Last + 1]
    /\ latest \in Posts \cup {None}
    /\ active \in Runs \cup {None}
    /\ pending \in Seq(Frames) /\ Len(pending) <= PendingCap
    /\ events \in [Runs -> Seq(Frames)]

InitRouting ==
    /\ inbox = <<>>
    /\ emitted = [p \in Posts |-> 0]
    /\ latest = None
    /\ InitIngress

-----------------------------------------------------------------------------

\* send_user_message is committed.
Queued(p) ==
    /\ \A i \in DOMAIN inbox : inbox[i] # p
    /\ inbox' = Append(inbox, p)
    /\ UNCHANGED <<emitted, latest, active, pending, events>>

\* The runner takes one prompt at a time, in queue order.
Emits(p) ==
    \E i \in DOMAIN inbox :
        /\ inbox[i] = p
        /\ emitted[p] <= Last
        /\ Overlap \/ \A j \in 1..i - 1 : emitted[inbox[j]] = Last + 1
        /\ emitted' = [emitted EXCEPT ![p] = @ + 1]
        /\ UNCHANGED inbox

\* Mutant: the parked frames are flushed before RUN_STARTED is published.
RunStartedAfterParked(p) ==
    /\ Emits(p)
    /\ emitted[p] = 0
    /\ active' = RunOf[p]
    /\ latest' = p
    /\ Stamp(RunOf[p], Append(pending, <<p, 0>>))
    /\ pending' = <<>>

\* Mutant: the buffer is read with get instead of pop.
RunStartedKeepsParked(p) ==
    /\ Emits(p)
    /\ emitted[p] = 0
    /\ active' = RunOf[p]
    /\ latest' = p
    /\ Stamp(RunOf[p], <<<<p, 0>>>> \o pending)
    /\ UNCHANGED pending

\* RUN_STARTED makes the run active and releases the parked frames.
RunStarted(p) ==
    /\ Emits(p)
    /\ emitted[p] = 0
    /\ latest' = p
    /\ StartedArrives(p)

\* Mutant: the active run is cleared without the comparison.
RunEndedClearsAny(p) ==
    /\ Emits(p)
    /\ emitted[p] = Last
    /\ active' = None
    /\ Stamp(RunOf[p], <<<<p, Last>>>>)
    /\ UNCHANGED <<latest, pending>>

\* The terminal frame, which carries the run id like the first one.
RunEnded(p) ==
    /\ Emits(p)
    /\ emitted[p] = Last
    /\ EndedArrives(p, <<p, Last>>)
    /\ UNCHANGED latest

\* Any other frame, while a run of the session is active.
Routed(p) ==
    /\ Emits(p)
    /\ emitted[p] \in 1..Last - 1
    /\ GoesToActive(<<p, emitted[p]>>)
    /\ UNCHANGED latest

\* Mutant: the buffer has no bound.
ParkedUnbounded(p) ==
    /\ Emits(p)
    /\ emitted[p] \in 1..Last - 1
    /\ active = None
    /\ pending' = Append(pending, <<p, emitted[p]>>)
    /\ UNCHANGED <<latest, active, events>>

\* Any other frame, while none is.
Parked(p) ==
    /\ Emits(p)
    /\ emitted[p] \in 1..Last - 1
    /\ Waits(<<p, emitted[p]>>)
    /\ UNCHANGED latest

Dispatch(p) == RunStarted(p) \/ RunEnded(p) \/ Routed(p) \/ Parked(p)

NextRouting == \E p \in Posts : Queued(p) \/ Dispatch(p)

RoutingSpec == InitRouting /\ [][NextRouting]_routingVars

-----------------------------------------------------------------------------
(* Properties. *)

\* A frame of the run that started last is published under that run, whatever
\* late frames of other runs arrive in between (_dispatch_frame: "A late
\* RUN_FINISHED(rA) racing a fresh RUN_STARTED(rB) ... must NOT wipe B's mapping").
LatestRunKeepsItsTopic ==
    [][\A p \in Posts : latest = p /\ emitted'[p] # emitted[p] =>
            events'[RunOf[p]] = Append(events[RunOf[p]], <<p, emitted[p]>>)]_routingVars

\* "subscribers observe RUN_STARTED at index 0" (_dispatch_frame): frames parked
\* before a run come after its RUN_STARTED.
StartedFirst ==
    \A r \in Runs : events[r] # <<>> => events[r][1][2] = 0

\* Whatever runs overlap, no frame is in two rings, or twice in one, and none is
\* parked that was published.
EachFrameOnce ==
    /\ \A q, r \in Runs : \A i \in DOMAIN events[q], j \in DOMAIN events[r] :
            events[q][i] = events[r][j] => q = r /\ i = j
    /\ \A r \in Runs : \A i \in DOMAIN events[r], j \in DOMAIN pending : events[r][i] # pending[j]

=============================================================================
