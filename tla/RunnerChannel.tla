----------------------------- MODULE RunnerChannel -----------------------------
(***************************************************************************)
(* The runner's outbound channel (src/runner/channel.py), the offload of   *)
(* oversized frames (src/runner/offload.py) and the ingress that reads the *)
(* other end (ingest_runner_events), composed with the dispatch of module  *)
(* Ingress.                                                                *)
(*                                                                         *)
(* The runner executes Prompts one after the other.  What it emits passes  *)
(* through: the emitter's hand (emit, which may wait for an upload or for  *)
(* room), the queue, the request body of the current attempt and the       *)
(* connection.  After a break everything the attempt was given is sent     *)
(* again.  A frame is <<prompt, number>>; Beat is a heartbeat, RunError(p) *)
(* the frame the channel makes up itself, and Attached(p) the              *)
(* ArtifactAttached of an offload.                                         *)
(*                                                                         *)
(* stop() cancels the sender in the step that enqueues the sentinel, and a *)
(* response is looked at only after some frame was handed over, so neither *)
(* a sender that meets the sentinel nor a refusal with nothing in flight   *)
(* can happen; the branches for them are not modelled.  At the end of a    *)
(* connection the ingress reads what it will before the next one opens:    *)
(* the sender sleeps at least 0.5 s in between.                            *)
(***************************************************************************)
EXTENDS Ingress, FiniteSets

CONSTANTS
    Prompts,    \* the prompts the runner executes, in order
    Oversize,   \* frames above RUNNER_MAX_FRAME_BYTES
    Refusable,  \* frames of which the server may reject one
    QueueCap,   \* maxsize of _outbound
    MaxEvents   \* bound: broken connections, heartbeats and refused frames together

Frames == Posts \X (0..Last + 2)

ASSUME ChannelAssumption ==
    /\ Prompts \in Seq(Posts)
    /\ Oversize \cup Refusable \subseteq Posts \X (1..Last - 1)
    /\ None \notin Frames
    /\ QueueCap \in Nat \ {0} /\ MaxEvents \in Nat

VARIABLES
    made,       \* how many frames of the script were given to emit
    hand,       \* the frame inside emit, or None
    uploading,  \* emit waits for the offload of that frame
    outbound,   \* _outbound
    backlog,    \* pending_after_break
    yielded,    \* yielded_this_attempt
    wire,       \* written to the connection and not yet read
    rejected,   \* the server has answered with a permanent 4xx
    chan,       \* "down" between attempts, "open", "stopped"
    refused,    \* the frames the server rejects
    arrived,    \* history: the frames the ingress dispatched
    dropped,    \* history: the frames dropped with a log entry
    offloaded,  \* history: the frames replaced by a reference to an artifact
    eventCount

senderVars == <<backlog, yielded, wire, rejected, chan>>
emitterVars == <<made, hand, uploading, offloaded>>
faultVars == <<refused, eventCount>>
vars == <<senderVars, emitterVars, faultVars, outbound, arrived, dropped, ingressVars>>

Beat == <<None, 0>>
RunError(p) == <<p, Last + 1>>
Attached(p) == <<p, Last + 2>>

\* What the runner emits, in order.
Script(i) == <<Prompts[(i - 1) \div (Last + 1) + 1], (i - 1) % (Last + 1)>>
Total == Len(Prompts) * (Last + 1)

SetOf(s) == {s[i] : i \in DOMAIN s}

ChannelTypeOK ==
    /\ made \in 0..Total
    /\ hand \in Frames \cup {None}
    /\ uploading \in BOOLEAN /\ rejected \in BOOLEAN
    /\ outbound \in Seq(Frames \cup {Beat}) /\ Len(outbound) <= QueueCap
    /\ {backlog, yielded, wire} \subseteq Seq(Frames \cup {Beat})
    /\ chan \in {"down", "open", "stopped"}
    /\ arrived \cup dropped \subseteq Frames \cup {Beat}

Init ==
    /\ InitIngress
    /\ made = 0 /\ hand = None /\ uploading = FALSE
    /\ outbound = <<>> /\ backlog = <<>> /\ yielded = <<>> /\ wire = <<>>
    /\ rejected = FALSE
    /\ chan = "down"
    /\ refused \in {{}} \cup {{f} : f \in Refusable}
    /\ arrived = {} /\ dropped = {} /\ offloaded = {}
    /\ eventCount = Cardinality(refused)

-----------------------------------------------------------------------------
(* The emitter. *)

\* emit is called with the next frame; an oversized one is uploaded first.
Emit ==
    /\ hand = None /\ chan # "stopped"
    /\ made < Total
    /\ made' = made + 1
    /\ hand' = Script(made + 1)
    /\ uploading' = (hand' \in Oversize)
    /\ UNCHANGED <<senderVars, faultVars, outbound, arrived, dropped, offloaded, ingressVars>>

\* The artifact is registered, which is announced through the same queue: a
\* TOOL_CALL_RESULT of the current run, with the run id, takes the frame's place.
OffloadSucceeds ==
    /\ uploading
    /\ Len(outbound) < QueueCap
    /\ uploading' = FALSE
    /\ offloaded' = offloaded \cup {hand}
    /\ outbound' = Append(outbound, Attached(hand[1]))
    /\ UNCHANGED <<made, hand, senderVars, faultVars, arrived, dropped, ingressVars>>

\* No bucket, a failed upload or registration, a reference that is too big:
\* the frame is dropped.
OffloadFails ==
    /\ uploading
    /\ uploading' = FALSE
    /\ dropped' = dropped \cup {hand}
    /\ hand' = None
    /\ UNCHANGED <<made, offloaded, senderVars, faultVars, outbound, arrived, ingressVars>>

\* Mutant: a full queue grows.
PutUnbounded ==
    /\ hand # None /\ ~uploading
    /\ outbound' = Append(outbound, hand)
    /\ hand' = None
    /\ UNCHANGED <<made, uploading, offloaded, senderVars, faultVars, arrived, dropped, ingressVars>>

\* The frame enters the queue; emit waits while it is full.
Put ==
    /\ hand # None /\ ~uploading
    /\ Len(outbound) < QueueCap
    /\ outbound' = Append(outbound, hand)
    /\ hand' = None
    /\ UNCHANGED <<made, uploading, offloaded, senderVars, faultVars, arrived, dropped, ingressVars>>

\* _heartbeat_loop
HeartbeatEmitted ==
    /\ chan # "stopped"
    /\ eventCount < MaxEvents
    /\ Len(outbound) < QueueCap
    /\ outbound' = Append(outbound, Beat)
    /\ eventCount' = eventCount + 1
    /\ UNCHANGED <<refused, senderVars, emitterVars, arrived, dropped, ingressVars>>

-----------------------------------------------------------------------------
(* The sender. *)

\* A new attempt; body_iter forgets the transcript of the one before.
Open ==
    /\ chan = "down" /\ wire = <<>>
    /\ chan' = "open"
    /\ yielded' = <<>>
    /\ UNCHANGED <<backlog, wire, rejected, emitterVars, faultVars, outbound, arrived, dropped, ingressVars>>

\* A frame is recorded and written; after its answer the server reads no more.
Hands(f) ==
    /\ chan = "open"
    /\ yielded' = Append(yielded, f)
    /\ wire' = IF rejected THEN wire ELSE Append(wire, f)
    /\ UNCHANGED <<rejected, chan, emitterVars, faultVars, arrived, dropped, ingressVars>>

\* body_iter: first what is left of earlier attempts, ...
YieldBacklog ==
    /\ backlog # <<>>
    /\ Hands(Head(backlog))
    /\ backlog' = Tail(backlog)
    /\ UNCHANGED outbound

\* ... then the queue.
YieldQueued ==
    /\ backlog = <<>> /\ outbound # <<>>
    /\ Hands(Head(outbound))
    /\ outbound' = Tail(outbound)
    /\ UNCHANGED backlog

\* The server may still read a part of what was written.
Cut == \E n \in 0..Len(wire) : wire' = SubSeq(wire, 1, n)

\* Mutant: the frames written in the broken attempt count as delivered.
ConnectionFailsForgets ==
    /\ chan = "open" /\ eventCount < MaxEvents
    /\ eventCount' = eventCount + 1
    /\ chan' = "down" /\ rejected' = FALSE
    /\ backlog' = backlog \o outbound
    /\ yielded' = <<>> /\ outbound' = <<>>
    /\ Cut
    /\ UNCHANGED <<refused, emitterVars, arrived, dropped, ingressVars>>

\* Mutant: the transcript is put behind what was waiting.
ConnectionFailsAppends ==
    /\ chan = "open" /\ eventCount < MaxEvents
    /\ eventCount' = eventCount + 1
    /\ chan' = "down" /\ rejected' = FALSE
    /\ backlog' = backlog \o outbound \o yielded
    /\ yielded' = <<>> /\ outbound' = <<>>
    /\ Cut
    /\ UNCHANGED <<refused, emitterVars, arrived, dropped, ingressVars>>

\* A transport error, 408 or 5xx: the transcript, the rest of the backlog and the
\* queue are sent again, in this order, after the backoff.
ConnectionFails ==
    /\ chan = "open" /\ eventCount < MaxEvents
    /\ eventCount' = eventCount + 1
    /\ chan' = "down" /\ rejected' = FALSE
    /\ backlog' = yielded \o backlog \o outbound
    /\ yielded' = <<>> /\ outbound' = <<>>
    /\ Cut
    /\ UNCHANGED <<refused, emitterVars, arrived, dropped, ingressVars>>

\* Mutant: the frame is dropped, and the sender goes on with the dead connection.
RefusalIgnored ==
    /\ chan = "open" /\ rejected
    /\ dropped' = dropped \cup {yielded[Len(yielded)]}
    /\ UNCHANGED <<senderVars, outbound, emitterVars, faultVars, arrived, ingressVars>>

\* A permanent 4xx is seen: the last frame handed over is taken for the offender,
\* and RUN_ERROR of the current run is appended unless it was terminal itself.
RefusalSeen ==
    LET offender == yielded[Len(yielded)]
        accepted == SubSeq(yielded, 1, Len(yielded) - 1)
        errors == IF offender[2] \in {Last, Last + 1} THEN <<>> ELSE <<RunError(Script(made)[1])>>
    IN  /\ chan = "open" /\ rejected
        /\ chan' = "down" /\ rejected' = FALSE
        /\ dropped' = dropped \cup {offender}
        /\ backlog' = accepted \o backlog \o errors \o outbound
        /\ yielded' = <<>> /\ outbound' = <<>> /\ wire' = <<>>
        /\ UNCHANGED <<emitterVars, faultVars, arrived, ingressVars>>

\* stop(): the sentinel needs room in the queue, and then both tasks are cancelled.
Stop ==
    /\ chan # "stopped"
    /\ Len(outbound) < QueueCap
    /\ chan' = "stopped"
    /\ outbound' = <<>> /\ backlog' = <<>> /\ yielded' = <<>>
    /\ hand' = None /\ uploading' = FALSE
    /\ Cut
    /\ UNCHANGED <<made, offloaded, rejected, faultVars, arrived, dropped, ingressVars>>

-----------------------------------------------------------------------------
(* The ingress. *)

\* _dispatch_frame; heartbeats only reset the watcher of the runner.
Dispatched(f) ==
    \/ f = Beat /\ UNCHANGED ingressVars
    \/ f # Beat /\ f[2] = 0 /\ StartedArrives(f[1])
    \/ f[2] \in {Last, Last + 1} /\ EndedArrives(f[1], f)
    \/ f \in offloaded /\ Stamp(RunOf[f[1]], <<f>>) /\ UNCHANGED <<active, pending>>
    \/ f[2] \in (1..Last - 1) \cup {Last + 2} /\ f \notin offloaded /\ (GoesToActive(f) \/ Waits(f))

\* ingest_runner_events takes one line.
ServerReads ==
    /\ wire # <<>> /\ Head(wire) \notin refused
    /\ Dispatched(Head(wire))
    /\ arrived' = arrived \cup {Head(wire)}
    /\ wire' = Tail(wire)
    /\ UNCHANGED <<backlog, yielded, rejected, chan, emitterVars, faultVars, outbound, dropped>>

\* It answers a bad line with 400 or 413 and reads no further.
ServerRejects ==
    /\ wire # <<>> /\ Head(wire) \in refused
    /\ rejected' = (chan = "open")
    /\ wire' = <<>>
    /\ UNCHANGED <<backlog, yielded, chan, emitterVars, faultVars, outbound, arrived, dropped, ingressVars>>

Emitter == Emit \/ OffloadSucceeds \/ OffloadFails \/ Put
Sender == Open \/ YieldBacklog \/ YieldQueued
Server == ServerReads \/ ServerRejects

Next ==
    \/ Emit \/ OffloadSucceeds \/ OffloadFails \/ Put \/ HeartbeatEmitted
    \/ Open \/ YieldBacklog \/ YieldQueued \/ ConnectionFails \/ RefusalSeen
    \/ Stop
    \/ ServerReads \/ ServerRejects

Spec == Init /\ [][Next]_vars

\* The emitter, the sender and the server go on.  A refusal is noticed at the
\* latest when the next heartbeat is written.  Breaks and stops need not happen.
FairSpec ==
    Spec /\ WF_vars(Emitter) /\ WF_vars(Sender) /\ WF_vars(Server) /\ WF_vars(RefusalSeen)

-----------------------------------------------------------------------------
(* Properties. *)

\* A frame given to emit has arrived, or was dropped with a log entry, or is still
\* in the channel's hands, whatever connections broke ("over-delivery is preferable
\* to silent loss", _stream_outbound).
NothingLostSilently ==
    chan # "stopped" =>
        \A i \in 1..made : Script(i) \in
            arrived \cup dropped \cup {hand} \cup SetOf(outbound \o backlog \o yielded)

\* No frame overtakes an earlier one on its first arrival: replays put the
\* transcript before the rest (pending_after_break[:0]).
FirstArrivalsInOrder ==
    \A i, j \in 1..made : i < j /\ Script(j) \in arrived => Script(i) \in arrived \cup dropped

\* Replays never file a frame under another run, although RUN_STARTED and
\* RUN_FINISHED of earlier runs are replayed into later ones.  It does fail once
\* the channel dropped a RUN_STARTED or ended a run with its own RUN_ERROR.
OwnRing ==
    \/ \E p \in Posts : <<p, 0>> \in dropped
    \/ \E p \in Posts : RunError(p) \in arrived
    \/ \A r \in Runs : \A i \in DOMAIN events[r] : RunOf[events[r][i][1]] = r

\* Every frame arrives or is dropped with a log entry, as long as the runner is not
\* stopped: neither a full queue, nor breaks, nor a line the server keeps rejecting
\* stalls the channel for ever (_stream_outbound: "stalls the channel forever").
EveryFrameArrives ==
    <>(chan = "stopped" \/ \A i \in 1..Total : Script(i) \in arrived \cup dropped)
=============================================================================
