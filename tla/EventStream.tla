------------------------------ MODULE EventStream ------------------------------
(***************************************************************************)
(* How the events of a run get from the ingress (FrameRouting) to the SSE  *)
(* connections and to the database, for one session: the in-process bus    *)
(* (event_bus.py), the two SSE endpoints with cursor replay, and the       *)
(* persister (src/src/api/stream.py).                                      *)
(*                                                                         *)
(* All of it runs on one event loop.  The bus holds its lock over no       *)
(* await, so register, publish and the lookups never suspend.  A ring      *)
(* entry is known by its seq, so the queues of the bus hold seqs; the ring *)
(* is the last RingCap entries of events[r].                               *)
(***************************************************************************)
EXTENDS FrameRouting

CONSTANTS
    Gets,       \* GET /stream requests
    QueueCap,   \* size of a bus queue (10 000)
    RingCap,    \* size of a ring (10 000)
    Warm,       \* may the runner emit before the POST has created its persister?
    CanIdle,    \* may a run be silent for longer than the persister waits?
    DbFaults    \* may a transaction of a POST or of a persister fail?

ASSUME StreamAssumption ==
    /\ Posts \cap Gets = {} /\ None \notin Gets
    /\ QueueCap \in Nat \ {0} /\ RingCap \in Nat \ {0}
    /\ Warm \in BOOLEAN /\ CanIdle \in BOOLEAN /\ DbFaults \in BOOLEAN

VARIABLES
    pc,         \* where a request stands
    topic,      \* the run a request subscribes to
    subs,       \* the requests whose queue is in _subs
    queue,      \* the bus queue of a request
    replay,     \* GET: what is left to send of the list replay_from returned
    highest,    \* GET: highest_seq; -1 stands for None
    writer,     \* where the persister task of a POST stands
    inflow,     \* the (unbounded) bus queue of a persister
    stored,     \* the seqs a persister has handled
    since,      \* history: the first seq published after a persister subscribed; -1 before
    tasks       \* app.state.persist_tasks

requestVars == <<pc, topic, subs, queue, replay, highest>>
writerVars == <<writer, inflow, stored, since, tasks>>
streamVars == <<routingVars, requestVars, writerVars>>

Requests == Posts \cup Gets

PostPhases == {"idle", "registered", "committed", "open", "tail", "closing", "closed"}
GetPhases == {"idle", "open", "replay1", "replay2", "tail", "closing", "closed"}
WriterPhases == {"none", "scheduled", "on", "ended", "gone"}

TypeOK ==
    /\ RoutingTypeOK
    /\ pc \in [Requests -> PostPhases \cup GetPhases]
    /\ topic \in [Requests -> Runs \cup {None}]
    /\ subs \subseteq Requests
    /\ queue \in [Requests -> Seq(Nat)] /\ \A c \in Requests : Len(queue[c]) <= QueueCap
    /\ replay \in [Requests -> Seq(Nat)]
    /\ highest \in [Requests -> Nat \cup {-1}]
    /\ writer \in [Posts -> WriterPhases]
    /\ inflow \in [Posts -> Seq(Nat)]
    /\ stored \in [Posts -> SUBSET Nat]
    /\ since \in [Posts -> Nat \cup {-1}]
    /\ tasks \in [Runs -> Posts \cup {None}]

InitStream ==
    /\ InitRouting
    /\ pc = [c \in Requests |-> "idle"]
    /\ topic = [c \in Requests |-> IF c \in Posts THEN RunOf[c] ELSE None]
    /\ subs = {}
    /\ queue = [c \in Requests |-> <<>>]
    /\ replay = [c \in Requests |-> <<>>]
    /\ highest = [c \in Requests |-> -1]
    /\ writer = [p \in Posts |-> "none"]
    /\ inflow = [p \in Posts |-> <<>>]
    /\ stored = [p \in Posts |-> {}]
    /\ since = [p \in Posts |-> -1]
    /\ tasks = [r \in Runs |-> None]

-----------------------------------------------------------------------------
(* Rings and the bus. *)

IsTerminal(r, seq) == events[r][seq + 1][2] = Last

\* execution.status # "running"
Over(r) == \E i \in 1..Len(events[r]) : events[r][i][2] = Last

Span(lo, hi) == [i \in 1..(hi - lo) |-> lo + i - 1]

\* replay_from: the entries still in the ring with a seq above the cursor.
ReplayFrom(r, cursor) ==
    LET size == Len(events[r])
        oldest == IF size > RingCap THEN size - RingCap ELSE 0
    IN  Span(IF cursor + 1 > oldest THEN cursor + 1 ELSE oldest, size)

\* Mutant: every queue is unbounded.
PublishUnbounded ==
    LET Added(r) == Span(Len(events[r]), Len(events'[r]))
    IN  /\ queue' = [c \in Requests |-> IF c \in subs THEN queue[c] \o Added(topic[c]) ELSE queue[c]]
        /\ inflow' = [p \in Posts |-> IF writer[p] = "on"
                                      THEN inflow[p] \o Added(RunOf[p]) ELSE inflow[p]]
        /\ UNCHANGED subs

\* Mutant: a full queue loses the event and stays subscribed.
PublishLosesEvent ==
    LET Added(r) == Span(Len(events[r]), Len(events'[r]))
        Fit(q) == IF Len(q) > QueueCap THEN SubSeq(q, 1, QueueCap) ELSE q
    IN  /\ queue' = [c \in Requests |-> IF c \in subs THEN Fit(queue[c] \o Added(topic[c])) ELSE queue[c]]
        /\ inflow' = [p \in Posts |-> IF writer[p] = "on"
                                      THEN inflow[p] \o Added(RunOf[p]) ELSE inflow[p]]
        /\ UNCHANGED subs

\* Mutant: the persister's queue is bounded like the others.
PublishBoundsPersister ==
    LET Added(r) == Span(Len(events[r]), Len(events'[r]))
        Fit(q) == IF Len(q) > QueueCap THEN SubSeq(q, 1, QueueCap) ELSE q
    IN  /\ queue' = [c \in Requests |-> IF c \in subs THEN Fit(queue[c] \o Added(topic[c])) ELSE queue[c]]
        /\ subs' = {c \in subs : Len(queue[c]) + Len(Added(topic[c])) <= QueueCap}
        /\ inflow' = [p \in Posts |-> IF writer[p] = "on"
                                      THEN Fit(inflow[p] \o Added(RunOf[p])) ELSE inflow[p]]

\* event_bus.publish for what a frame added to the rings.  A queue that refuses an
\* event is full, so it refuses the sentinel that publish puts in next as well:
\* the subscriber is dropped from _subs and its queue stays as it is.
Publish ==
    LET Added(r) == Span(Len(events[r]), Len(events'[r]))
        Fit(q) == IF Len(q) > QueueCap THEN SubSeq(q, 1, QueueCap) ELSE q
    IN  /\ queue' = [c \in Requests |-> IF c \in subs THEN Fit(queue[c] \o Added(topic[c])) ELSE queue[c]]
        /\ subs' = {c \in subs : Len(queue[c]) + Len(Added(topic[c])) <= QueueCap}
        /\ inflow' = [p \in Posts |-> IF writer[p] = "on"
                                      THEN inflow[p] \o Added(RunOf[p]) ELSE inflow[p]]

\* A container that is still starting emits nothing before the POST that spawned
\* it is through and its persister listens.
Settled(p) ==
    Warm \/ (pc[p] # "committed" /\ \A q \in Posts : writer[q] # "scheduled")

Frame(p) ==
    /\ Settled(p)
    /\ Dispatch(p)
    /\ Publish
    /\ UNCHANGED <<pc, topic, replay, highest, writer, stored, since, tasks>>

-----------------------------------------------------------------------------
(* POST /sessions/{id}/stream. *)

\* event_bus.register; the prompt is committed afterwards.
Register(p) ==
    /\ pc[p] = "idle"
    /\ pc' = [pc EXCEPT ![p] = "registered"]
    /\ subs' = subs \cup {p}
    /\ UNCHANGED <<routingVars, topic, queue, replay, highest, writerVars>>

Commit(p) ==
    /\ pc[p] = "registered"
    /\ pc' = [pc EXCEPT ![p] = "committed"]
    /\ Queued(p)
    /\ UNCHANGED <<topic, subs, queue, replay, highest, writerVars>>

\* Mutant: no unregister on the error path.
CommitFailsRegistered(p) ==
    /\ DbFaults
    /\ pc[p] = "registered"
    /\ pc' = [pc EXCEPT ![p] = "closed"]
    /\ UNCHANGED <<routingVars, topic, subs, queue, replay, highest, writerVars>>

\* An exception before the response is returned: unregister and re-raise.
CommitFails(p) ==
    /\ DbFaults
    /\ pc[p] = "registered"
    /\ pc' = [pc EXCEPT ![p] = "closed"]
    /\ subs' = subs \ {p}
    /\ UNCHANGED <<routingVars, topic, queue, replay, highest, writerVars>>

\* Mutant: every POST starts a persister of its own.
UnservedAlways(r) == TRUE

Unserved(r) == tasks[r] = None \/ writer[tasks[r]] = "ended"

\* The database session is closed; a persister is created unless one is alive.
Respond(p) ==
    /\ pc[p] = "committed"
    /\ pc' = [pc EXCEPT ![p] = "open"]
    /\ IF Unserved(RunOf[p])
       THEN /\ writer' = [writer EXCEPT ![p] = "scheduled"]
            /\ tasks' = [tasks EXCEPT ![RunOf[p]] = p]
       ELSE UNCHANGED <<writer, tasks>>
    /\ UNCHANGED <<routingVars, topic, subs, queue, replay, highest, inflow, stored, since>>

\* Mutant: the generator subscribes anew instead of consuming the registered queue.
StartPostSubscribes(p) ==
    /\ p \in Posts
    /\ pc[p] = "open"
    /\ pc' = [pc EXCEPT ![p] = "tail"]
    /\ queue' = [queue EXCEPT ![p] = <<>>]
    /\ UNCHANGED <<routingVars, topic, subs, replay, highest, writerVars>>

\* The response iterates the generator: from here on consume's finally runs.
StartPost(p) ==
    /\ p \in Posts
    /\ pc[p] = "open"
    /\ pc' = [pc EXCEPT ![p] = "tail"]
    /\ UNCHANGED <<routingVars, topic, subs, queue, replay, highest, writerVars>>

-----------------------------------------------------------------------------
(* GET /sessions/{id}/stream?run_id=r&last_event_id=cursor. *)

\* The registry has an execution for r: a frame or a POST's get_or_create made it.
Known(r) == events[r] # <<>> \/ \E p \in Posts : RunOf[p] = r /\ writer[p] # "none"

\* An unknown execution is answered with 404 and changes nothing.
OpenGet(g, r, cursor) ==
    /\ pc[g] = "idle"
    /\ Known(r)
    /\ pc' = [pc EXCEPT ![g] = "open"]
    /\ topic' = [topic EXCEPT ![g] = r]
    /\ subs' = subs \cup {g}
    /\ highest' = [highest EXCEPT ![g] = cursor]
    /\ UNCHANGED <<routingVars, queue, replay, writerVars>>

\* What the generator does when it is resumed with nothing left of its list.  It
\* goes on to the next list, or to the queue, without a suspension in between.
GoesOn(g, next, list) ==
    /\ pc' = [pc EXCEPT ![g] = next]
    /\ replay' = [replay EXCEPT ![g] = list]
    /\ UNCHANGED <<routingVars, topic, subs, queue, highest, writerVars>>

FirstReplay(g) ==
    /\ pc[g] = "open"
    /\ g \in Gets
    /\ ReplayFrom(topic[g], highest[g]) # <<>>
    /\ GoesOn(g, "replay1", ReplayFrom(topic[g], highest[g]))

FirstReplayDone(g) ==
    \/ pc[g] = "open" /\ g \in Gets /\ ReplayFrom(topic[g], highest[g]) = <<>>
    \/ pc[g] = "replay1" /\ replay[g] = <<>>

\* "if execution.status != running: return"; consume is never entered.
ReplayReturns(g) ==
    /\ FirstReplayDone(g)
    /\ Over(topic[g])
    /\ GoesOn(g, "closed", <<>>)

SecondReplay(g) ==
    /\ FirstReplayDone(g)
    /\ ~Over(topic[g])
    /\ ReplayFrom(topic[g], highest[g]) # <<>>
    /\ GoesOn(g, "replay2", ReplayFrom(topic[g], highest[g]))

ReplayTails(g) ==
    /\ \/ FirstReplayDone(g) /\ ~Over(topic[g]) /\ ReplayFrom(topic[g], highest[g]) = <<>>
       \/ pc[g] = "replay2" /\ replay[g] = <<>>
    /\ GoesOn(g, "tail", <<>>)

-----------------------------------------------------------------------------
(* Both endpoints: one event is sent, or the client goes away. *)

\* The seqs a request has ready to send.
Ready(c) == IF pc[c] = "tail" THEN queue[c] ELSE replay[c]

SendReplayed(g) ==
    /\ pc[g] \in {"replay1", "replay2"}
    /\ replay[g] # <<>>
    /\ replay' = [replay EXCEPT ![g] = Tail(@)]
    /\ highest' = [highest EXCEPT ![g] = Head(replay[g])]
    /\ UNCHANGED <<routingVars, pc, topic, subs, queue, writerVars>>

\* After a terminal event the generator returns.
SendLive(c) ==
    /\ pc[c] = "tail"
    /\ queue[c] # <<>>
    /\ queue' = [queue EXCEPT ![c] = Tail(@)]
    /\ pc' = [pc EXCEPT ![c] = IF IsTerminal(topic[c], Head(queue[c])) THEN "closing" ELSE @]
    /\ UNCHANGED <<routingVars, topic, subs, replay, highest, writerVars>>

Send(c) == SendReplayed(c) \/ SendLive(c)

\* The connection is lost: the generator is left where it stands, and only consume
\* has a finally block.  (A loss before the response starts shows when it starts.)
Cut(c) ==
    /\ pc[c] \in {"open", "replay1", "replay2", "tail"}
    /\ pc' = [pc EXCEPT ![c] = IF pc[c] = "tail" THEN "closing" ELSE "closed"]
    /\ replay' = [replay EXCEPT ![c] = <<>>]
    /\ UNCHANGED <<routingVars, topic, subs, queue, highest, writerVars>>

\* Mutant: consume is left without its finally block.
UnsubscribeForgets(c) ==
    /\ pc[c] = "closing"
    /\ pc' = [pc EXCEPT ![c] = "closed"]
    /\ UNCHANGED <<routingVars, topic, subs, queue, replay, highest, writerVars>>

\* The event loop finalizes the abandoned consume generator, and its finally block
\* unregisters the queue.
Unsubscribe(c) ==
    /\ pc[c] = "closing"
    /\ pc' = [pc EXCEPT ![c] = "closed"]
    /\ subs' = subs \ {c}
    /\ UNCHANGED <<routingVars, topic, queue, replay, highest, writerVars>>

-----------------------------------------------------------------------------
(* The persister (_persist_events). *)

\* The task runs for the first time and subscribes.
WriterSubscribes(p) ==
    /\ writer[p] = "scheduled"
    /\ writer' = [writer EXCEPT ![p] = "on"]
    /\ since' = [since EXCEPT ![p] = Len(events[RunOf[p]])]
    /\ UNCHANGED <<routingVars, requestVars, inflow, stored, tasks>>

WriterStores(p) ==
    /\ writer[p] = "on"
    /\ inflow[p] # <<>>
    /\ stored' = [stored EXCEPT ![p] = @ \cup {Head(inflow[p])}]
    /\ inflow' = [inflow EXCEPT ![p] = Tail(@)]
    /\ writer' = [writer EXCEPT ![p] = IF IsTerminal(RunOf[p], Head(inflow[p])) THEN "ended" ELSE @]
    /\ UNCHANGED <<routingVars, requestVars, since, tasks>>

\* A statement or a commit raises: nothing catches it, and the task ends with it.
WriterFails(p) ==
    /\ DbFaults
    /\ writer[p] = "on"
    /\ inflow[p] # <<>>
    /\ writer' = [writer EXCEPT ![p] = "ended"]
    /\ inflow' = [inflow EXCEPT ![p] = Tail(@)]
    /\ UNCHANGED <<routingVars, requestVars, stored, since, tasks>>

\* No event within the idle budget: the task returns.
WriterIdles(p) ==
    /\ CanIdle
    /\ writer[p] = "on"
    /\ inflow[p] = <<>>
    /\ writer' = [writer EXCEPT ![p] = "ended"]
    /\ UNCHANGED <<routingVars, requestVars, inflow, stored, since, tasks>>

\* The done callback pops the run's key, whichever task is there by now.
WriterDropped(p) ==
    /\ writer[p] = "ended"
    /\ writer' = [writer EXCEPT ![p] = "gone"]
    /\ tasks' = [tasks EXCEPT ![RunOf[p]] = None]
    /\ UNCHANGED <<routingVars, requestVars, inflow, stored, since>>

-----------------------------------------------------------------------------

PostStep(p) == Register(p) \/ Commit(p) \/ CommitFails(p) \/ Respond(p) \/ StartPost(p)

ReplayStep(g) == FirstReplay(g) \/ ReplayReturns(g) \/ SecondReplay(g) \/ ReplayTails(g)

WriterStep(p) ==
    \/ WriterSubscribes(p) \/ WriterStores(p) \/ WriterFails(p) \/ WriterIdles(p) \/ WriterDropped(p)

\* Clients that may ask for any run, from any cursor, at any time.
NextStream ==
    \/ \E p \in Posts : Frame(p) \/ PostStep(p) \/ WriterStep(p)
    \/ \E g \in Gets : ReplayStep(g) \/ SendReplayed(g)
    \/ \E g \in Gets, r \in Runs : \E cursor \in Nat \cup {-1} : OpenGet(g, r, cursor)
    \/ \E c \in Requests : SendLive(c) \/ Cut(c) \/ Unsubscribe(c)

StreamSpec == InitStream /\ [][NextStream]_streamVars

-----------------------------------------------------------------------------
(* Properties. *)

\* A request leaves its queue in _subs for good only when it ends before its generator
\* has entered consume: on a lost connection, or a replay of a run that is over
\* (stream.py: "Discard the queue from _subs so it does not leak forever").
NoLeakedQueue ==
    [][\A c \in Requests : pc[c] # "closed" /\ pc'[c] = "closed" /\ c \in subs'
                              => pc[c] \in {"open", "replay1", "replay2"}]_streamVars

\* No event is handled by two persisters (stream.py: two POSTs for one run "must
\* NOT subscribe two persisters onto the same bus topic").
StoredOnce ==
    \A p, q \in Posts : p # q /\ RunOf[p] = RunOf[q] => stored[p] \cap stored[q] = {}

\* The persister of p returned, or raised, before it came to a terminal event.
GaveUp(p) ==
    writer[p] \in {"ended", "gone"} /\ \A n \in stored[p] : ~IsTerminal(RunOf[p], n)

\* Every event published after a persister subscribed is handled or in its queue, up
\* to the terminal event it returned on, unless it gave up (stream.py: a slow
\* database must not leave "only a prefix of the run").
StoredWhole ==
    \A p \in Posts : since[p] # -1 =>
        \A n \in since[p]..Len(events[RunOf[p]]) - 1 :
            \/ n \in stored[p]
            \/ writer[p] = "on" /\ \E i \in DOMAIN inflow[p] : inflow[p][i] = n
            \/ \E m \in stored[p] : m < n /\ IsTerminal(RunOf[p], m)
            \/ GaveUp(p)

=============================================================================
