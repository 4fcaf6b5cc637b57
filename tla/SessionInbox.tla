----------------------------- MODULE SessionInbox -----------------------------
(***************************************************************************)
(* The way of a user message from POST /stream (src/src/api/stream.py) to  *)
(* the turn of a runner: the hydration snapshot, the message's row, the    *)
(* PGMQ queue of the session with its visibility timeout and NOTIFY        *)
(* (src/src/messaging/pgmq.py), the runner's consumer                      *)
(* (src/runner/inbox_consumer.py) and its main loop                        *)
(* (src/runner/__main__.py); with runners that die, connections and        *)
(* transactions that fail, and a backend that restarts (src/src/main.py).  *)
(*                                                                         *)
(* One session.  The registry is taken at its promise, which module        *)
(* RunnerRegistry examines: one live runner per session, replaced when it  *)
(* is dead.  A second one can only be a runner that outlived a restart,    *)
(* because the boot sweep skips what the Docker daemon will not show or    *)
(* delete.  A list of messages is the set of the user messages in it: what *)
(* the assistant said goes with the message it answered.                   *)
(***************************************************************************)
EXTENDS Integers, SequencesExt

CONSTANTS
    Posts,        \* requests, each with one user message
    Containers,   \* runners that can ever be spawned
    None,
    MaxRestarts,  \* bound: restarts of the backend
    MaxLosses     \* bound: lost connections of consumers

ASSUME InboxAssumption ==
    /\ None \notin Posts /\ None \notin Containers
    /\ MaxRestarts \in Nat /\ MaxLosses \in Nat

VARIABLES
    pc,         \* how far a request has come
    prior,      \* prior_messages in the hydration payload of a request
    history,    \* the user messages in the database
    closed,     \* the session's closed_at is set
    queue,      \* the rows of the PGMQ queue, in order of msg_id
    hidden,     \* the rows that were read, until their visibility timeout
    registered, \* the runner in the registry
    phase,      \* what a runner's main loop and consumer are at
    wake,       \* the consumer's asyncio.Event
    job,        \* the message of the turn
    cold,       \* first_turn
    given,      \* prior_messages of a runner's hydration file
    sees,       \* the messages of the turn's RunAgentInput
    done,       \* history: the messages whose turn has ended
    raised,     \* history: the messages whose turn has raised
    overdue,    \* history: the messages that became visible again in their turn
    overlapped, \* history: two requests were under way at once
    outlived,   \* history: a runner outlived a restart
    restarts, losses

postVars == <<pc, prior, history, closed>>
queueVars == <<queue, hidden>>
runnerVars == <<registered, phase, wake, job, cold, given, sees>>
turnVars == <<done, raised, overdue>>
faultVars == <<overlapped, outlived, restarts, losses>>
vars == <<postVars, queueVars, runnerVars, turnVars, faultVars>>

Live(c) == phase[c] \notin {"none", "dead"}
HasRunner == registered # None /\ Live(registered)
Listening(c) == phase[c] \in {"reading", "checked", "waiting", "turn", "acking"}
InProgress(p) == pc[p] \in {"hydrated", "persisted", "attached"}

InboxTypeOK ==
    /\ pc \in [Posts -> {"idle", "hydrated", "persisted", "attached", "sent", "noted", "failed"}]
    /\ prior \in [Posts -> SUBSET history] /\ history \subseteq Posts
    /\ \A i, j \in DOMAIN queue : queue[i] = queue[j] => i = j
    /\ hidden \subseteq ToSet(queue) /\ ToSet(queue) \subseteq history
    /\ registered \in Containers \cup {None}
    /\ \A c \in Containers :
        /\ phase[c] \in {"turn", "acking", "failing"} => job[c] \in sees[c]
        /\ phase[c] \in {"none", "booting"} => cold[c] /\ job[c] = None
    /\ done \cup raised \cup overdue \subseteq history

Init ==
    /\ pc = [p \in Posts |-> "idle"]
    /\ prior = [p \in Posts |-> {}]
    /\ history = {} /\ closed = FALSE
    /\ queue = <<>> /\ hidden = {}
    /\ registered = None
    /\ phase = [c \in Containers |-> "none"]
    /\ wake = [c \in Containers |-> FALSE]
    /\ job = [c \in Containers |-> None]
    /\ cold = [c \in Containers |-> TRUE]
    /\ given = [c \in Containers |-> {}]
    /\ sees = [c \in Containers |-> {}]
    /\ done = {} /\ raised = {} /\ overdue = {}
    /\ overlapped = FALSE /\ outlived = FALSE
    /\ restarts = 0 /\ losses = 0

-----------------------------------------------------------------------------
(* POST /sessions/{id}/stream. *)

\* _build_hydration_payload: the history before the message is persisted.
Hydrate(p) ==
    /\ pc[p] = "idle"
    /\ pc' = [pc EXCEPT ![p] = "hydrated"]
    /\ prior' = [prior EXCEPT ![p] = history]
    /\ overlapped' = (overlapped \/ \E q \in Posts : InProgress(q))
    /\ UNCHANGED <<history, closed, queueVars, runnerVars, turnVars, outlived, restarts, losses>>

\* _persist_user_message
Persist(p) ==
    /\ pc[p] = "hydrated"
    /\ pc' = [pc EXCEPT ![p] = "persisted"]
    /\ history' = history \cup {p}
    /\ UNCHANGED <<prior, closed, queueVars, runnerVars, turnVars, faultVars>>

\* get_or_spawn returns the live runner ...
AttachLive(p) ==
    /\ pc[p] = "persisted"
    /\ HasRunner
    /\ pc' = [pc EXCEPT ![p] = "attached"]
    /\ UNCHANGED <<prior, history, closed, queueVars, runnerVars, turnVars, faultVars>>

\* ... or starts one with this request's hydration.
AttachSpawned(p) ==
    /\ pc[p] = "persisted"
    /\ ~HasRunner
    /\ pc' = [pc EXCEPT ![p] = "attached"]
    /\ \E c \in Containers :
        /\ phase[c] = "none"
        /\ registered' = c
        /\ phase' = [phase EXCEPT ![c] = "booting"]
        /\ given' = [given EXCEPT ![c] = prior[p]]
    /\ UNCHANGED <<prior, history, closed, queueVars, wake, job, cold, sees, turnVars, faultVars>>

\* The row and its NOTIFY are committed together; who listens is woken.
Send(p) ==
    /\ pc[p] = "attached"
    /\ pc' = [pc EXCEPT ![p] = "sent"]
    /\ queue' = Append(queue, p)
    /\ wake' = [c \in Containers |-> wake[c] \/ Listening(c)]
    /\ UNCHANGED <<prior, history, closed, hidden, registered, phase, job, cold, given, sees, turnVars, faultVars>>

\* The database or the Docker daemon fails: the request is answered with an error.
RequestFails(p) ==
    /\ InProgress(p)
    /\ pc' = [pc EXCEPT ![p] = "failed"]
    /\ UNCHANGED <<prior, history, closed, queueVars, runnerVars, turnVars, faultVars>>

\* POST /sessions/{id}/messages persists a message and queues nothing.
PostMessage(p) ==
    /\ pc[p] = "idle" /\ ~closed
    /\ pc' = [pc EXCEPT ![p] = "noted"]
    /\ history' = history \cup {p}
    /\ UNCHANGED <<prior, closed, queueVars, runnerVars, turnVars, faultVars>>

\* POST /sessions/{id}/close: the runner, the queue and POST /stream go on.
CloseSession ==
    /\ ~closed
    /\ closed' = TRUE
    /\ UNCHANGED <<pc, prior, history, queueVars, runnerVars, turnVars, faultVars>>

-----------------------------------------------------------------------------
(* The runner. *)

\* The consumer connects (again) and listens before it reads.
Connect(c) ==
    /\ phase[c] \in {"booting", "reconnecting"}
    /\ phase' = [phase EXCEPT ![c] = "reading"]
    /\ wake' = [wake EXCEPT ![c] = FALSE]
    /\ UNCHANGED <<postVars, queueVars, registered, job, cold, given, sees, turnVars, faultVars>>

\* The first row that can be read.
Visible(p) ==
    \E i \in DOMAIN queue :
        queue[i] = p /\ p \notin hidden /\ \A j \in 1..i - 1 : queue[j] \in hidden

\* Mutant: the row is read without a visibility timeout.
TurnStartsUnhidden(c, p) ==
    /\ phase[c] = "reading" /\ Visible(p)
    /\ phase' = [phase EXCEPT ![c] = "turn"]
    /\ job' = [job EXCEPT ![c] = p]
    /\ sees' = [sees EXCEPT ![c] = IF cold[c] THEN given[c] \cup {p} ELSE {p}]
    /\ UNCHANGED <<postVars, queueVars, registered, wake, cold, given, turnVars, faultVars>>

\* Mutant: pgmq.pop instead of pgmq.read.
TurnStartsPopped(c, p) ==
    /\ phase[c] = "reading" /\ Visible(p)
    /\ queue' = RemoveFirst(queue, p)
    /\ phase' = [phase EXCEPT ![c] = "turn"]
    /\ job' = [job EXCEPT ![c] = p]
    /\ sees' = [sees EXCEPT ![c] = IF cold[c] THEN given[c] \cup {p} ELSE {p}]
    /\ UNCHANGED <<postVars, hidden, registered, wake, cold, given, turnVars, faultVars>>

\* Mutant: the history is merged into every turn but the first.
TurnStartsMergesLater(c, p) ==
    /\ phase[c] = "reading" /\ Visible(p)
    /\ hidden' = hidden \cup {p}
    /\ phase' = [phase EXCEPT ![c] = "turn"]
    /\ job' = [job EXCEPT ![c] = p]
    /\ sees' = [sees EXCEPT ![c] = IF cold[c] THEN {p} ELSE given[c] \cup {p}]
    /\ UNCHANGED <<postVars, queue, registered, wake, cold, given, turnVars, faultVars>>

\* pgmq.read yields a row; _run_one_turn puts the history of the hydration before
\* it on the first turn.  The browser sends only its newest message.
TurnStarts(c, p) ==
    /\ phase[c] = "reading" /\ Visible(p)
    /\ hidden' = hidden \cup {p}
    /\ phase' = [phase EXCEPT ![c] = "turn"]
    /\ job' = [job EXCEPT ![c] = p]
    /\ sees' = [sees EXCEPT ![c] = IF cold[c] THEN given[c] \cup {p} ELSE {p}]
    /\ UNCHANGED <<postVars, queue, registered, wake, cold, given, turnVars, faultVars>>

\* The read finds no row; its answer is on the way.
FindsNothing(c) ==
    /\ phase[c] = "reading" /\ ToSet(queue) \subseteq hidden
    /\ phase' = [phase EXCEPT ![c] = "checked"]
    /\ UNCHANGED <<postVars, queueVars, registered, wake, job, cold, given, sees, turnVars, faultVars>>

\* wake.clear(), which forgets a NOTIFY that came with the answer.
Sleeps(c) ==
    /\ phase[c] = "checked"
    /\ phase' = [phase EXCEPT ![c] = "waiting"]
    /\ wake' = [wake EXCEPT ![c] = FALSE]
    /\ UNCHANGED <<postVars, queueVars, registered, job, cold, given, sees, turnVars, faultVars>>

\* Mutant: wake.wait() without the timeout.
WakesWhenNotified(c) ==
    /\ phase[c] = "waiting" /\ wake[c]
    /\ phase' = [phase EXCEPT ![c] = "reading"]
    /\ UNCHANGED <<postVars, queueVars, registered, wake, job, cold, given, sees, turnVars, faultVars>>

\* A NOTIFY, or FALLBACK_POLL_S has passed: it reads again in either case.
Wakes(c) ==
    /\ phase[c] = "waiting"
    /\ phase' = [phase EXCEPT ![c] = "reading"]
    /\ UNCHANGED <<postVars, queueVars, registered, wake, job, cold, given, sees, turnVars, faultVars>>

\* The connection is lost: the consumer reconnects, or, where asyncpg raises
\* InterfaceError, which it does not catch, the runner ends.
ConnectionLost(c) ==
    /\ phase[c] \in {"reading", "checked", "waiting"} /\ losses < MaxLosses
    /\ losses' = losses + 1
    /\ \E next \in {"reconnecting", "dead"} : phase' = [phase EXCEPT ![c] = next]
    /\ UNCHANGED <<postVars, queueVars, registered, wake, job, cold, given, sees, turnVars, overlapped, outlived, restarts>>

\* agui_agent.run is over, with RUN_FINISHED or RUN_ERROR.
TurnEnds(c) ==
    /\ phase[c] = "turn"
    /\ phase' = [phase EXCEPT ![c] = "acking"]
    /\ cold' = [cold EXCEPT ![c] = FALSE]
    /\ done' = done \cup {job[c]}
    /\ UNCHANGED <<postVars, queueVars, registered, wake, job, given, sees, raised, overdue, faultVars>>

\* _run_one_turn raises, before the agent has run (RunAgentInput) or with its
\* RUN_ERROR: the finally block deletes the message all the same.
TurnRaises(c) ==
    /\ phase[c] = "turn"
    /\ phase' = [phase EXCEPT ![c] = "failing"]
    /\ raised' = raised \cup {job[c]}
    /\ UNCHANGED <<postVars, queueVars, registered, wake, job, cold, given, sees, done, overdue, faultVars>>

\* Mutant: the row is deleted, but stays counted as read.
AckedKeepsHidden(c) ==
    /\ phase[c] \in {"acking", "failing"}
    /\ phase' = [phase EXCEPT ![c] = IF @ = "acking" THEN "reading" ELSE "dead"]
    /\ queue' = RemoveFirst(queue, job[c])
    /\ job' = [job EXCEPT ![c] = None]
    /\ UNCHANGED <<postVars, hidden, registered, wake, cold, given, sees, turnVars, faultVars>>

\* delete_message in the finally block; what _run_one_turn raised ends the runner.
Acked(c) ==
    /\ phase[c] \in {"acking", "failing"}
    /\ phase' = [phase EXCEPT ![c] = IF @ = "acking" THEN "reading" ELSE "dead"]
    /\ queue' = RemoveFirst(queue, job[c])
    /\ hidden' = hidden \ {job[c]}
    /\ job' = [job EXCEPT ![c] = None]
    /\ UNCHANGED <<postVars, registered, wake, cold, given, sees, turnVars, faultVars>>

\* delete_message raises, or the process is killed: the runner is gone with what it
\* was doing.  A container has no handler for SIGTERM, so nothing is cleaned up.
Dies(c) ==
    /\ Live(c)
    /\ phase' = [phase EXCEPT ![c] = "dead"]
    /\ job' = [job EXCEPT ![c] = None]
    /\ UNCHANGED <<postVars, queueVars, registered, wake, cold, given, sees, turnVars, faultVars>>

\* VT_SECONDS after it was read the row can be read again, its turn over or not.
VisibleAgain(p) ==
    /\ p \in hidden
    /\ hidden' = hidden \ {p}
    /\ overdue' = IF \E c \in Containers : job[c] = p THEN overdue \cup {p} ELSE overdue
    /\ UNCHANGED <<postVars, queue, runnerVars, done, raised, faultVars>>

\* orphan_sweep removes every runner that the daemon shows and deletes.
Swept(orphans) ==
    /\ phase' = [c \in Containers |-> IF Live(c) /\ c \notin orphans THEN "dead" ELSE phase[c]]
    /\ job' = [c \in Containers |-> IF c \in orphans THEN job[c] ELSE None]

\* The backend ends, with shutdown_all or without, and boots: requests are gone and
\* the registry is empty.
BackendRestarts ==
    /\ restarts < MaxRestarts
    /\ restarts' = restarts + 1
    /\ registered' = None
    /\ pc' = [p \in Posts |-> IF InProgress(p) THEN "failed" ELSE pc[p]]
    /\ \E orphans \in SUBSET {c \in Containers : Live(c)} :
        /\ Swept(orphans)
        /\ outlived' = (outlived \/ orphans # {})
    /\ UNCHANGED <<prior, history, closed, queueVars, wake, cold, given, sees, turnVars, overlapped, losses>>

Request(p) ==
    Hydrate(p) \/ Persist(p) \/ AttachLive(p) \/ AttachSpawned(p) \/ Send(p)

Runs(c) ==
    \/ Connect(c) \/ FindsNothing(c) \/ Sleeps(c) \/ Wakes(c)
    \/ TurnEnds(c) \/ TurnRaises(c) \/ Acked(c)
    \/ \E p \in Posts : TurnStarts(c, p)

Next ==
    \/ \E p \in Posts : Request(p) \/ RequestFails(p) \/ PostMessage(p) \/ VisibleAgain(p)
    \/ \E c \in Containers : Runs(c) \/ ConnectionLost(c) \/ Dies(c)
    \/ CloseSession \/ BackendRestarts

Spec == Init /\ [][Next]_vars

\* A live runner goes on, the fallback poll included, and visibility timeouts end.
\* Requests may stop anywhere; nothing has to die.
FairSpec ==
    /\ Spec
    /\ \A c \in Containers : WF_vars(Runs(c))
    /\ \A p \in Posts : WF_vars(VisibleAgain(p))

-----------------------------------------------------------------------------
(* Properties. *)

\* A message that was committed to the queue is there until a turn of it has
\* ended or raised, whoever dies ("pending messages must survive a runner respawn",
\* pgmq.py; "the survives-eviction guarantee", consume_inbox).
MessagesSurvive ==
    \A p \in Posts : pc[p] = "sent" => p \in ToSet(queue) \cup done \cup raised

\* Two runners execute one message at once only if the sweep of a restart left one
\* of them beside the other and a turn of the message outlasted VT_SECONDS.
ExclusiveTurn ==
    \A c, d \in Containers :
        job[c] = job[d] /\ job[c] # None /\ c # d => outlived /\ job[c] \in overdue

\* On its first turn a runner is shown every message answered before, although its
\* hydration was made by a request that may have failed later
\* (_build_hydration_payload).  It needs requests that do not overlap, and that no
\* runner outlives a restart.
ColdTurnSeesConversation ==
    \A c \in Containers :
        phase[c] = "turn" /\ cold[c] /\ ~overlapped /\ ~outlived => done \subseteq sees[c]

\* While a runner lives, every queued message is executed and acknowledged in the
\* end, although wake.clear() may forget a NOTIFY and a dead runner's messages are
\* invisible for a time (consume_inbox).
QueuedMessageServed ==
    \A p \in Posts :
        p \in ToSet(queue) ~> p \notin ToSet(queue) \/ \A c \in Containers : ~Live(c)
=============================================================================
