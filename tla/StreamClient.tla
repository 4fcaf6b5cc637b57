----------------------------- MODULE StreamClient -----------------------------
(***************************************************************************)
(* The browser's run loop (src/frontend/src/lib/runLoop.ts) and the part   *)
(* of its reducer that follows the connection (reducer.ts), composed with  *)
(* the backend's streams (EventStream).                                    *)
(*                                                                         *)
(* The browser holds one connection at a time.  It submits a message only  *)
(* while no run is active, makes up the run id itself, keeps the highest   *)
(* seq it saw as its cursor, and opens a GET with that cursor when its     *)
(* connection breaks during a run.  A POST that the browser did not send   *)
(* is another client's.  There are as many reconnects as members of Gets.  *)
(***************************************************************************)
EXTENDS EventStream

CONSTANT Mine   \* the POSTs of this browser

ASSUME ClientAssumption == Mine \subseteq Posts

VARIABLES
    conn,       \* the request whose response the browser reads
    activeRun,  \* state.activeRunId
    cursor,     \* state.lastEventSeq; -1 stands for null
    offline,    \* a reconnect is scheduled
    view        \* the seqs of a run the browser was sent, in order

clientVars == <<conn, activeRun, cursor, offline, view>>
vars == <<streamVars, clientVars>>

\* The seqs of a run the browser was sent.
Seen(r) == {view[r][i] : i \in DOMAIN view[r]}

\* The browser is sent only events that the run has, and its cursor is one of them.
ClientTypeOK ==
    /\ TypeOK
    /\ conn \in Requests \cup {None}
    /\ activeRun \in Runs \cup {None}
    /\ cursor \in Nat \cup {-1}
    /\ offline \in BOOLEAN
    /\ view \in [Runs -> Seq(Nat)]
    /\ \A r \in Runs : \A n \in Seen(r) : n < Len(events[r])
    /\ cursor # -1 => \E r \in Runs : cursor \in Seen(r)

Init ==
    /\ InitStream
    /\ conn = None
    /\ activeRun = None
    /\ cursor = -1
    /\ offline = FALSE
    /\ view = [r \in Runs |-> <<>>]

-----------------------------------------------------------------------------

\* submit: a fresh run, only while no other is active or being opened.
Submit(p) ==
    /\ p \in Mine
    /\ conn = None
    /\ activeRun = None
    /\ Register(p)
    /\ conn' = p
    /\ UNCHANGED <<activeRun, cursor, offline, view>>

\* The POST is answered with an error: the message is rolled back.
Refused(p) ==
    /\ CommitFails(p)
    /\ conn' = IF conn = p THEN None ELSE conn
    /\ UNCHANGED <<activeRun, cursor, offline, view>>

\* The lastEventSeq after an event with seq n.
Advance(n) == IF n > cursor THEN n ELSE cursor

\* Mutant: the terminal event does not clear activeRunId.
ReceiveKeepsRun(c) ==
    LET r == topic[c]
        n == Head(Ready(c))
    IN  /\ conn = c
        /\ Send(c)
        /\ view' = [view EXCEPT ![r] = Append(@, n)]
        /\ cursor' = Advance(n)
        /\ activeRun' = IF events[r][n + 1][2] = 0 THEN r ELSE activeRun
        /\ conn' = IF IsTerminal(r, n) THEN None ELSE c
        /\ UNCHANGED offline

\* consumeStream and applyAGUIEvent: the event is shown, the cursor never goes
\* back, RUN_STARTED makes the run active and a terminal event ends the loop.
Receive(c) ==
    LET r == topic[c]
        n == Head(Ready(c))
    IN  /\ conn = c
        /\ Send(c)
        /\ view' = [view EXCEPT ![r] = Append(@, n)]
        /\ cursor' = Advance(n)
        /\ activeRun' = CASE events[r][n + 1][2] = 0 -> r
                          [] IsTerminal(r, n) -> None
                          [] OTHER -> activeRun
        /\ conn' = IF IsTerminal(r, n) THEN None ELSE c
        /\ UNCHANGED offline

\* The response ends without a terminal event.  startReconnect looks at nothing
\* the stream returned, so the loop is over and the run stays active.
EndOfReplay(g) ==
    /\ ReplayReturns(g)
    /\ conn' = IF conn = g THEN None ELSE conn
    /\ UNCHANGED <<activeRun, cursor, offline, view>>

\* The connection breaks: during a run a reconnect is scheduled, before
\* RUN_STARTED the message is rolled back.
Break(c) ==
    /\ conn = c
    /\ \E g \in Gets : pc[g] = "idle"
    /\ Cut(c)
    /\ conn' = None
    /\ offline' = (activeRun # None)
    /\ UNCHANGED <<activeRun, cursor, view>>

\* startReconnect.
Reconnect(g) ==
    /\ offline
    /\ OpenGet(g, activeRun, cursor)
    /\ conn' = g
    /\ offline' = FALSE
    /\ UNCHANGED <<activeRun, cursor, view>>

-----------------------------------------------------------------------------

ServerStep ==
    \/ \E p \in Posts : Frame(p) \/ Commit(p) \/ Respond(p) \/ StartPost(p) \/ WriterStep(p)
    \/ \E g \in Gets : FirstReplay(g) \/ SecondReplay(g) \/ ReplayTails(g)
    \/ \E c \in Requests : Unsubscribe(c)

\* Requests of other clients, and of this one once it stopped reading.
OtherStep ==
    \/ \E p \in Posts \ Mine : Register(p)
    \/ \E c \in Requests : conn # c /\ (Send(c) \/ Cut(c))

ClientStep ==
    \/ \E p \in Posts : Submit(p) \/ Refused(p)
    \/ \E c \in Requests : Receive(c) \/ Break(c)
    \/ \E g \in Gets : EndOfReplay(g) \/ Reconnect(g)

Next == ((ServerStep \/ OtherStep) /\ UNCHANGED clientVars) \/ ClientStep

Spec == Init /\ [][Next]_vars

\* A prompt in the inbox is executed, a ready coroutine gets its turn, an open
\* connection is read, and a scheduled reconnect is made.
Fairness ==
    /\ \A p \in Posts :
        /\ WF_vars(Frame(p) /\ UNCHANGED clientVars)
        /\ WF_vars((Commit(p) \/ Respond(p) \/ StartPost(p)) /\ UNCHANGED clientVars)
        /\ WF_vars((WriterSubscribes(p) \/ WriterStores(p) \/ WriterDropped(p)) /\ UNCHANGED clientVars)
    /\ \A g \in Gets :
        /\ WF_vars((FirstReplay(g) \/ SecondReplay(g) \/ ReplayTails(g)) /\ UNCHANGED clientVars)
        /\ WF_vars(EndOfReplay(g))
        /\ WF_vars(Reconnect(g))
    /\ \A c \in Requests : WF_vars(Receive(c))

FairSpec == Spec /\ Fairness

-----------------------------------------------------------------------------
(* Properties. *)

\* The browser has seen all events of a run below the last it saw (behavior.xml:
\* "the system shall replay every event produced after the Analyst's Stream Cursor").
NoGap ==
    \A r \in Runs : \A n \in Seen(r) : \A m \in 0..n : m \in Seen(r)

\* A run the browser follows comes to an end for it (behavior.xml: "On reconnect,
\* System delivers the remaining events of that reply and then idles").
RunEndsForBrowser ==
    \A r \in Runs : activeRun = r ~> activeRun # r

\* The abstract promise, with the events themselves in place of their seqs.
Delivered == INSTANCE DeliveredStream WITH
    Events <- Frames,
    log <- events,
    view <- [r \in Runs |-> [i \in DOMAIN view[r] |-> events[r][view[r][i] + 1]]]

\* Without a lost connection and a full queue, the browser's view of its runs is
\* what was promised.
KeepsThePromise == Delivered!Spec

=============================================================================
