-------------------------- MODULE StreamClientProofs --------------------------
(***************************************************************************)
(* Proofs about StreamClient: the browser and the backend's streams.       *)
(***************************************************************************)
EXTENDS StreamClient, EventStreamProofs

-----------------------------------------------------------------------------
(* The browser and the other clients do only what EventStream lets a client do. *)

ClientTypes ==
    /\ conn \in Requests \cup {None}
    /\ activeRun \in Runs \cup {None}
    /\ cursor \in Nat \cup {-1}
    /\ offline \in BOOLEAN
    /\ view \in [Runs -> Seq(Nat)]

\* A POST never replays.
PhasesKnown ==
    /\ \A p \in Posts : pc[p] \in PostPhases
    /\ \A g \in Gets : pc[g] \in GetPhases

\* TypeOK of both, with what makes it inductive; a reconnect knows its run.
ClientInv ==
    /\ StreamInv
    /\ ClientTypes
    /\ PhasesKnown
    /\ offline => activeRun # None /\ conn = None

\* A step of the backend, or of a request by its own; the rest is the browser's.
LEMMA ClientStreams ==
    ASSUME ClientInv, [Next]_vars PROVE [NextStream]_streamVars
  <1> USE DEF NextStream
  <1>1. ASSUME NEW c \in Requests, Send(c) PROVE NextStream
    <2>1. CASE c \in Posts /\ SendReplayed(c)
      BY <2>1 DEF SendReplayed, ClientInv, PhasesKnown, PostPhases
    <2> QED
      BY <1>1, <2>1 DEF Send, Requests
  <1>2. ASSUME NEW c \in Requests, Cut(c) \/ Unsubscribe(c) PROVE NextStream
    BY <1>2
  <1>3. ASSUME NEW p \in Posts, Frame(p) \/ PostStep(p) \/ WriterStep(p) PROVE NextStream
    BY <1>3
  <1>4. ASSUME NEW g \in Gets, ReplayStep(g) PROVE NextStream
    BY <1>4
  <1>5. CASE ServerStep
    BY <1>2, <1>3, <1>4, <1>5 DEF ServerStep, PostStep, ReplayStep
  <1>6. CASE OtherStep
    BY <1>1, <1>2, <1>3, <1>6 DEF OtherStep, PostStep
  <1>7. ASSUME NEW p \in Posts, Submit(p) \/ Refused(p) PROVE NextStream
    BY <1>3, <1>7 DEF Submit, Refused, PostStep
  <1>8. ASSUME NEW c \in Requests, Receive(c) \/ Break(c) PROVE NextStream
    BY <1>1, <1>2, <1>8 DEF Receive, Break
  <1>9. ASSUME NEW g \in Gets, EndOfReplay(g) PROVE NextStream
    BY <1>4, <1>9 DEF EndOfReplay, ReplayStep
  <1>10. ASSUME NEW g \in Gets, Reconnect(g) PROVE NextStream
    <2>1. OpenGet(g, activeRun, cursor) /\ activeRun \in Runs /\ cursor \in Nat \cup {-1}
      BY <1>10 DEF Reconnect, ClientInv, ClientTypes
    <2> QED
      BY <2>1
  <1>11. CASE UNCHANGED vars
    BY <1>11 DEF vars
  <1> QED
    BY <1>5, <1>6, <1>7, <1>8, <1>9, <1>10, <1>11 DEF Next, ClientStep

LEMMA InitClient == Init => ClientInv
  <1> SUFFICES ASSUME Init PROVE ClientInv
    OBVIOUS
  <1>1. StreamInv
    BY InitStreamType DEF Init
  <1>2. ClientTypes /\ ~offline
    <2>1. view \in [Runs -> Seq(Nat)]
      BY DEF Init
    <2>2. cursor \in Nat \cup {-1}
      BY DEF Init
    <2>3. conn = None /\ activeRun = None /\ offline = FALSE
      BY DEF Init
    <2> QED
      BY <2>1, <2>2, <2>3 DEF ClientTypes
  <1>3. PhasesKnown
    BY DEF Init, InitStream, PhasesKnown, PostPhases, GetPhases, Requests
  <1> QED
    BY <1>1, <1>2, <1>3 DEF ClientInv

LEMMA PhasesStep ==
    ASSUME ClientInv, [Next]_vars PROVE PhasesKnown'
  <1> USE DEF PhasesKnown, PostPhases, GetPhases
  <1>1. /\ pc \in [Requests -> PostPhases \cup GetPhases] /\ PhasesKnown
        /\ Posts \cap Gets = {} /\ Requests = Posts \cup Gets
    BY StreamAssumption DEF ClientInv, StreamInv, TypeOK, Requests
  <1>2. ASSUME NEW p \in Posts, NEW ph \in PostPhases, pc' = [pc EXCEPT ![p] = ph] PROVE PhasesKnown'
    BY <1>1, <1>2
  <1>3. ASSUME NEW g \in Gets, NEW ph \in GetPhases, pc' = [pc EXCEPT ![g] = ph] PROVE PhasesKnown'
    BY <1>1, <1>3
  <1>4. ASSUME UNCHANGED pc PROVE PhasesKnown'
    BY <1>1, <1>4
  <1>5. ASSUME NEW c \in Requests, NEW ph \in {"closing", "closed"}, pc' = [pc EXCEPT ![c] = ph] PROVE PhasesKnown'
    BY <1>1, <1>2, <1>3, <1>5
  <1>6. [NextStream]_streamVars
    BY ClientStreams
  <1>7. ASSUME NEW p \in Posts, PostStep(p) PROVE PhasesKnown'
    BY <1>2, <1>7 DEF PostStep, Register, Commit, CommitFails, Respond, StartPost
  <1>8. ASSUME NEW g \in Gets, ReplayStep(g) PROVE PhasesKnown'
    BY <1>3, <1>8 DEF ReplayStep, FirstReplay, ReplayReturns, SecondReplay, ReplayTails, GoesOn
  <1>9. ASSUME NEW g \in Gets, NEW r, NEW from, OpenGet(g, r, from) PROVE PhasesKnown'
    BY <1>3, <1>9 DEF OpenGet
  <1>10. ASSUME NEW c \in Requests, SendReplayed(c) PROVE PhasesKnown'
    BY <1>4, <1>10 DEF SendReplayed
  <1>13. ASSUME NEW c \in Requests, SendLive(c) \/ Cut(c) \/ Unsubscribe(c) PROVE PhasesKnown'
    BY <1>4, <1>5, <1>13, EndPhases DEF Send, ClientInv
  <1>11. ASSUME NEW p \in Posts, Frame(p) \/ WriterStep(p) PROVE PhasesKnown'
    BY <1>4, <1>11 DEF Frame, WriterStep, WriterSubscribes, WriterStores, WriterFails, WriterIdles, WriterDropped, requestVars
  <1>12. CASE UNCHANGED streamVars
    BY <1>4, <1>12 DEF streamVars, requestVars
  <1> QED
    BY <1>1, <1>6, <1>7, <1>8, <1>9, <1>10, <1>11, <1>12, <1>13 DEF NextStream

\* What the browser is sent: the event at the head of what its request has ready.
LEMMA Receives ==
    ASSUME ClientInv, NEW c \in Requests, Receive(c)
    PROVE  /\ topic[c] \in Runs /\ Ready(c) \in Seq(Nat) /\ Ready(c) # <<>> /\ Head(Ready(c)) \in Nat
           /\ pc[c] \in {"tail", "replay1", "replay2"}
  <1>1. Send(c)
    BY DEF Receive
  <1>2. CASE SendReplayed(c)
    BY <1>2, TopicType DEF SendReplayed, Ready, ClientInv, StreamInv, TypeOK
  <1>3. CASE SendLive(c)
    BY <1>3, TopicType DEF SendLive, Ready, ClientInv, StreamInv, TypeOK
  <1> QED
    BY <1>1, <1>2, <1>3 DEF Send

LEMMA ClientTypesStep ==
    ASSUME ClientInv, [Next]_vars PROVE ClientTypes' /\ (offline' => activeRun' # None /\ conn' = None)
  <1> USE DEF ClientInv, ClientTypes
  <1>1. Posts \cup Gets = Requests /\ None \notin Runs /\ None \notin Requests
    BY RoutingAssumption, StreamAssumption DEF Requests
  <1>2. CASE UNCHANGED clientVars
    BY <1>2 DEF clientVars
  <1>3. ASSUME NEW p \in Posts, Submit(p) PROVE ClientTypes' /\ (offline' => activeRun' # None /\ conn' = None)
    BY <1>1, <1>3 DEF Submit
  <1>4. ASSUME NEW p \in Posts, Refused(p) PROVE ClientTypes' /\ (offline' => activeRun' # None /\ conn' = None)
    BY <1>4 DEF Refused
  <1>5. ASSUME NEW c \in Requests, Receive(c) PROVE ClientTypes' /\ (offline' => activeRun' # None /\ conn' = None)
    <2>1. topic[c] \in Runs /\ Head(Ready(c)) \in Nat
      BY <1>5, Receives
    <2>2. view' \in [Runs -> Seq(Nat)]
      BY <1>5, <2>1 DEF Receive
    <2>3. cursor' \in Nat \cup {-1} /\ conn' \in Requests \cup {None} /\ activeRun' \in Runs \cup {None} /\ offline' = offline
      BY <1>5, <2>1 DEF Receive, Advance
    <2>4. ~offline
      BY <1>1, <1>5 DEF Receive
    <2> QED
      BY <2>2, <2>3, <2>4
  <1>6. ASSUME NEW c \in Requests, Break(c) PROVE ClientTypes' /\ (offline' => activeRun' # None /\ conn' = None)
    BY <1>6 DEF Break
  <1>7. ASSUME NEW g \in Gets, EndOfReplay(g) PROVE ClientTypes' /\ (offline' => activeRun' # None /\ conn' = None)
    BY <1>7 DEF EndOfReplay
  <1>8. ASSUME NEW g \in Gets, Reconnect(g) PROVE ClientTypes' /\ (offline' => activeRun' # None /\ conn' = None)
    BY <1>1, <1>8 DEF Reconnect
  <1>9. CASE UNCHANGED vars
    BY <1>2, <1>9 DEF vars
  <1> QED
    BY <1>2, <1>3, <1>4, <1>5, <1>6, <1>7, <1>8, <1>9 DEF Next, ClientStep

LEMMA ClientStepType == ClientInv /\ [Next]_vars => ClientInv'
  BY ClientStreams, StepStreamType, PhasesStep, ClientTypesStep DEF ClientInv

LEMMA ClientInvariant == Spec => []ClientInv
  BY InitClient, ClientStepType, PTL DEF Spec

\* What the streams promise to all clients they keep with this browser among them.
THEOREM BrowserIsAClient == Spec => StreamSpec
  <1>1. Init => InitStream
    BY DEF Init
  <1>2. ClientInv /\ [Next]_vars => [NextStream]_streamVars
    BY ClientStreams
  <1> QED
    BY <1>1, <1>2, ClientInvariant, PTL DEF Spec, StreamSpec

-----------------------------------------------------------------------------
(* The browser is sent only what its runs have. *)

IdleInv == \A c \in Requests : pc[c] = "idle" => queue[c] = <<>> /\ c \notin subs

LEMMA IdleStep ==
    ASSUME StreamInv, IdleInv, [NextStream]_streamVars PROVE IdleInv'
  <1> USE DEF IdleInv
  <1>1. /\ pc \in [Requests -> PostPhases \cup GetPhases] /\ queue \in [Requests -> Seq(Nat)]
        /\ Requests = Posts \cup Gets
    BY DEF StreamInv, TypeOK, Requests
  <1>2. ASSUME UNCHANGED queue, subs' \subseteq subs, \A c \in Requests : pc'[c] = "idle" => pc[c] = "idle"
        PROVE  IdleInv'
    BY <1>2
  <1>3. ASSUME NEW p \in Posts, Frame(p) PROVE IdleInv'
    <2>1. UNCHANGED pc /\ subs' \subseteq subs /\ \A c \in Requests : c \notin subs => queue'[c] = queue[c]
      BY <1>3 DEF Frame, Publish
    <2> QED
      BY <2>1
  <1>4. ASSUME NEW c \in Requests, NEW ph, ph # "idle", pc' = [pc EXCEPT ![c] = ph],
               subs' \subseteq subs \cup {c}, UNCHANGED queue
        PROVE  IdleInv'
    <2>1. \A x \in Requests : x # c => (pc'[x] = pc[x] /\ (x \in subs' => x \in subs))
      BY <1>1, <1>4
    <2>2. pc'[c] # "idle"
      BY <1>1, <1>4
    <2> QED
      BY <1>4, <2>1, <2>2
  <1>5. ASSUME NEW p \in Posts, PostStep(p) PROVE IdleInv'
    BY <1>1, <1>4, <1>5 DEF PostStep, Register, Commit, CommitFails, Respond, StartPost
  <1>6. ASSUME NEW p \in Posts, WriterStep(p) PROVE IdleInv'
    BY <1>2, <1>6 DEF WriterStep, WriterSubscribes, WriterStores, WriterFails, WriterIdles, WriterDropped, requestVars
  <1>7. ASSUME NEW g \in Gets, ReplayStep(g) PROVE IdleInv'
    BY <1>1, <1>4, <1>7 DEF ReplayStep, FirstReplay, ReplayReturns, SecondReplay, ReplayTails, GoesOn
  <1>8. ASSUME NEW g \in Gets, NEW r, NEW from, OpenGet(g, r, from) PROVE IdleInv'
    BY <1>1, <1>4, <1>8 DEF OpenGet
  <1>9. ASSUME NEW c \in Requests, SendReplayed(c) PROVE IdleInv'
    BY <1>2, <1>9 DEF SendReplayed
  <1>10. ASSUME NEW c \in Requests, SendLive(c) PROVE IdleInv'
    <2>1. pc[c] = "tail" /\ queue' = [queue EXCEPT ![c] = Tail(queue[c])] /\ subs' = subs
      BY <1>10 DEF SendLive
    <2>2. \A x \in Requests : pc'[x] = pc[x] \/ pc'[x] \in {"closing", "closed"}
      BY <1>10, EndPhases DEF Send
    <2>3. \A x \in Requests : x # c => queue'[x] = queue[x]
      BY <1>1, <2>1
    <2> QED
      BY <2>1, <2>2, <2>3
  <1>11. ASSUME NEW c \in Requests, Cut(c) \/ Unsubscribe(c) PROVE IdleInv'
    <2>1. UNCHANGED queue /\ subs' \subseteq subs /\ \A x \in Requests : pc'[x] = pc[x] \/ pc'[x] \in {"closing", "closed"}
      BY <1>11, EndPhases DEF Cut, Unsubscribe
    <2> QED
      BY <1>2, <2>1
  <1>12. CASE UNCHANGED streamVars
    BY <1>2, <1>12 DEF streamVars, requestVars
  <1> QED
    BY <1>1, <1>3, <1>5, <1>6, <1>7, <1>8, <1>9, <1>10, <1>11, <1>12 DEF NextStream

Below(s, m) == \A i \in DOMAIN s : s[i] < m

LEMMA TailBelow ==
    ASSUME NEW s \in Seq(Nat), s # <<>>, NEW m \in Nat, Below(s, m)
    PROVE  Tail(s) \in Seq(Nat) /\ Below(Tail(s), m) /\ Head(s) \in Nat /\ Head(s) < m
  <1>1. /\ Len(s) \in Nat \ {0} /\ Tail(s) \in Seq(Nat) /\ Len(Tail(s)) = Len(s) - 1 /\ Head(s) = s[1]
        /\ \A i \in 1..Len(s) - 1 : Tail(s)[i] = s[i + 1]
    OBVIOUS
  <1>2. \A i \in 1..Len(s) : s[i] < m /\ s[i] \in Nat
    BY DEF Below
  <1>3. \A i \in 1..Len(s) - 1 : i + 1 \in 1..Len(s)
    BY <1>1
  <1> QED
    BY <1>1, <1>2, <1>3 DEF Below

LEMMA SpanBelow ==
    ASSUME NEW lo \in Nat, NEW hi \in Nat PROVE Below(Span(lo, hi), hi)
  <1>1. \A i \in 1..hi - lo : lo + i - 1 < hi
    OBVIOUS
  <1> QED
    BY <1>1 DEF Below, Span

LEMMA ReplayBelow ==
    ASSUME StreamInv, NEW r \in Runs, NEW from \in Nat \cup {-1}
    PROVE  Below(ReplayFrom(r, from), Len(events[r]))
  <1> DEFINE size == Len(events[r])
             oldest == IF size > RingCap THEN size - RingCap ELSE 0
             lo == IF from + 1 > oldest THEN from + 1 ELSE oldest
  <1>1. size \in Nat /\ oldest \in Nat
    BY StreamAssumption DEF StreamInv, TypeOK, RoutingTypeOK
  <1>2. lo \in Nat
    BY <1>1
  <1>3. ReplayFrom(r, from) = Span(lo, size)
    BY DEF ReplayFrom
  <1> HIDE DEF lo
  <1> QED
    BY <1>1, <1>2, <1>3, SpanBelow

LEMMA BelowMore ==
    ASSUME NEW s \in Seq(Nat), NEW m \in Nat, NEW n \in Nat, m <= n, Below(s, m)
    PROVE  Below(s, n)
  <1>1. \A i \in DOMAIN s : s[i] \in Nat /\ s[i] < m
    BY DEF Below
  <1> QED
    BY <1>1 DEF Below

\* A queue that takes what was added to a ring, as far as it fits.
LEMMA FitBelow ==
    ASSUME NEW q \in Seq(Nat), NEW m \in Nat, NEW n \in Nat, m <= n, Below(q, m)
    PROVE  LET s == q \o Span(m, n)
           IN  Below(IF Len(s) > QueueCap THEN SubSeq(s, 1, QueueCap) ELSE s, n)
  <1> DEFINE t == Span(m, n)
             s == q \o t
  <1>0. t \in Seq(Nat)
    BY SpanType
  <1> HIDE DEF t
  <1>1. t \in Seq(Nat) /\ Len(q) \in Nat /\ Len(t) \in Nat
    BY <1>0
  <1> USE DEF t
  <1>2. (\A i \in 1..Len(q) : q[i] < m /\ q[i] \in Nat) /\ (\A i \in 1..Len(t) : t[i] < n)
    BY <1>1, SpanBelow DEF Below
  <1> HIDE DEF t
  <1>3. s \in Seq(Nat) /\ Len(s) = Len(q) + Len(t)
        /\ \A i \in 1..Len(q) + Len(t) : s[i] = IF i <= Len(q) THEN q[i] ELSE t[i - Len(q)]
    BY <1>1, ConcatProperties
  <1> HIDE DEF s
  <1>4. ASSUME NEW i \in 1..Len(q) + Len(t) PROVE s[i] < n
    <2>1. CASE i <= Len(q)
      <3>1. i \in 1..Len(q) /\ s[i] = q[i]
        BY <1>1, <1>3, <2>1
      <3> QED
        BY <1>2, <3>1
    <2>2. CASE ~(i <= Len(q))
      <3>1. i - Len(q) \in 1..Len(t) /\ s[i] = t[i - Len(q)]
        BY <1>1, <1>3, <2>2
      <3> QED
        BY <1>2, <3>1
    <2> QED
      BY <2>1, <2>2
  <1>5. CASE Len(s) > QueueCap
    <2>1. /\ SubSeq(s, 1, QueueCap) \in Seq(Nat) /\ Len(SubSeq(s, 1, QueueCap)) = QueueCap
          /\ \A i \in 1..QueueCap : SubSeq(s, 1, QueueCap)[i] = s[i]
      BY <1>3, <1>5, StreamAssumption
    <2>2. \A i \in 1..QueueCap : i \in 1..Len(q) + Len(t)
      BY <1>1, <1>3, <1>5, StreamAssumption
    <2> QED
      BY <1>4, <1>5, <2>1, <2>2 DEF Below, s, t
  <1>6. CASE ~(Len(s) > QueueCap)
    BY <1>3, <1>4, <1>6 DEF Below, s, t
  <1> QED
    BY <1>5, <1>6 DEF s, t

\* Queues and lists hold seqs of the run they were asked for.
HeldInv ==
    /\ IdleInv
    /\ \A c \in Requests :
        /\ pc[c] = "idle" => replay[c] = <<>>
        /\ Below(queue[c], Len(events[topic[c]]))
        /\ Below(replay[c], Len(events[topic[c]]))

LEMMA HeldStep ==
    ASSUME StreamInv, PhasesKnown, HeldInv, [NextStream]_streamVars PROVE HeldInv'
  <1> SUFFICES ASSUME NEW c \in Requests
               PROVE  /\ pc'[c] = "idle" => replay'[c] = <<>>
                      /\ Below(queue'[c], Len(events'[topic'[c]]))
                      /\ Below(replay'[c], Len(events'[topic'[c]]))
    BY IdleStep DEF HeldInv
  <1> DEFINE Goal == /\ pc'[c] = "idle" => replay'[c] = <<>>
                     /\ Below(queue'[c], Len(events'[topic'[c]]))
                     /\ Below(replay'[c], Len(events'[topic'[c]]))
  <1>1. /\ pc \in [Requests -> PostPhases \cup GetPhases] /\ queue \in [Requests -> Seq(Nat)]
        /\ replay \in [Requests -> Seq(Nat)] /\ highest \in [Requests -> Nat \cup {-1}]
        /\ topic \in [Requests -> Runs \cup {None}] /\ Requests = Posts \cup Gets
        /\ \A r \in Runs : Len(events[r]) \in Nat
    BY DEF StreamInv, TypeOK, RoutingTypeOK, Requests
  <1>2. /\ pc[c] = "idle" => replay[c] = <<>> /\ queue[c] = <<>> /\ c \notin subs
        /\ Below(queue[c], Len(events[topic[c]])) /\ Below(replay[c], Len(events[topic[c]]))
    BY DEF HeldInv, IdleInv
  <1>3. ASSUME UNCHANGED <<events, topic, queue, replay>>, pc'[c] = "idle" => pc[c] = "idle" PROVE Goal
    BY <1>2, <1>3
  <1>4. ASSUME NEW p \in Posts, Frame(p) PROVE Goal
    <2>1. /\ UNCHANGED <<pc, topic, replay>>
          /\ queue'[c] = IF c \in subs
                         THEN LET s == queue[c] \o Span(Len(events[topic[c]]), Len(events'[topic[c]]))
                              IN  IF Len(s) > QueueCap THEN SubSeq(s, 1, QueueCap) ELSE s
                         ELSE queue[c]
      BY <1>4 DEF Frame, Publish
    <2>2. CASE topic[c] \in Runs
      <3>1. PICK m \in Nat, n \in Nat : m = Len(events[topic[c]]) /\ n = Len(events'[topic[c]]) /\ m <= n
        BY <2>2, RingsGrow DEF StreamInv
      <3>2. queue[c] \in Seq(Nat) /\ replay[c] \in Seq(Nat) /\ Below(queue[c], m) /\ Below(replay[c], m)
        BY <1>1, <1>2, <3>1
      <3>3. Below(queue[c], n) /\ Below(replay[c], n)
        BY <3>1, <3>2, BelowMore
      <3>4. ASSUME c \in subs PROVE Below(queue'[c], n)
        <4>1. queue'[c] = LET t == queue[c] \o Span(m, n)
                          IN  IF Len(t) > QueueCap THEN SubSeq(t, 1, QueueCap) ELSE t
          BY <2>1, <3>1, <3>4
        <4>2. Below(IF Len(queue[c] \o Span(m, n)) > QueueCap
                    THEN SubSeq(queue[c] \o Span(m, n), 1, QueueCap) ELSE queue[c] \o Span(m, n), n)
          BY <3>1, <3>2, FitBelow
        <4> QED
          BY <4>1, <4>2
      <3> QED
        BY <1>2, <2>1, <3>1, <3>3, <3>4
    <2>3. CASE topic[c] \notin Runs
      <3>1. pc[c] = "idle" /\ c \notin subs
        BY <2>3, TopicType
      <3> QED
        BY <1>2, <2>1, <3>1 DEF Below
    <2> QED
      BY <2>2, <2>3
  <1>5. ASSUME NEW p \in Posts, PostStep(p) PROVE Goal
    <2>1. UNCHANGED <<events, topic, queue, replay>>
      BY <1>5 DEF PostStep, Register, Commit, Queued, CommitFails, Respond, StartPost, routingVars
    <2>2. pc'[c] = "idle" => pc[c] = "idle"
      BY <1>1, <1>5 DEF PostStep, Register, Commit, CommitFails, Respond, StartPost
    <2> QED
      BY <1>3, <2>1, <2>2
  <1>6. ASSUME NEW p \in Posts, WriterStep(p) PROVE Goal
    <2>1. UNCHANGED <<events, topic, queue, replay, pc>>
      BY <1>6 DEF WriterStep, WriterSubscribes, WriterStores, WriterFails, WriterIdles, WriterDropped,
                  routingVars, requestVars
    <2> QED
      BY <1>3, <2>1
  <1>7. ASSUME NEW g \in Gets, ReplayStep(g) PROVE Goal
    <2>1. UNCHANGED <<events, topic, queue>> /\ pc[g] # "idle"
      BY <1>7 DEF ReplayStep, FirstReplay, FirstReplayDone, ReplayReturns, SecondReplay, ReplayTails, GoesOn, routingVars
    <2>2. \E ph \in {"replay1", "replay2", "tail", "closed"}, list \in {<<>>, ReplayFrom(topic[g], highest[g])} :
              pc' = [pc EXCEPT ![g] = ph] /\ replay' = [replay EXCEPT ![g] = list]
      BY <1>7 DEF ReplayStep, FirstReplay, ReplayReturns, SecondReplay, ReplayTails, GoesOn
    <2>3. CASE g = c
      <3>1. topic[c] \in Runs /\ highest[c] \in Nat \cup {-1}
        BY <1>1, <2>1, <2>3, TopicType
      <3>2. pc'[c] # "idle" /\ (replay'[c] = <<>> \/ replay'[c] = ReplayFrom(topic[c], highest[c]))
        BY <1>1, <2>2, <2>3
      <3>3. Below(replay'[c], Len(events[topic[c]]))
        <4>1. Below(<<>>, Len(events[topic[c]]))
          BY DEF Below
        <4> QED
          BY <3>1, <3>2, <4>1, ReplayBelow
      <3> QED
        BY <1>2, <2>1, <3>2, <3>3
    <2>4. CASE g # c
      <3>1. pc'[c] = pc[c] /\ replay'[c] = replay[c]
        BY <1>1, <2>2, <2>4
      <3> QED
        BY <1>2, <2>1, <3>1
    <2> QED
      BY <2>3, <2>4
  <1>8. ASSUME NEW g \in Gets, NEW r, NEW from, OpenGet(g, r, from) PROVE Goal
    <2>1. /\ UNCHANGED <<events, queue, replay>> /\ pc[g] = "idle" /\ pc' = [pc EXCEPT ![g] = "open"]
          /\ topic' = [topic EXCEPT ![g] = r]
      BY <1>8 DEF OpenGet, routingVars
    <2>2. CASE g = c
      BY <1>1, <1>2, <2>1, <2>2 DEF Below
    <2>3. CASE g # c
      <3>1. pc'[c] = pc[c] /\ topic'[c] = topic[c]
        BY <1>1, <2>1, <2>3
      <3> QED
        BY <1>2, <2>1, <3>1
    <2> QED
      BY <2>2, <2>3
  <1>9. ASSUME NEW d \in Requests, SendReplayed(d) \/ SendLive(d) \/ Cut(d) \/ Unsubscribe(d) PROVE Goal
    <2>1. UNCHANGED <<events, topic>> /\ (pc'[c] = "idle" => pc[c] = "idle" /\ d # c)
      <3>1. pc[d] # "idle" /\ UNCHANGED <<events, topic>>
        BY <1>9 DEF SendReplayed, SendLive, Cut, Unsubscribe, routingVars
      <3> QED
        BY <1>9, <3>1, EndPhases DEF Send
    <2>2. d # c => queue'[c] = queue[c] /\ replay'[c] = replay[c]
      BY <1>1, <1>9 DEF SendReplayed, SendLive, Cut, Unsubscribe
    <2>3. CASE d = c
      <3>1. /\ queue'[c] = queue[c] \/ (queue[c] # <<>> /\ queue'[c] = Tail(queue[c]) /\ pc[c] = "tail")
            /\ \/ replay'[c] = replay[c] \/ replay'[c] = <<>>
               \/ replay[c] # <<>> /\ replay'[c] = Tail(replay[c]) /\ pc[c] \in {"replay1", "replay2"}
        BY <1>1, <1>9, <2>3 DEF SendReplayed, SendLive, Cut, Unsubscribe
      <3>2. pc[c] # "idle" /\ topic[c] \in Runs
        <4>1. pc[c] # "idle"
          BY <1>9, <2>3 DEF SendReplayed, SendLive, Cut, Unsubscribe
        <4> QED
          BY <4>1, TopicType
      <3>3. PICK m \in Nat : m = Len(events[topic[c]])
        BY <1>1, <3>2
      <3>4. Below(queue'[c], m)
        BY <1>1, <1>2, <3>1, <3>3, TailBelow
      <3>5. Below(replay'[c], m)
        <4>1. Below(<<>>, m)
          BY DEF Below
        <4> QED
          BY <1>1, <1>2, <3>1, <3>3, <4>1, TailBelow
      <3> QED
        BY <2>1, <2>3, <3>3, <3>4, <3>5
    <2>4. CASE d # c
      BY <1>2, <2>1, <2>2, <2>4
    <2> QED
      BY <2>3, <2>4
  <1>10. CASE UNCHANGED streamVars
    BY <1>3, <1>10 DEF streamVars, routingVars, requestVars
  <1> HIDE DEF Goal
  <1>11. ASSUME NextStream PROVE Goal
    <2>1. CASE \E p \in Posts : Frame(p) \/ PostStep(p) \/ WriterStep(p)
      BY <1>4, <1>5, <1>6, <2>1
    <2>2. CASE \E g \in Gets : ReplayStep(g) \/ SendReplayed(g)
      BY <1>1, <1>7, <1>9, <2>2
    <2>3. CASE \E g \in Gets, r \in Runs : \E from \in Nat \cup {-1} : OpenGet(g, r, from)
      BY <1>8, <2>3
    <2>4. CASE \E d \in Requests : SendLive(d) \/ Cut(d) \/ Unsubscribe(d)
      BY <1>9, <2>4
    <2> QED
      BY <1>11, <2>1, <2>2, <2>3, <2>4 DEF NextStream
  <1> QED
    BY <1>10, <1>11 DEF Goal

\* The browser was sent no seq that the run has not reached, and its cursor is one of those.
SeenInv ==
    /\ \A r \in Runs : \A n \in Seen(r) : n < Len(events[r])
    /\ cursor # -1 => \E r \in Runs : cursor \in Seen(r)

LEMMA SeenStep ==
    ASSUME ClientInv, HeldInv, SeenInv, [Next]_vars PROVE SeenInv'
  <1>1. /\ view \in [Runs -> Seq(Nat)] /\ cursor \in Nat \cup {-1}
        /\ \A r \in Runs : /\ Len(events[r]) \in Nat /\ Len(events'[r]) \in Nat
                           /\ Len(events[r]) <= Len(events'[r])
                           /\ Seen(r) \subseteq Nat
    BY ClientStreams, RingsGrow DEF ClientInv, ClientTypes, StreamInv, Seen
  <1>2. ASSUME UNCHANGED <<cursor, view>> PROVE SeenInv'
    <2>1. \A r \in Runs : Seen(r)' = Seen(r)
      BY <1>2 DEF Seen
    <2> QED
      BY <1>1, <1>2, <2>1 DEF SeenInv
  <1>3. ASSUME NEW c \in Requests, Receive(c) PROVE SeenInv'
    <2>1. PICK r \in Runs, n \in Nat : r = topic[c] /\ n = Head(Ready(c))
      BY <1>3, Receives DEF ClientInv
    <2>2. n < Len(events[r])
      <3>1. Below(Ready(c), Len(events[r])) /\ Ready(c) \in Seq(Nat) /\ Ready(c) # <<>>
        BY <1>3, <2>1, Receives DEF Ready, HeldInv
      <3>2. Len(events[r]) \in Nat
        BY <1>1, <2>1
      <3> QED
        BY <2>1, <3>1, <3>2, TailBelow
    <2>3. view' = [view EXCEPT ![r] = Append(view[r], n)] /\ (cursor' = n \/ cursor' = cursor)
      BY <1>3, <2>1 DEF Receive, Advance
    <2>4. Seen(r)' = Seen(r) \cup {n}
      <3>1. view'[r] = Append(view[r], n) /\ view[r] \in Seq(Nat)
        BY <1>1, <2>1, <2>3
      <3>2. /\ DOMAIN view'[r] = DOMAIN view[r] \cup {Len(view[r]) + 1} /\ view'[r][Len(view[r]) + 1] = n
            /\ \A i \in DOMAIN view[r] : view'[r][i] = view[r][i]
        BY <2>1, <3>1
      <3> QED
        BY <3>2 DEF Seen
    <2>5. \A s \in Runs : s # r => Seen(s)' = Seen(s)
      BY <1>1, <2>3 DEF Seen
    <2>6. ASSUME NEW s \in Runs, NEW x \in Seen(s)' PROVE x < Len(events'[s])
      <3>1. CASE s = r /\ x = n
        BY <1>1, <2>1, <2>2, <3>1
      <3>2. CASE x \in Seen(s)
        <4>1. x \in Nat /\ x < Len(events[s])
          BY <1>1, <3>2 DEF SeenInv
        <4> QED
          BY <1>1, <4>1
      <3> QED
        BY <2>4, <2>5, <2>6, <3>1, <3>2
    <2>7. cursor' # -1 => \E s \in Runs : cursor' \in Seen(s)'
      <3>1. CASE cursor' = n
        BY <2>1, <2>4, <3>1
      <3>2. CASE cursor' = cursor
        BY <2>4, <2>5, <3>2 DEF SeenInv
      <3> QED
        BY <2>3, <3>1, <3>2
    <2> QED
      BY <2>6, <2>7 DEF SeenInv
  <1>4. CASE UNCHANGED vars
    BY <1>2, <1>4 DEF vars, clientVars
  <1>5. CASE UNCHANGED clientVars
    BY <1>2, <1>5 DEF clientVars
  <1>6. CASE ClientStep
    BY <1>2, <1>3, <1>6 DEF ClientStep, Submit, Refused, Break, EndOfReplay, Reconnect
  <1> QED
    BY <1>4, <1>5, <1>6 DEF Next

\* The browser's run loop is well typed, it is sent no event that the run does not have,
\* and the cursor it reconnects with is the seq of one it was sent (runLoop.ts,
\* reducer.ts), whatever runs, connections and other clients there are.
THEOREM ClientTyped == Spec => []ClientTypeOK
  <1>1. ClientInv /\ SeenInv => ClientTypeOK
    BY DEF ClientInv, ClientTypes, StreamInv, ClientTypeOK, SeenInv
  <1>2. Init => HeldInv /\ SeenInv
    BY DEF Init, InitStream, HeldInv, IdleInv, SeenInv, Seen, Below
  <1>3. ClientInv /\ HeldInv /\ SeenInv /\ [Next]_vars => HeldInv' /\ SeenInv'
    BY ClientStreams, HeldStep, SeenStep DEF ClientInv
  <1> QED
    BY <1>1, <1>2, <1>3, ClientInvariant, PTL DEF Spec

-----------------------------------------------------------------------------
(* The browser misses no event of a run it is reconnected to. *)

\* One POST and its run, whose events the ring holds but for the first.
OneRunKept ==
    /\ \E p, r : Posts = {p} /\ Runs = {r}
    /\ Last <= RingCap

\* A run has no more events than its execution has emitted.
RingInv ==
    \A p \in Posts, r \in Runs :
        /\ Len(events[r]) + Len(pending) <= emitted[p]
        /\ pc[p] \in {"idle", "registered"} => events[r] = <<>>

\* The browser has seen what is up to its cursor.
CursorInv ==
    \A r \in Runs :
        /\ Seen(r) = 0..cursor
        /\ cursor < Len(events[r])
        /\ activeRun # None => cursor >= 0

\* What is in the queue and what is left to replay goes on from the cursor: once the
\* replay is over the queue starts no later than there, and the replay ends no earlier
\* than the queue starts.
FollowsOn(c, a, b) ==
    LET size == Len(events[topic[c]])
    IN  /\ a <= b /\ b <= size /\ queue[c] = Span(a, b)
        /\ c \in subs => b = size
        /\ c \in Posts \/ pc[c] = "tail" => a <= cursor + 1
        /\ c \in Gets /\ pc[c] \in {"open", "replay1", "replay2"} => highest[c] = cursor /\ cursor >= 0
        /\ pc[c] \in {"replay1", "replay2"} =>
            \E e \in 0..size : a <= e /\ cursor + 1 <= e /\ replay[c] = Span(cursor + 1, e)

ConnInv ==
    \A c \in Requests : conn = c =>
        pc[c] # "idle" /\ \E a, b \in 0..Len(events[topic[c]]) : FollowsOn(c, a, b)

LEMMA RingStep ==
    ASSUME OneRunKept, ClientInv, PostsInv, RingInv, [Next]_vars PROVE RingInv'
  <1> SUFFICES ASSUME NEW p \in Posts, NEW r \in Runs
               PROVE  /\ Len(events'[r]) + Len(pending') <= emitted'[p]
                      /\ pc'[p] \in {"idle", "registered"} => events'[r] = <<>>
    BY DEF RingInv
  <1>1. /\ Posts = {p} /\ Runs = {r} /\ RunOf[p] = r /\ RoutingTypeOK
        /\ pc \in [Requests -> PostPhases \cup GetPhases] /\ p \in Requests /\ p \notin Gets
        /\ events[r] \in Seq(Frames) /\ Len(events[r]) \in Nat /\ pending \in Seq(Frames) /\ Len(pending) \in Nat
        /\ emitted[p] \in Nat
        /\ Len(events[r]) + Len(pending) <= emitted[p]
        /\ pc[p] \in {"idle", "registered"} => events[r] = <<>>
    BY RoutingAssumption, StreamAssumption
       DEF OneRunKept, ClientInv, StreamInv, TypeOK, RoutingTypeOK, Requests, RingInv
  <1>2. [NextStream]_streamVars
    BY ClientStreams
  <1>3. ASSUME UNCHANGED <<events, pending, emitted>>, pc'[p] \in {"idle", "registered"} => pc[p] \in {"idle", "registered"}
        PROVE  /\ Len(events'[r]) + Len(pending') <= emitted'[p]
               /\ pc'[p] \in {"idle", "registered"} => events'[r] = <<>>
    BY <1>1, <1>3
  <1>4. ASSUME NEW q \in Posts, Frame(q)
        PROVE  /\ Len(events'[r]) + Len(pending') <= emitted'[p]
               /\ pc'[p] \in {"idle", "registered"} => events'[r] = <<>>
    <2>1. q = p /\ Dispatch(p) /\ pc' = pc /\ Emits(p)
      BY <1>1, <1>4 DEF Frame, Dispatch, RunStarted, RunEnded, Routed, Parked
    <2>2. pc[p] \notin {"idle", "registered"}
      BY <2>1 DEF Emits, PostsInv
    <2>3. emitted'[p] = emitted[p] + 1
      BY <1>1, <2>1, EmitsType
    <2>4. CASE RunStarted(p)
      <3> DEFINE added == <<<<p, 0>>>> \o pending
      <3>1. Stamp(r, added) /\ pending' = <<>>
        BY <1>1, <2>4 DEF RunStarted, StartedArrives
      <3>2. added \in Seq(Frames) /\ Len(added) = Len(pending) + 1
        BY <1>1, StartedFrames
      <3> HIDE DEF added
      <3>3. Len(events'[r]) = Len(events[r]) + Len(added)
        BY <1>1, <3>1, <3>2, Stamped
      <3>4. Len(events'[r]) = Len(events[r]) + (Len(pending) + 1)
        BY <3>2, <3>3
      <3>5. Len(pending') = 0
        BY <3>1
      <3>6. Len(events'[r]) + Len(pending') <= emitted'[p]
        <4>1. /\ Len(events[r]) \in Nat /\ Len(pending) \in Nat /\ emitted[p] \in Nat
              /\ Len(events[r]) + Len(pending) <= emitted[p]
          BY <1>1
        <4>2. PICK m \in Nat, k \in Nat : m = Len(events[r]) /\ k = Len(pending)
          BY <4>1
        <4>3. Len(events'[r]) = m + (k + 1)
          BY <3>4, <4>2
        <4>4. m + k <= emitted[p] /\ emitted[p] \in Nat
          BY <4>1, <4>2
        <4>5. emitted'[p] = emitted[p] + 1
          BY <2>3
        <4>6. m + (k + 1) <= emitted'[p]
          BY <4>4, <4>5
        <4>7. Len(events'[r]) <= emitted'[p]
          BY <4>3, <4>6
        <4>8. Len(events'[r]) + 0 = Len(events'[r])
          BY <4>3
        <4> QED
          BY <3>5, <4>7, <4>8
      <3> QED
        BY <2>1, <2>2, <3>6
    <2>5. CASE RunEnded(p)
      <3>1. Stamp(r, <<<<p, Last>>>>) /\ pending' = pending /\ Last \in 0..Last
        BY <1>1, <2>5, RoutingAssumption DEF RunEnded, EndedArrives
      <3>2. <<<<p, Last>>>> \in Seq(Frames) /\ Len(<<<<p, Last>>>>) = 1
        BY <3>1, OneFrame
      <3>3. Len(events'[r]) = Len(events[r]) + 1
        BY <1>1, <3>1, <3>2, Stamped
      <3> QED
        BY <1>1, <2>1, <2>2, <2>3, <3>1, <3>3
    <2>6. CASE Routed(p)
      <3>1. Stamp(r, <<<<p, emitted[p]>>>>) /\ pending' = pending /\ emitted[p] \in 0..Last
        BY <1>1, <2>6, RoutingAssumption DEF Routed, GoesToActive, RoutingTypeOK
      <3>2. <<<<p, emitted[p]>>>> \in Seq(Frames) /\ Len(<<<<p, emitted[p]>>>>) = 1
        BY <3>1, OneFrame
      <3>3. Len(events'[r]) = Len(events[r]) + 1
        BY <1>1, <3>1, <3>2, Stamped
      <3> QED
        BY <1>1, <2>1, <2>2, <2>3, <3>1, <3>3
    <2>7. CASE Parked(p)
      <3>1. events' = events /\ (pending' = pending \/ pending' = Append(pending, <<p, emitted[p]>>))
        BY <2>7 DEF Parked, Waits
      <3>2. Len(pending') <= Len(pending) + 1
        BY <1>1, <3>1
      <3>3. Len(pending') \in Nat
        BY <1>1, <3>1
      <3> QED
        BY <1>1, <2>1, <2>2, <2>3, <3>1, <3>2, <3>3
    <2> QED
      BY <2>1, <2>4, <2>5, <2>6, <2>7 DEF Dispatch
  <1>5. ASSUME NEW q \in Posts, PostStep(q)
        PROVE  UNCHANGED <<events, pending, emitted>> /\ (pc'[p] \in {"idle", "registered"} => pc[p] \in {"idle", "registered"})
    <2>1. q = p
      BY <1>1
    <2> QED
      BY <1>1, <1>5, <2>1 DEF PostStep, Register, Commit, Queued, CommitFails, Respond, StartPost, routingVars
  <1>6. ASSUME NEW q \in Posts, WriterStep(q)
        PROVE  UNCHANGED <<events, pending, emitted, pc>>
    BY <1>6 DEF WriterStep, WriterSubscribes, WriterStores, WriterFails, WriterIdles, WriterDropped, routingVars, requestVars
  <1>7. ASSUME NEW g \in Gets, ReplayStep(g) PROVE UNCHANGED <<events, pending, emitted>> /\ pc'[p] = pc[p]
    BY <1>1, <1>7 DEF ReplayStep, FirstReplay, ReplayReturns, SecondReplay, ReplayTails, GoesOn, routingVars
  <1>8. ASSUME NEW g \in Gets, NEW q, NEW from, OpenGet(g, q, from)
        PROVE UNCHANGED <<events, pending, emitted>> /\ pc'[p] = pc[p]
    BY <1>1, <1>8 DEF OpenGet, routingVars
  <1>9. ASSUME NEW c \in Requests, SendReplayed(c) \/ SendLive(c) \/ Cut(c) \/ Unsubscribe(c)
        PROVE  UNCHANGED <<events, pending, emitted>> /\ (pc'[p] = pc[p] \/ pc'[p] \in {"closing", "closed"})
    <2>1. UNCHANGED <<events, pending, emitted>>
      BY <1>9 DEF SendReplayed, SendLive, Cut, Unsubscribe, routingVars
    <2> QED
      BY <1>1, <1>9, <2>1, EndPhases DEF Send, ClientInv
  <1>10. CASE UNCHANGED streamVars
    BY <1>3, <1>10 DEF streamVars, routingVars, requestVars
  <1> QED
    BY <1>2, <1>3, <1>4, <1>5, <1>6, <1>7, <1>8, <1>9, <1>10 DEF NextStream, Requests

\* With one run, a replay from a cursor in it misses nothing.
LEMMA ReplayAll ==
    ASSUME OneRunKept, ClientInv, RingInv, NEW r \in Runs, NEW from \in Nat
    PROVE  ReplayFrom(r, from) = Span(from + 1, Len(events[r]))
  <1>1. PICK p \in Posts : TRUE
    BY DEF OneRunKept
  <1>2. /\ Len(events[r]) \in Nat /\ Len(pending) \in Nat /\ emitted[p] <= Last + 1 /\ emitted[p] \in Nat
        /\ Len(events[r]) + Len(pending) <= emitted[p]
    BY RoutingAssumption, SMTT(30) DEF ClientInv, StreamInv, TypeOK, RoutingTypeOK, RingInv
  <1>3. Len(events[r]) <= RingCap + 1 /\ RingCap \in Nat
    BY <1>2, RoutingAssumption, StreamAssumption DEF OneRunKept
  <1> DEFINE size == Len(events[r])
             oldest == IF size > RingCap THEN size - RingCap ELSE 0
  <1>4. oldest <= 1 /\ oldest \in Nat
    BY <1>2, <1>3
  <1>5. ReplayFrom(r, from) = Span(IF from + 1 > oldest THEN from + 1 ELSE oldest, size)
    BY DEF ReplayFrom
  <1> HIDE DEF size, oldest
  <1>6. (IF from + 1 > oldest THEN from + 1 ELSE oldest) = from + 1
    BY <1>4
  <1> QED
    BY <1>5, <1>6 DEF size

LEMMA SpanPrefix ==
    ASSUME NEW lo \in Nat, NEW hi \in Nat, NEW n \in Nat, lo <= hi, n <= hi - lo
    PROVE  SubSeq(Span(lo, hi), 1, n) = Span(lo, lo + n)
  <1> DEFINE s == Span(lo, hi)
             t == Span(lo, lo + n)
  <1>1. s \in Seq(Nat) /\ Len(s) = hi - lo /\ \A i \in 1..hi - lo : s[i] = lo + i - 1
    BY SpanIs
  <1>2. lo <= lo + n /\ lo + n \in Nat /\ lo + n - lo = n
    OBVIOUS
  <1>3. t \in Seq(Nat) /\ Len(t) = n /\ \A i \in 1..n : t[i] = lo + i - 1
    BY <1>2, SpanIs
  <1> HIDE DEF s, t
  <1>4. SubSeq(s, 1, n) \in Seq(Nat) /\ Len(SubSeq(s, 1, n)) = n /\ \A i \in 1..n : SubSeq(s, 1, n)[i] = s[i]
    BY <1>1
  <1>5. Len(SubSeq(s, 1, n)) = Len(t) /\ \A i \in 1..Len(SubSeq(s, 1, n)) : SubSeq(s, 1, n)[i] = t[i]
    BY <1>1, <1>3, <1>4
  <1>6. SubSeq(s, 1, n) = t
    BY <1>3, <1>4, <1>5, SeqEqual
  <1> QED
    BY <1>6 DEF s, t

LEMMA SpanOver ==
    ASSUME NEW lo \in Nat, NEW hi \in Nat, lo <= hi, Span(lo, hi) = <<>>
    PROVE  lo = hi
  <1>1. Len(Span(lo, hi)) = hi - lo
    BY SpanIs
  <1> QED
    BY <1>1

\* A frame lengthens what the browser has before it, or cuts it off at the queue's bound.
LEMMA FrameFollows ==
    ASSUME ClientInv, NEW p \in Posts, Frame(p), UNCHANGED cursor, NEW c \in Requests, topic[c] \in Runs,
           NEW a \in 0..Len(events[topic[c]]), NEW b \in 0..Len(events[topic[c]]), FollowsOn(c, a, b)
    PROVE  \E d \in 0..Len(events'[topic'[c]]) : a <= d /\ FollowsOn(c, a, d)'
  <1> DEFINE size == Len(events[topic[c]])
             grown == Len(events'[topic[c]])
  <1>1. /\ UNCHANGED <<pc, topic, replay, highest>> /\ [NextStream]_streamVars
        /\ subs' = {x \in subs : Len(queue[x]) + Len(Span(Len(events[topic[x]]), Len(events'[topic[x]]))) <= QueueCap}
        /\ queue'[c] = IF c \in subs
                       THEN LET q == queue[c] \o Span(size, grown)
                            IN  IF Len(q) > QueueCap THEN SubSeq(q, 1, QueueCap) ELSE q
                       ELSE queue[c]
    BY DEF Frame, Publish, NextStream
  <1>2. size \in Nat /\ grown \in Nat /\ size <= grown
    BY <1>1, RingsGrow DEF ClientInv, StreamInv
  <1>3. /\ a \in Nat /\ b \in Nat /\ a <= b /\ b <= size /\ queue[c] = Span(a, b) /\ (c \in subs => b = size)
    BY <1>2 DEF FollowsOn
  <1>4. ASSUME NEW d \in Nat, a <= d, d <= grown, queue'[c] = Span(a, d), c \in subs' => d = grown
        PROVE  d \in 0..Len(events'[topic'[c]]) /\ a <= d /\ FollowsOn(c, a, d)'
    <2>1. topic'[c] = topic[c] /\ pc'[c] = pc[c] /\ highest'[c] = highest[c] /\ replay'[c] = replay[c]
      BY <1>1
    <2>2. pc[c] \in {"replay1", "replay2"} =>
            \E e \in 0..grown : a <= e /\ cursor + 1 <= e /\ replay[c] = Span(cursor + 1, e)
      <3>1. \A e \in 0..size : e \in 0..grown
        BY <1>2
      <3> QED
        BY <3>1 DEF FollowsOn
    <2>3. /\ c \in Posts \/ pc[c] = "tail" => a <= cursor + 1
          /\ c \in Gets /\ pc[c] \in {"open", "replay1", "replay2"} => highest[c] = cursor /\ cursor >= 0
      BY DEF FollowsOn
    <2> HIDE DEF size, grown
    <2>4. grown = Len(events'[topic'[c]])
      BY <2>1 DEF grown
    <2>5. d \in 0..grown
      BY <1>4
    <2> QED
      BY <1>4, <2>1, <2>2, <2>3, <2>4, <2>5 DEF FollowsOn
  <1>7. c \in subs' <=> c \in subs /\ Len(queue[c]) + Len(Span(size, grown)) <= QueueCap
    BY <1>1
  <1>8. c \in subs => queue'[c] = LET q == queue[c] \o Span(size, grown)
                                 IN  IF Len(q) > QueueCap THEN SubSeq(q, 1, QueueCap) ELSE q
    BY <1>1
  <1>9. c \notin subs => queue'[c] = queue[c]
    BY <1>1
  <1> HIDE DEF size, grown
  <1>5. CASE c \notin subs
    <2>1. queue'[c] = Span(a, b) /\ c \notin subs' /\ b <= grown
      BY <1>2, <1>3, <1>5, <1>7, <1>9
    <2> QED
      BY <1>3, <1>4, <2>1
  <1>6. CASE c \in subs
    <2>1. queue[c] = Span(a, size) /\ a <= size
      BY <1>3, <1>6
    <2>2. a <= grown
      BY <1>2, <2>1
    <2>3. queue[c] \o Span(size, grown) = Span(a, grown)
      <3>1. a \in Nat /\ size \in Nat /\ grown \in Nat /\ a <= size /\ size <= grown
        BY <1>2, <1>3, <2>1
      <3>2. Span(a, size) \o Span(size, grown) = Span(a, grown)
        BY <3>1, SpanConcat
      <3> QED
        BY <2>1, <3>2
    <2>4. QueueCap \in Nat
      BY StreamAssumption
    <2>5. Len(Span(a, grown)) = grown - a
      BY <1>2, <1>3, <2>2, SpanIs
    <2>6. Len(Span(a, size)) = size - a
      BY <1>2, <1>3, <2>1, SpanIs
    <2>7. Len(Span(size, grown)) = grown - size
      BY <1>2, SpanIs
    <2>8. CASE grown - a > QueueCap
      <3>1. queue'[c] = SubSeq(Span(a, grown), 1, QueueCap)
        BY <1>6, <1>8, <2>3, <2>5, <2>8
      <3>2. QueueCap <= grown - a
        BY <1>2, <1>3, <2>4, <2>8
      <3>3. queue'[c] = Span(a, a + QueueCap)
        BY <1>2, <1>3, <2>2, <2>4, <3>1, <3>2, SpanPrefix
      <3>4. c \notin subs'
        <4>1. Len(queue[c]) + Len(Span(size, grown)) = (size - a) + (grown - size)
          BY <2>1, <2>6, <2>7
        <4>2. ~((size - a) + (grown - size) <= QueueCap)
          BY <1>2, <1>3, <2>4, <2>8
        <4> QED
          BY <1>7, <4>1, <4>2
      <3>5. a + QueueCap \in Nat /\ a <= a + QueueCap /\ a + QueueCap <= grown
        BY <1>2, <1>3, <2>4, <3>2
      <3> QED
        BY <1>4, <3>3, <3>4, <3>5
    <2>9. CASE ~(grown - a > QueueCap)
      <3>1. queue'[c] = Span(a, grown)
        BY <1>6, <1>8, <2>3, <2>5, <2>9
      <3> QED
        BY <1>2, <1>4, <2>2, <3>1
    <2> QED
      BY <2>8, <2>9
  <1> QED
    BY <1>5, <1>6

LEMMA FollowsSame ==
    ASSUME NEW c, NEW a, NEW b, FollowsOn(c, a, b),
           UNCHANGED <<events, cursor, queue[c], topic[c], highest[c], replay[c]>>, c \in subs' => c \in subs,
           \/ pc'[c] = pc[c]
           \/ c \in Posts /\ c \notin Gets /\ pc'[c] \notin {"replay1", "replay2"}
           \/ pc'[c] = "closed"
    PROVE  FollowsOn(c, a, b)'
  BY DEF FollowsOn

\* Going on from one list to the next, or to the queue, leaves no event out.
LEMMA ReplayFollows ==
    ASSUME OneRunKept, ClientInv, RingInv, CursorInv, NEW g \in Gets, topic[g] \in Runs,
           NEW a \in Nat, NEW b \in Nat, FollowsOn(g, a, b),
           FirstReplay(g) \/ SecondReplay(g) \/ ReplayTails(g), UNCHANGED cursor
    PROVE  FollowsOn(g, a, b)' /\ pc'[g] # "idle"
  <1> DEFINE size == Len(events[topic[g]])
             fresh == ReplayFrom(topic[g], highest[g])
  <1>1. /\ pc \in [Requests -> PostPhases \cup GetPhases] /\ replay \in [Requests -> Seq(Nat)] /\ g \in Requests
        /\ g \notin Posts /\ events[topic[g]] \in Seq(Frames) /\ cursor \in Nat \cup {-1}
    BY StreamAssumption DEF ClientInv, ClientTypes, StreamInv, TypeOK, RoutingTypeOK, Requests
  <1>2. /\ pc[g] \in {"open", "replay1", "replay2"}
        /\ UNCHANGED <<events, queue, subs, topic, highest>>
    BY DEF FirstReplay, SecondReplay, ReplayTails, FirstReplayDone, GoesOn, routingVars
  <1>3. highest[g] = cursor /\ cursor \in Nat
    BY <1>1, <1>2 DEF FollowsOn
  <1>4. size \in Nat /\ cursor < size
    BY <1>1 DEF CursorInv
  <1>5. fresh = Span(cursor + 1, size)
    BY <1>3, ReplayAll
  <1>6. a <= b /\ b <= size /\ queue[g] = Span(a, b) /\ (g \in subs => b = size)
    BY DEF FollowsOn
  <1>7. \/ pc'[g] \in {"replay1", "replay2"} /\ replay'[g] = fresh
        \/ pc'[g] = "tail"
    BY <1>1 DEF FirstReplay, SecondReplay, ReplayTails, GoesOn
  <1>8. CASE pc'[g] \in {"replay1", "replay2"} /\ replay'[g] = fresh
    <2>1. a <= size /\ cursor + 1 <= size /\ size \in 0..size
      BY <1>3, <1>4, <1>6
    <2>2. \E e \in 0..size : a <= e /\ cursor + 1 <= e /\ replay'[g] = Span(cursor + 1, e)
      BY <1>5, <1>8, <2>1
    <2> HIDE DEF fresh
    <2> QED
      BY <1>1, <1>2, <1>3, <1>6, <1>8, <2>2 DEF FollowsOn
  <1>9. CASE pc'[g] = "tail"
    <2>1. ReplayTails(g)
      BY <1>1, <1>9 DEF FirstReplay, SecondReplay, GoesOn
    <2>2. ASSUME fresh = <<>> PROVE a <= cursor + 1
      <3>1. cursor + 1 \in Nat /\ cursor + 1 <= size /\ Span(cursor + 1, size) = <<>>
        BY <1>3, <1>4, <1>5, <2>2
      <3>2. cursor + 1 = size
        BY <1>4, <3>1, SpanOver
      <3> QED
        BY <1>4, <1>6, <3>2
    <2>3. ASSUME pc[g] \in {"replay1", "replay2"}, replay[g] = <<>> PROVE a <= cursor + 1
      <3>1. PICK e \in 0..size : a <= e /\ cursor + 1 <= e /\ replay[g] = Span(cursor + 1, e)
        BY <2>3 DEF FollowsOn
      <3>2. e \in Nat /\ cursor + 1 \in Nat /\ Span(cursor + 1, e) = <<>>
        BY <1>3, <1>4, <2>3, <3>1
      <3>3. cursor + 1 = e
        BY <3>1, <3>2, SpanOver
      <3> QED
        BY <3>1, <3>3
    <2>4. a <= cursor + 1
      BY <2>1, <2>2, <2>3 DEF ReplayTails, FirstReplayDone
    <2> QED
      BY <1>1, <1>2, <1>6, <1>9, <2>4 DEF FollowsOn
  <1> QED
    BY <1>7, <1>8, <1>9

\* The event the browser receives is the next one, or one it has seen.
LEMMA ReceiveFollows ==
    ASSUME ClientInv, NEW c \in Requests, Receive(c), CursorInv, NEW a \in Nat, NEW b \in Nat, FollowsOn(c, a, b)
    PROVE  /\ Head(Ready(c)) \in Nat /\ Head(Ready(c)) <= cursor + 1 /\ Head(Ready(c)) < Len(events[topic[c]])
           /\ conn' # None => \E d \in 0..Len(events[topic[c]]) : FollowsOn(c, d, b)' /\ pc'[c] # "idle"
  <1> DEFINE size == Len(events[topic[c]])
             n == Head(Ready(c))
  <1>0. /\ topic[c] \in Runs /\ conn = c /\ UNCHANGED <<events, topic>> /\ (c \in Posts \/ c \in Gets)
        /\ cursor' = IF n > cursor THEN n ELSE cursor
    BY Receives DEF Requests, Receive, Send, SendReplayed, SendLive, routingVars, Advance
  <1>1. /\ size \in Nat /\ cursor \in Nat \cup {-1} /\ cursor < size
        /\ pc \in [Requests -> PostPhases \cup GetPhases] /\ queue \in [Requests -> Seq(Nat)]
        /\ replay \in [Requests -> Seq(Nat)] /\ highest \in [Requests -> Nat \cup {-1}]
        /\ (c \in Posts => c \notin Gets)
    <2>1. size \in Nat /\ cursor < size
      BY <1>0 DEF ClientInv, StreamInv, TypeOK, RoutingTypeOK, CursorInv
    <2> HIDE DEF size
    <2> QED
      BY <2>1, StreamAssumption DEF ClientInv, ClientTypes, StreamInv, TypeOK
  <1>5. Len(events'[topic'[c]]) = size
    BY <1>0
  <1>2. a <= b /\ b <= size /\ queue[c] = Span(a, b) /\ (c \in subs => b = size)
    BY DEF FollowsOn
  <1> HIDE DEF size, n
  <1>3. CASE SendReplayed(c)
    <2>1. /\ pc[c] \in {"replay1", "replay2"} /\ replay[c] # <<>> /\ n = Head(replay[c]) /\ UNCHANGED <<pc, subs, queue>>
          /\ replay' = [replay EXCEPT ![c] = Tail(replay[c])] /\ highest' = [highest EXCEPT ![c] = n]
      BY <1>3 DEF SendReplayed, Ready, n
    <2>2. c \in Gets /\ c \notin Posts
      BY <1>0, <2>1, StreamAssumption DEF ClientInv, PhasesKnown, PostPhases
    <2>3. highest[c] = cursor /\ cursor \in Nat
      BY <1>1, <2>1, <2>2 DEF FollowsOn
    <2>4. PICK e \in 0..size : a <= e /\ cursor + 1 <= e /\ replay[c] = Span(cursor + 1, e)
      BY <2>1 DEF FollowsOn, size
    <2>5. e \in Nat /\ cursor + 1 \in Nat /\ cursor + 1 < e
      <3>1. e \in Nat /\ cursor + 1 \in Nat
        BY <1>1, <2>3
      <3>2. CASE cursor + 1 = e
        BY <2>1, <2>4, <3>1, <3>2, SpanNone
      <3> QED
        BY <2>4, <3>1, <3>2
    <2>6. n = cursor + 1 /\ Tail(replay[c]) = Span(cursor + 1 + 1, e) /\ cursor + 1 + 1 <= e
      BY <2>1, <2>4, <2>5, SpanTail
    <2>7. cursor' = cursor + 1 /\ highest'[c] = cursor + 1 /\ replay'[c] = Span(cursor + 1 + 1, e)
      BY <1>0, <1>1, <2>1, <2>3, <2>6
    <2>8. n < size
      BY <1>1, <2>4, <2>5, <2>6
    <2>9. \E x \in 0..size : a <= x /\ cursor' + 1 <= x /\ replay'[c] = Span(cursor' + 1, x)
      BY <2>4, <2>6, <2>7
    <2>10. FollowsOn(c, a, b)'
      <3>1. queue'[c] = Span(a, b) /\ (c \in subs' => b = size) /\ pc'[c] = pc[c] /\ highest'[c] = cursor' /\ cursor' >= 0
        BY <1>2, <2>1, <2>3, <2>7
      <3>2. c \notin Posts /\ pc[c] # "tail"
        BY <2>1, <2>2
      <3> QED
        BY <1>2, <1>5, <2>9, <3>1, <3>2 DEF FollowsOn
    <2>11. a \in 0..size /\ pc'[c] # "idle"
      BY <1>1, <1>2, <2>1
    <2> QED
      BY <1>1, <2>3, <2>6, <2>8, <2>10, <2>11 DEF size, n
  <1>4. CASE SendLive(c)
    <2>1. /\ pc[c] = "tail" /\ queue[c] # <<>> /\ n = Head(queue[c]) /\ UNCHANGED <<replay, highest>>
          /\ queue' = [queue EXCEPT ![c] = Tail(queue[c])] /\ subs' \subseteq subs
          /\ IsTerminal(topic[c], n) \/ pc'[c] = pc[c]
      BY <1>4, EndPhases DEF SendLive, Ready, n, ClientInv, Send
    <2>2. a < b
      <3>1. CASE a = b
        BY <1>2, <2>1, <3>1, SpanNone
      <3> QED
        BY <1>2, <3>1
    <2>3. n = a /\ Tail(queue[c]) = Span(a + 1, b) /\ a + 1 <= b
      BY <1>2, <2>1, <2>2, SpanTail
    <2>4. a <= cursor + 1
      BY <2>1 DEF FollowsOn
    <2>5. n \in Nat /\ n <= cursor + 1 /\ n < size
      BY <1>1, <1>2, <2>2, <2>3, <2>4
    <2>6. a + 1 <= cursor' + 1
      BY <1>0, <1>1, <2>3, <2>4
    <2>7. ASSUME conn' # None PROVE FollowsOn(c, a + 1, b)' /\ pc'[c] # "idle" /\ a + 1 \in 0..size
      <3>1. pc'[c] = pc[c]
        BY <2>1, <2>7 DEF Receive, n
      <3>2. queue'[c] = Span(a + 1, b)
        BY <1>1, <2>1, <2>3
      <3> QED
        <4>1. a + 1 <= b /\ b <= size /\ (c \in subs' => b = size) /\ pc'[c] = "tail" /\ a + 1 \in 0..size
          BY <1>1, <1>2, <2>1, <2>3, <3>1
        <4> QED
          BY <1>5, <2>6, <3>2, <4>1 DEF FollowsOn
    <2> QED
      BY <2>5, <2>7 DEF size, n
  <1> QED
    BY <1>3, <1>4 DEF Receive, Send

LEMMA CursorStep ==
    ASSUME OneRunKept, ClientInv, CursorInv, ConnInv, [Next]_vars PROVE CursorInv'
  <1> SUFFICES ASSUME NEW r \in Runs
               PROVE  Seen(r)' = 0..cursor' /\ cursor' < Len(events'[r]) /\ (activeRun' # None => cursor' >= 0)
    BY DEF CursorInv
  <1>1. /\ Seen(r) = 0..cursor /\ cursor < Len(events[r]) /\ (activeRun # None => cursor >= 0)
        /\ Len(events[r]) \in Nat /\ Len(events'[r]) \in Nat /\ Len(events[r]) <= Len(events'[r])
        /\ cursor \in Nat \cup {-1} /\ view \in [Runs -> Seq(Nat)] /\ Runs = {r}
    BY ClientStreams, RingsGrow DEF CursorInv, ClientInv, ClientTypes, StreamInv, OneRunKept
  <1>2. ASSUME UNCHANGED <<view, cursor>>, activeRun' = activeRun
        PROVE  Seen(r)' = 0..cursor' /\ cursor' < Len(events'[r]) /\ (activeRun' # None => cursor' >= 0)
    BY <1>1, <1>2 DEF Seen
  <1>3. ASSUME NEW c \in Requests, Receive(c)
        PROVE  Seen(r)' = 0..cursor' /\ cursor' < Len(events'[r]) /\ (activeRun' # None => cursor' >= 0)
    <2> DEFINE n == Head(Ready(c))
    <2>1. topic[c] = r /\ conn = c /\ c # None
      BY <1>1, <1>3, Receives, RoutingAssumption, StreamAssumption DEF Receive, Requests
    <2>2. PICK a \in Nat, b \in Nat : FollowsOn(c, a, b)
      <3>1. \A x \in 0..Len(events[r]) : x \in Nat
        BY <1>1
      <3> QED
        BY <2>1, <3>1 DEF ConnInv
    <2>3. n \in Nat /\ n <= cursor + 1 /\ n < Len(events[r])
      BY <1>3, <2>1, <2>2, ReceiveFollows
    <2>4. cursor' = (IF n > cursor THEN n ELSE cursor) /\ view' = [view EXCEPT ![r] = Append(view[r], n)]
      BY <1>3, <2>1 DEF Receive, Advance
    <2> HIDE DEF n
    <2>5. Seen(r)' = Seen(r) \cup {n}
      <3>1. view[r] \in Seq(Nat) /\ view'[r] = Append(view[r], n)
        BY <1>1, <2>4
      <3>2. /\ Len(view'[r]) = Len(view[r]) + 1 /\ Len(view[r]) \in Nat
            /\ DOMAIN view'[r] = 1..Len(view[r]) + 1 /\ DOMAIN view[r] = 1..Len(view[r])
            /\ view'[r][Len(view[r]) + 1] = n
            /\ \A i \in 1..Len(view[r]) : view'[r][i] = view[r][i]
        BY <2>3, <3>1
      <3>3. DOMAIN view'[r] = DOMAIN view[r] \cup {Len(view[r]) + 1}
        BY <3>2
      <3> QED
        BY <3>2, <3>3, SMTT(30) DEF Seen
    <2>6. Seen(r)' = 0..cursor'
      BY <1>1, <2>3, <2>4, <2>5
    <2>7. cursor' < Len(events'[r]) /\ cursor' >= 0
      BY <1>1, <2>3, <2>4
    <2> QED
      BY <2>6, <2>7
  <1>4. ASSUME NEW p \in Posts, Submit(p) \/ Refused(p) PROVE UNCHANGED <<view, cursor, activeRun>>
    BY <1>4 DEF Submit, Refused
  <1>5. ASSUME NEW c \in Requests, Break(c) PROVE UNCHANGED <<view, cursor, activeRun>>
    BY <1>5 DEF Break
  <1>6. ASSUME NEW g \in Gets, EndOfReplay(g) \/ Reconnect(g) PROVE UNCHANGED <<view, cursor, activeRun>>
    BY <1>6 DEF EndOfReplay, Reconnect
  <1>7. CASE UNCHANGED clientVars
    BY <1>2, <1>7 DEF clientVars
  <1> QED
    BY <1>2, <1>3, <1>4, <1>5, <1>6, <1>7 DEF Next, ClientStep, vars

LEMMA ConnStep ==
    ASSUME OneRunKept, ClientInv, PostsInv, RingInv, CursorInv, IdleInv, ConnInv, [Next]_vars PROVE ConnInv'
  <1> SUFFICES ASSUME NEW c \in Requests, conn' = c
               PROVE  pc'[c] # "idle" /\ \E a, b \in 0..Len(events'[topic'[c]]) : FollowsOn(c, a, b)'
    BY DEF ConnInv
  <1>1. /\ conn \in Requests \cup {None} /\ None \notin Requests /\ cursor \in Nat \cup {-1}
        /\ pc \in [Requests -> PostPhases \cup GetPhases] /\ queue \in [Requests -> Seq(Nat)]
        /\ topic \in [Requests -> Runs \cup {None}] /\ highest \in [Requests -> Nat \cup {-1}]
        /\ replay \in [Requests -> Seq(Nat)] /\ subs \subseteq Requests
        /\ Requests = Posts \cup Gets /\ \A p \in Posts : p \notin Gets
    BY RoutingAssumption, StreamAssumption DEF ClientInv, ClientTypes, StreamInv, TypeOK, Requests
  <1>2. \A p \in Posts : topic[p] \in Runs
    BY RoutingAssumption DEF ClientInv, StreamInv, TopicsKnown
  <1>3. \A r \in Runs : Len(events[r]) \in Nat
    BY DEF ClientInv, StreamInv, TypeOK, RoutingTypeOK
  <1>4. ASSUME conn = c
        PROVE  pc[c] # "idle" /\ topic[c] \in Runs /\ \E a, b \in 0..Len(events[topic[c]]) : FollowsOn(c, a, b)
    BY <1>4, TopicType DEF ConnInv, ClientInv
  <1>5. ASSUME conn = c, UNCHANGED <<events, cursor>>, c \in subs' => c \in subs,
               UNCHANGED <<queue[c], topic[c], highest[c], replay[c]>>,
               \/ pc'[c] = pc[c]
               \/ c \in Posts /\ pc'[c] \notin {"idle", "replay1", "replay2"}
               \/ pc'[c] = "closed"
        PROVE  pc'[c] # "idle" /\ \E a, b \in 0..Len(events'[topic'[c]]) : FollowsOn(c, a, b)'
    <2>1. PICK a \in 0..Len(events[topic[c]]), b \in 0..Len(events[topic[c]]) : FollowsOn(c, a, b)
      BY <1>4, <1>5
    <2>2. FollowsOn(c, a, b)'
      BY <1>1, <1>5, <2>1, FollowsSame
    <2>3. pc'[c] # "idle" /\ events'[topic'[c]] = events[topic[c]]
      BY <1>4, <1>5
    <2> QED
      BY <2>1, <2>2, <2>3
  <1>6. ASSUME conn = c, UNCHANGED <<events, cursor, topic, highest>>,
               NEW x \in Requests, x # c, \A y \in Requests \ {x} :
                   pc'[y] = pc[y] /\ queue'[y] = queue[y] /\ replay'[y] = replay[y] /\ (y \in subs' => y \in subs)
        PROVE  pc'[c] # "idle" /\ \E a, b \in 0..Len(events'[topic'[c]]) : FollowsOn(c, a, b)'
    BY <1>5, <1>6
  <1>7. ASSUME conn = c, NEW p \in Posts, Frame(p), UNCHANGED cursor
        PROVE  pc'[c] # "idle" /\ \E a, b \in 0..Len(events'[topic'[c]]) : FollowsOn(c, a, b)'
    <2>1. PICK a \in 0..Len(events[topic[c]]), b \in 0..Len(events[topic[c]]) : FollowsOn(c, a, b)
      BY <1>4, <1>7
    <2>2. PICK d \in 0..Len(events'[topic'[c]]) : a <= d /\ FollowsOn(c, a, d)'
      BY <1>4, <1>7, <2>1, FrameFollows
    <2>3. topic' = topic /\ pc' = pc /\ Len(events[topic[c]]) \in Nat /\ Len(events'[topic[c]]) \in Nat
      BY <1>4, <1>7, ClientStreams, RingsGrow DEF Frame, ClientInv, StreamInv
    <2>4. a \in 0..Len(events'[topic'[c]])
      BY <2>2, <2>3
    <2> QED
      BY <1>4, <1>7, <2>2, <2>3, <2>4
  <1>8. ASSUME conn = c, NEW p \in Posts, Commit(p) \/ Respond(p) \/ StartPost(p), UNCHANGED cursor
        PROVE  pc'[c] # "idle" /\ \E a, b \in 0..Len(events'[topic'[c]]) : FollowsOn(c, a, b)'
    <2>1. UNCHANGED <<events, topic, subs, queue, highest, replay>>
      BY <1>8 DEF Commit, Queued, Respond, StartPost, routingVars
    <2>2. \E ph \in {"committed", "open", "tail"} : pc' = [pc EXCEPT ![p] = ph]
      BY <1>8 DEF Commit, Respond, StartPost
    <2>3. p = c => pc'[c] \in {"committed", "open", "tail"}
      BY <1>1, <2>2
    <2>4. p # c => pc'[c] = pc[c]
      BY <1>1, <2>2
    <2> QED
      BY <1>5, <1>8, <2>1, <2>3, <2>4
  <1>9. ASSUME conn = c, NEW p \in Posts, WriterStep(p), UNCHANGED cursor
        PROVE  pc'[c] # "idle" /\ \E a, b \in 0..Len(events'[topic'[c]]) : FollowsOn(c, a, b)'
    <2>1. UNCHANGED <<events, pc, topic, subs, queue, highest, replay>>
      BY <1>9 DEF WriterStep, WriterSubscribes, WriterStores, WriterFails, WriterIdles, WriterDropped, routingVars, requestVars
    <2> QED
      BY <1>5, <1>9, <2>1
  <1>10. ASSUME conn = c, NEW g \in Gets, FirstReplay(g) \/ SecondReplay(g) \/ ReplayTails(g), UNCHANGED cursor
         PROVE  pc'[c] # "idle" /\ \E a, b \in 0..Len(events'[topic'[c]]) : FollowsOn(c, a, b)'
    <2>1. /\ UNCHANGED <<events, topic, subs, queue, highest>>
          /\ \E ph, list : pc' = [pc EXCEPT ![g] = ph] /\ replay' = [replay EXCEPT ![g] = list]
      BY <1>10 DEF FirstReplay, SecondReplay, ReplayTails, GoesOn, routingVars
    <2>2. CASE g = c
      <3>1. PICK a \in 0..Len(events[topic[c]]), b \in 0..Len(events[topic[c]]) : FollowsOn(c, a, b)
        BY <1>4, <1>10
      <3>2. a \in Nat /\ b \in Nat
        BY <1>3, <1>4, <1>10, <3>1
      <3>3. FollowsOn(c, a, b)' /\ pc'[c] # "idle"
        BY <1>4, <1>10, <2>2, <3>1, <3>2, ReplayFollows
      <3> QED
        BY <2>1, <3>1, <3>3
    <2>3. CASE g # c
      BY <1>1, <1>6, <1>10, <2>1, <2>3
    <2> QED
      BY <2>2, <2>3
  <1>11. ASSUME conn = c, NEW p \in Posts, Register(p), UNCHANGED cursor
         PROVE  pc'[c] # "idle" /\ \E a, b \in 0..Len(events'[topic'[c]]) : FollowsOn(c, a, b)'
    <2>1. /\ UNCHANGED <<events, topic, queue, highest, replay>> /\ pc[p] = "idle"
          /\ pc' = [pc EXCEPT ![p] = "registered"] /\ subs' = subs \cup {p}
      BY <1>11 DEF Register, routingVars
    <2> QED
      BY <1>1, <1>4, <1>6, <1>11, <2>1
  <1>12. ASSUME conn = c, NEW x \in Requests, x # c, Send(x) \/ Cut(x) \/ Unsubscribe(x) \/ CommitFails(x), UNCHANGED cursor
         PROVE  pc'[c] # "idle" /\ \E a, b \in 0..Len(events'[topic'[c]]) : FollowsOn(c, a, b)'
    <2>1. UNCHANGED <<events, topic>> /\ highest'[c] = highest[c] /\ (c \in subs' => c \in subs)
          /\ pc'[c] = pc[c] /\ queue'[c] = queue[c] /\ replay'[c] = replay[c]
      <3>1. CASE SendReplayed(x)
        BY <1>1, <1>12, <3>1 DEF SendReplayed, routingVars
      <3>2. CASE SendLive(x)
        BY <1>1, <1>12, <3>2 DEF SendLive, routingVars
      <3>3. CASE Cut(x) \/ Unsubscribe(x)
        BY <1>1, <1>12, <3>3 DEF Cut, Unsubscribe, routingVars
      <3>4. CASE CommitFails(x)
        BY <1>1, <1>12, <3>4 DEF CommitFails, routingVars
      <3> QED
        BY <1>12, <3>1, <3>2, <3>3, <3>4 DEF Send
    <2> QED
      BY <1>5, <1>12, <2>1
  <1>21. ASSUME conn = c, Unsubscribe(c), UNCHANGED cursor
         PROVE  pc'[c] # "idle" /\ \E a, b \in 0..Len(events'[topic'[c]]) : FollowsOn(c, a, b)'
    <2>1. /\ UNCHANGED <<events, topic, queue, highest, replay>> /\ (c \in subs' => c \in subs)
          /\ pc'[c] = "closed"
      BY <1>1, <1>21 DEF Unsubscribe, routingVars
    <2> QED
      BY <1>5, <1>21, <2>1
  <1>13. CASE ServerStep /\ UNCHANGED clientVars
    BY <1>7, <1>8, <1>9, <1>10, <1>12, <1>13, <1>21 DEF ServerStep, clientVars
  <1>14. CASE OtherStep /\ UNCHANGED clientVars
    BY <1>11, <1>12, <1>14 DEF OtherStep, clientVars
  <1>15. ASSUME NEW p \in Posts, Submit(p)
         PROVE  pc'[c] # "idle" /\ \E a, b \in 0..Len(events'[topic'[c]]) : FollowsOn(c, a, b)'
    <2>1. /\ c = p /\ pc[c] = "idle" /\ pc' = [pc EXCEPT ![c] = "registered"]
          /\ UNCHANGED <<events, topic, queue, cursor>>
      BY <1>15 DEF Submit, Register, routingVars
    <2>2. events[topic[c]] = <<>> /\ queue[c] = <<>> /\ Span(0, 0) = <<>> /\ c \in Posts /\ c \notin Gets
      BY <1>1, <1>2, <2>1, SpanNone DEF RingInv, IdleInv
    <2>3. Len(events'[topic'[c]]) = 0 /\ queue'[c] = Span(0, 0) /\ pc'[c] = "registered" /\ cursor' \in Nat \cup {-1}
      BY <1>1, <2>1, <2>2
    <2>4. PICK z \in Nat : z = 0
      OBVIOUS
    <2>5. /\ Len(events'[topic'[c]]) = z /\ queue'[c] = Span(z, z) /\ z <= z /\ z <= cursor' + 1
          /\ z \in 0..Len(events'[topic'[c]])
      <3>1. z <= cursor' + 1
        <4>1. cursor' = cursor /\ cursor \in Int /\ cursor >= -1
          BY <1>1, <2>1
        <4>2. 0 <= cursor + 1
          BY <4>1
        <4> QED
          BY <2>4, <4>1, <4>2
      <3>2. Len(events'[topic'[c]]) = z /\ queue'[c] = Span(z, z)
        BY <2>3, <2>4
      <3>3. z <= z /\ z \in 0..z
        OBVIOUS
      <3> QED
        BY <3>1, <3>2, <3>3, Zenon
    <2>6. FollowsOn(c, z, z)'
      BY <2>2, <2>3, <2>5, Zenon DEF FollowsOn
    <2> QED
      BY <2>3, <2>5, <2>6, Zenon
  <1>16. ASSUME NEW p \in Posts, Refused(p)
         PROVE  pc'[c] # "idle" /\ \E a, b \in 0..Len(events'[topic'[c]]) : FollowsOn(c, a, b)'
    <2>1. conn = c /\ p # c /\ CommitFails(p) /\ UNCHANGED cursor
      BY <1>1, <1>16 DEF Refused
    <2> QED
      BY <1>1, <1>12, <2>1
  <1>17. ASSUME NEW x \in Requests, Receive(x)
         PROVE  pc'[c] # "idle" /\ \E a, b \in 0..Len(events'[topic'[c]]) : FollowsOn(c, a, b)'
    <2>1. conn = x /\ x = c /\ conn' # None /\ UNCHANGED <<events, topic>>
      BY <1>1, <1>17 DEF Receive, Send, SendReplayed, SendLive, routingVars
    <2>2. PICK a \in 0..Len(events[topic[c]]), b \in 0..Len(events[topic[c]]) : FollowsOn(c, a, b)
      BY <1>4, <2>1
    <2>3. a \in Nat /\ b \in Nat
      BY <1>3, <1>4, <2>1, <2>2
    <2>4. Receive(c)
      BY <1>17, <2>1
    <2>5. \E d \in 0..Len(events[topic[c]]) : FollowsOn(c, d, b)' /\ pc'[c] # "idle"
      BY <2>1, <2>2, <2>3, <2>4, ReceiveFollows
    <2> QED
      BY <2>1, <2>2, <2>5
  <1>18. ASSUME NEW x \in Requests, Break(x) PROVE FALSE
    BY <1>1, <1>18 DEF Break
  <1>19. ASSUME NEW g \in Gets, EndOfReplay(g)
         PROVE  pc'[c] # "idle" /\ \E a, b \in 0..Len(events'[topic'[c]]) : FollowsOn(c, a, b)'
    <2>1. /\ conn = c /\ g # c /\ UNCHANGED <<events, topic, subs, queue, highest, cursor>>
          /\ pc' = [pc EXCEPT ![g] = "closed"] /\ replay' = [replay EXCEPT ![g] = <<>>]
      BY <1>1, <1>19 DEF EndOfReplay, ReplayReturns, GoesOn, routingVars
    <2> QED
      BY <1>1, <1>6, <2>1
  <1>20. ASSUME NEW g \in Gets, Reconnect(g)
         PROVE  pc'[c] # "idle" /\ \E a, b \in 0..Len(events'[topic'[c]]) : FollowsOn(c, a, b)'
    <2>1. /\ c = g /\ pc[c] = "idle" /\ pc' = [pc EXCEPT ![c] = "open"] /\ topic' = [topic EXCEPT ![c] = activeRun]
          /\ highest' = [highest EXCEPT ![c] = cursor] /\ UNCHANGED <<events, queue, cursor>> /\ offline
      BY <1>20 DEF Reconnect, OpenGet, routingVars
    <2>2. activeRun \in Runs /\ cursor >= 0
      BY <2>1 DEF ClientInv, ClientTypes, CursorInv
    <2>3. PICK z \in Nat : z = Len(events[activeRun])
      BY <1>3, <2>2
    <2>4. queue'[c] = Span(z, z)
      BY <2>1, <2>3, SpanNone DEF IdleInv
    <2>5. events' = events /\ topic'[c] = activeRun /\ pc'[c] = "open" /\ highest'[c] = cursor /\ cursor' = cursor
      BY <1>1, <2>1
    <2>6. Len(events'[topic'[c]]) = z /\ highest'[c] = cursor' /\ z <= z /\ z \in 0..z
      BY <2>3, <2>5
    <2>7. cursor' >= 0 /\ c \notin Posts /\ pc'[c] # "tail" /\ pc'[c] \notin {"replay1", "replay2", "idle"}
      BY <1>1, <2>1, <2>2, <2>5
    <2>8. FollowsOn(c, z, z)'
      BY <2>4, <2>6, <2>7, Zenon DEF FollowsOn
    <2> QED
      BY <2>6, <2>7, <2>8, Zenon
  <1>22. CASE UNCHANGED vars
    <2>1. conn = c /\ UNCHANGED <<events, cursor, pc, topic, subs, queue, highest, replay>>
      BY <1>22 DEF vars, streamVars, routingVars, requestVars, clientVars
    <2> QED
      BY <1>5, <2>1
  <1> QED
    BY <1>13, <1>14, <1>15, <1>16, <1>17, <1>18, <1>19, <1>20, <1>22 DEF Next, ClientStep

LEMMA InitGap == OneRunKept /\ Init => RingInv /\ CursorInv /\ IdleInv /\ ConnInv
  <1> SUFFICES ASSUME OneRunKept, Init PROVE RingInv /\ CursorInv /\ IdleInv /\ ConnInv
    OBVIOUS
  <1> USE DEF Init, InitStream, InitRouting, InitIngress
  <1>1. RingInv
    BY DEF RingInv
  <1>2. CursorInv
    <2>1. 0..(-1) = {} /\ \A r \in Runs : Seen(r) = {}
      BY DEF Seen
    <2> QED
      BY <2>1 DEF CursorInv
  <1>3. IdleInv
    BY DEF IdleInv
  <1>4. ConnInv
    BY RoutingAssumption, StreamAssumption DEF ConnInv, Requests
  <1> QED
    BY <1>1, <1>2, <1>3, <1>4

\* One message, any number of reconnects, full queues and any other clients: the browser
\* has seen every event of its run below the last it saw, if the ring loses at most the
\* first (stream.py's replay and tail, runLoop.ts's cursor).
THEOREM NoEventIsSkipped == ASSUME OneRunKept PROVE Spec => []NoGap
  <1> DEFINE Inv == RingInv /\ CursorInv /\ IdleInv /\ ConnInv
  <1>1. CursorInv /\ ClientInv => NoGap
    <2> SUFFICES ASSUME CursorInv, ClientInv, NEW r \in Runs, NEW n \in Seen(r), NEW m \in 0..n
                 PROVE  m \in Seen(r)
      BY DEF NoGap
    <2> QED
      BY DEF CursorInv, ClientInv, ClientTypes
  <1>2. ClientInv /\ PostsInv /\ Inv /\ [Next]_vars => Inv'
    BY ClientStreams, RingStep, CursorStep, IdleStep, ConnStep DEF ClientInv
  <1>3. Spec => []PostsInv
    BY BrowserIsAClient, PersisterInvariant, PTL
  <1> QED
    BY <1>1, <1>2, <1>3, InitGap, ClientInvariant, PTL DEF Spec

-----------------------------------------------------------------------------
(* The browser is shown what it was promised, while no connection breaks.  *)

\* Prompts are executed in the order they were queued, each after the one before has
\* ended; so the run of the execution under way is the active one, and no frame waits.
TurnsInv ==
    /\ pending = <<>>
    /\ \A i, j \in 1..Len(inbox) : i < j =>
        inbox[i] # inbox[j] /\ (emitted[inbox[j]] # 0 => emitted[inbox[i]] = Last + 1)
    /\ \A p \in Posts : emitted[p] # 0 => \E i \in 1..Len(inbox) : inbox[i] = p
    /\ \A p \in Posts : emitted[p] \in 1..Last => active = RunOf[p]

LEMMA OneTurn ==
    ASSUME RoutingTypeOK, ~Overlap, TurnsInv, NEW p \in Posts, Emits(p), NEW q \in Posts, q # p
    PROVE  emitted[q] \notin 1..Last
  <1> SUFFICES ASSUME emitted[q] \in 1..Last PROVE FALSE
    OBVIOUS
  <1>1. PICK i \in 1..Len(inbox) : inbox[i] = p /\ \A j \in 1..i - 1 : emitted[inbox[j]] = Last + 1
    BY DEF Emits, RoutingTypeOK
  <1>2. PICK k \in 1..Len(inbox) : inbox[k] = q
    BY DEF TurnsInv
  <1>3. emitted[p] <= Last /\ emitted[p] \in Nat /\ Last \in Nat /\ Len(inbox) \in Nat
    BY RoutingAssumption DEF Emits, RoutingTypeOK
  <1>4. CASE k < i
    BY <1>1, <1>2, <1>3, <1>4
  <1>5. CASE i < k
    BY <1>1, <1>2, <1>3, <1>5 DEF TurnsInv
  <1>6. i # k
    BY <1>1, <1>2
  <1> QED
    BY <1>3, <1>4, <1>5, <1>6

LEMMA StepTurns ==
    ASSUME RoutingTypeOK, ~Overlap, TurnsInv, [NextRouting]_routingVars PROVE TurnsInv'
  <1>1. inbox \in Seq(Posts) /\ emitted \in [Posts -> 0..Last + 1] /\ Last \in Nat \ {0} /\ Len(inbox) \in Nat
    BY RoutingAssumption DEF RoutingTypeOK
  <1>2. ASSUME NEW p \in Posts, Queued(p) PROVE TurnsInv'
    <2>1. inbox' = Append(inbox, p) /\ UNCHANGED <<emitted, active, pending>> /\ \A i \in 1..Len(inbox) : inbox[i] # p
      BY <1>1, <1>2 DEF Queued
    <2>2. /\ Len(inbox') = Len(inbox) + 1 /\ inbox'[Len(inbox) + 1] = p
          /\ \A i \in 1..Len(inbox) : inbox'[i] = inbox[i]
      BY <1>1, <2>1
    <2>3. emitted[p] = 0
      BY <2>1 DEF TurnsInv
    <2>4. ASSUME NEW i \in 1..Len(inbox'), NEW j \in 1..Len(inbox'), i < j
          PROVE  inbox'[i] # inbox'[j] /\ (emitted'[inbox'[j]] # 0 => emitted'[inbox'[i]] = Last + 1)
      <3>1. i \in 1..Len(inbox)
        BY <1>1, <2>2, <2>4
      <3>2. CASE j \in 1..Len(inbox)
        BY <2>1, <2>2, <2>4, <3>1, <3>2 DEF TurnsInv
      <3>3. CASE j = Len(inbox) + 1
        BY <2>1, <2>2, <2>3, <3>1, <3>3
      <3> QED
        BY <1>1, <2>2, <3>2, <3>3
    <2>5. ASSUME NEW q \in Posts, emitted'[q] # 0 PROVE \E i \in 1..Len(inbox') : inbox'[i] = q
      <3>1. PICK i \in 1..Len(inbox) : inbox[i] = q
        BY <2>1, <2>5 DEF TurnsInv
      <3>2. i \in 1..Len(inbox')
        BY <1>1, <2>2
      <3> QED
        BY <2>2, <3>1, <3>2
    <2> QED
      BY <2>1, <2>4, <2>5 DEF TurnsInv
  <1>3. ASSUME NEW p \in Posts, Emits(p),
               pending' = <<>>, emitted'[p] \in 1..Last => active' = RunOf[p]
        PROVE  TurnsInv'
    <2>1. inbox' = inbox /\ emitted'[p] = emitted[p] + 1 /\ (\A q \in Posts : q # p => emitted'[q] = emitted[q])
          /\ emitted[p] <= Last
      BY <1>1, <1>3 DEF Emits
    <2>2. PICK k \in 1..Len(inbox) : inbox[k] = p /\ \A j \in 1..k - 1 : emitted[inbox[j]] = Last + 1
      <3>1. DOMAIN inbox = 1..Len(inbox)
        BY <1>1
      <3> QED
        BY <1>3, <3>1 DEF Emits
    <2>3. ASSUME NEW i \in 1..Len(inbox), NEW j \in 1..Len(inbox), i < j
          PROVE  inbox[i] # inbox[j] /\ (emitted'[inbox[j]] # 0 => emitted'[inbox[i]] = Last + 1)
      <3>1. inbox[i] # inbox[j] /\ inbox[i] \in Posts /\ inbox[j] \in Posts
            /\ (emitted[inbox[j]] # 0 => emitted[inbox[i]] = Last + 1)
        BY <1>1, <2>3, SMTT(30) DEF TurnsInv
      <3>2. CASE inbox[j] = p
        <4>1. j = k
          BY <1>1, <2>2, <3>2 DEF TurnsInv
        <4> QED
          BY <1>1, <2>1, <2>2, <2>3, <3>1, <3>2, <4>1
      <3>3. CASE inbox[i] = p /\ inbox[j] # p
        BY <1>1, <2>1, <3>1, <3>3
      <3> QED
        BY <2>1, <3>1, <3>2, <3>3
    <2>4. \A q \in Posts : emitted'[q] # 0 => \E i \in 1..Len(inbox) : inbox[i] = q
      BY <2>1, <2>2 DEF TurnsInv
    <2>5. \A q \in Posts : emitted'[q] \in 1..Last => active' = RunOf[q]
      BY <1>3, <2>1, OneTurn
    <2> QED
      BY <1>3, <2>1, <2>3, <2>4, <2>5 DEF TurnsInv
  <1>4. ASSUME NEW p \in Posts, Dispatch(p) PROVE TurnsInv'
    <2>1. Emits(p) /\ emitted'[p] = emitted[p] + 1
      BY <1>1, <1>4, EmitsType DEF Dispatch, RunStarted, RunEnded, Routed, Parked
    <2>2. CASE RunStarted(p)
      BY <1>3, <2>1, <2>2 DEF RunStarted, StartedArrives
    <2>3. CASE RunEnded(p)
      <3>1. emitted'[p] = Last + 1 /\ pending' = <<>>
        BY <2>1, <2>3 DEF RunEnded, EndedArrives, TurnsInv
      <3> QED
        BY <1>1, <1>3, <2>1, <3>1
    <2>4. CASE Routed(p)
      <3>1. active' = RunOf[p] /\ pending' = <<>>
        BY <1>1, <2>4 DEF Routed, GoesToActive, TurnsInv
      <3> QED
        BY <1>3, <2>1, <3>1
    <2>5. CASE Parked(p)
      BY <1>1, <2>5, RoutingAssumption DEF Parked, Waits, TurnsInv
    <2> QED
      BY <1>4, <2>2, <2>3, <2>4, <2>5 DEF Dispatch
  <1>5. CASE UNCHANGED routingVars
    BY <1>5 DEF TurnsInv, routingVars
  <1> QED
    BY <1>2, <1>4, <1>5 DEF NextRouting

\* A frame is put into the ring of its own run, alone.
LEMMA FrameProduces ==
    ASSUME RoutingTypeOK, TurnsInv, NEW p \in Posts, Dispatch(p)
    PROVE  \E f \in Frames : Stamp(RunOf[p], <<f>>) /\ <<f>> \in Seq(Frames) /\ Len(<<f>>) = 1
  <1>1. emitted[p] \in 0..Last + 1 /\ Last \in Nat \ {0} /\ RunOf[p] \in Runs /\ None \notin Runs
    BY RoutingAssumption DEF RoutingTypeOK
  <1>2. \A k \in 0..Last : <<p, k>> \in Frames /\ <<<<p, k>>>> \in Seq(Frames) /\ Len(<<<<p, k>>>>) = 1
    BY OneFrame
  <1>3. CASE RunStarted(p)
    <2>1. <<<<p, 0>>>> \o pending = <<<<p, 0>>>>
      BY DEF TurnsInv
    <2>2. Stamp(RunOf[p], <<<<p, 0>>>>)
      BY <1>3, <2>1 DEF RunStarted, StartedArrives
    <2>3. 0 \in 0..Last
      BY <1>1
    <2> QED
      BY <1>2, <2>2, <2>3
  <1>4. CASE RunEnded(p)
    BY <1>1, <1>2, <1>4 DEF RunEnded, EndedArrives
  <1>5. CASE Routed(p)
    BY <1>1, <1>2, <1>5 DEF Routed, GoesToActive, TurnsInv
  <1>6. CASE Parked(p)
    BY <1>1, <1>6 DEF Parked, Waits, TurnsInv
  <1> QED
    BY <1>3, <1>4, <1>5, <1>6 DEF Dispatch

\* No connection breaks, one runner, and a run of its own for every message.
Undisturbed == Gets = {} /\ ~Overlap /\ RunsDistinct

Shown(p) == Len(view[RunOf[p]])

\* The browser was sent the events of a run from the first on, each once; and what waits
\* in the queue of its request goes on from there.
ShownOf(p) ==
    /\ Shown(p) <= Size(p) /\ Shown(p) <= cursor + 1
    /\ \A i \in 1..Shown(p) : view[RunOf[p]][i] = i - 1
    /\ pc[p] \in {"idle", "registered"} => events[RunOf[p]] = <<>>
    /\ conn = p => pc[p] # "idle" /\ \E b \in 0..Size(p) : FollowsOn(p, Shown(p), b)

ShownInv == \A p \in Posts : ShownOf(p)

\* Without a GET the browser reads its queue, and the event at its head is the next one.
LEMMA ReceivesNext ==
    ASSUME Undisturbed, ClientInv, ShownInv, NEW p \in Posts, Receive(p)
    PROVE  /\ SendLive(p) /\ UNCHANGED events /\ topic[p] = RunOf[p]
           /\ Head(Ready(p)) = Shown(p) /\ Shown(p) \in Nat /\ Size(p) \in Nat /\ Shown(p) < Size(p)
           /\ view' = [view EXCEPT ![RunOf[p]] = Append(view[RunOf[p]], Shown(p))]
           /\ \E b \in 0..Size(p) :
                 Shown(p) + 1 <= b /\ Tail(queue[p]) = Span(Shown(p) + 1, b) /\ (p \in subs => b = Size(p))
  <1>1. /\ conn = p /\ topic[p] = RunOf[p] /\ RunOf[p] \in Runs /\ pc[p] \in PostPhases
    BY RoutingAssumption DEF Receive, ClientInv, PhasesKnown, StreamInv, TopicsKnown
  <1>2. SendLive(p)
    BY <1>1 DEF Receive, Send, SendReplayed, PostPhases
  <1>3. Ready(p) = queue[p] /\ queue[p] # <<>> /\ UNCHANGED events
    BY <1>2 DEF SendLive, Ready, routingVars
  <1>4. Shown(p) \in Nat /\ Size(p) \in Nat
    BY <1>1 DEF Shown, Size, ClientInv, ClientTypes, StreamInv, TypeOK, RoutingTypeOK
  <1>5. PICK a \in Nat : a = Shown(p)
    BY <1>4
  <1>6. PICK b \in 0..Size(p) : FollowsOn(p, a, b)
    BY <1>1, <1>5 DEF ShownInv, ShownOf
  <1>7. a <= b /\ b \in Nat /\ b <= Size(p) /\ queue[p] = Span(a, b) /\ (p \in subs => b = Size(p))
    BY <1>1, <1>4, <1>6 DEF FollowsOn, Size
  <1>8. a < b
    <2>1. CASE a = b
      BY <1>3, <1>7, <2>1, SpanNone
    <2> QED
      BY <1>7, <2>1
  <1>9. Head(queue[p]) = a /\ Tail(queue[p]) = Span(a + 1, b) /\ a + 1 <= b
    BY <1>7, <1>8, SpanTail
  <1>10. view' = [view EXCEPT ![RunOf[p]] = Append(view[RunOf[p]], a)]
    BY <1>1, <1>3, <1>9 DEF Receive
  <1>11. a < Size(p)
    BY <1>4, <1>7, <1>8
  <1> QED
    BY <1>1, <1>2, <1>3, <1>4, <1>5, <1>6, <1>7, <1>9, <1>10, <1>11

LEMMA ShownStep ==
    ASSUME Undisturbed, ClientInv, TurnsInv, PostsInv, IdleInv, ShownInv, [Next]_vars PROVE ShownInv'
  <1> SUFFICES ASSUME NEW p \in Posts PROVE ShownOf(p)'
    BY DEF ShownInv
  <1>1. /\ Requests = Posts /\ RunOf \in [Posts -> Runs] /\ topic[p] = RunOf[p] /\ p \in Requests /\ None \notin Posts
        /\ pc \in [Posts -> PostPhases \cup GetPhases] /\ (\A q \in Posts : pc[q] \in PostPhases)
        /\ queue \in [Requests -> Seq(Nat)] /\ view \in [Runs -> Seq(Nat)] /\ cursor \in Nat \cup {-1}
        /\ replay \in [Requests -> Seq(Nat)] /\ highest \in [Requests -> Nat \cup {-1}]
        /\ conn \in Requests \cup {None} /\ RunOf[p] \in Runs
    BY RoutingAssumption
       DEF Undisturbed, ClientInv, ClientTypes, PhasesKnown, StreamInv, TypeOK, TopicsKnown, Requests
  <1>2. Len(events[RunOf[p]]) \in Nat /\ Len(view[RunOf[p]]) \in Nat
    BY <1>1, SMTT(30) DEF ClientInv, StreamInv, TypeOK, RoutingTypeOK
  <1>3. /\ Shown(p) <= Size(p) /\ Shown(p) <= cursor + 1
        /\ \A i \in 1..Shown(p) : view[RunOf[p]][i] = i - 1
        /\ pc[p] \in {"idle", "registered"} => events[RunOf[p]] = <<>>
        /\ conn = p => pc[p] # "idle" /\ \E b \in 0..Size(p) : FollowsOn(p, Shown(p), b)
    BY DEF ShownInv, ShownOf
  <1>4. ASSUME UNCHANGED <<events, view, cursor>>,
               pc'[p] = pc[p] \/ pc'[p] \in PostPhases \ {"idle", "registered"},
               conn' = p => /\ conn = p /\ UNCHANGED <<queue[p], topic[p], highest[p], replay[p]>>
                            /\ p \in subs' => p \in subs
        PROVE  ShownOf(p)'
    <2>1. Size(p)' = Size(p) /\ Shown(p)' = Shown(p)
      BY <1>4 DEF Size, Shown
    <2>2. ASSUME conn' = p PROVE pc'[p] # "idle" /\ \E b \in 0..Size(p) : FollowsOn(p, Shown(p), b)'
      <3>1. PICK b \in 0..Size(p) : FollowsOn(p, Shown(p), b)
        BY <1>3, <1>4, <2>2
      <3>2. PICK a \in Nat : a = Shown(p)
        BY <1>2 DEF Shown
      <3>3. p \notin Gets /\ (pc'[p] = pc[p] \/ (p \in Posts /\ pc'[p] \notin {"replay1", "replay2"}))
        BY <1>4 DEF Undisturbed, PostPhases
      <3>4. FollowsOn(p, a, b)'
        BY <1>4, <2>2, <3>1, <3>2, <3>3, FollowsSame
      <3>5. pc'[p] # "idle"
        BY <1>3, <1>4, <2>2
      <3>6. FollowsOn(p, Shown(p), b)'
        BY <2>1, <3>2, <3>4
      <3> QED
        BY <3>1, <3>5, <3>6
    <2> QED
      BY <1>3, <1>4, <2>1, <2>2 DEF ShownOf
  <1>5. ASSUME NEW q \in Posts, Frame(q), UNCHANGED clientVars PROVE ShownOf(p)'
    <2>1. /\ UNCHANGED <<view, cursor, conn, pc, topic>> /\ Dispatch(q) /\ Emits(q) /\ [NextStream]_streamVars
      BY <1>5 DEF Frame, clientVars, Dispatch, RunStarted, RunEnded, Routed, Parked, NextStream
    <2>2. Len(events'[RunOf[p]]) \in Nat /\ Len(events[RunOf[p]]) <= Len(events'[RunOf[p]])
      BY <1>1, <2>1, RingsGrow DEF ClientInv, StreamInv
    <2>3. Shown(p)' = Shown(p) /\ Shown(p) <= Size(p)'
      BY <1>2, <1>3, <2>1, <2>2 DEF Shown, Size
    <2>4. pc[p] \in {"idle", "registered"} => events'[RunOf[p]] = <<>>
      <3>1. SUFFICES ASSUME pc[p] \in {"idle", "registered"} PROVE events'[RunOf[p]] = <<>>
        OBVIOUS
      <3>2. q # p
        BY <2>1, <3>1 DEF Emits, PostsInv
      <3>3. RunOf[q] # RunOf[p] /\ RunOf[q] \in Runs
        BY <1>1, <3>2 DEF Undisturbed, RunsDistinct
      <3>4. RoutingTypeOK
        BY DEF ClientInv, StreamInv, TypeOK
      <3>5. events'[RunOf[p]] = events[RunOf[p]]
        BY <1>1, <2>1, <3>3, <3>4, FrameProduces, Stamped
      <3> QED
        BY <1>3, <3>1, <3>5
    <2>5. ASSUME conn = p PROVE pc[p] # "idle" /\ \E b \in 0..Size(p)' : FollowsOn(p, Shown(p), b)'
      <3>1. PICK b \in 0..Size(p) : FollowsOn(p, Shown(p), b)
        BY <1>3, <2>5
      <3>2. PICK a \in Nat : a = Shown(p)
        BY <1>2 DEF Shown
      <3>3. a \in 0..Len(events[topic[p]]) /\ b \in 0..Len(events[topic[p]]) /\ topic[p] \in Runs
        BY <1>1, <1>2, <1>3, <3>1, <3>2 DEF Size
      <3>4. PICK d \in 0..Len(events'[topic'[p]]) : FollowsOn(p, a, d)'
        <4>1. FollowsOn(p, a, b)
          BY <3>1, <3>2
        <4> QED
          BY <1>1, <1>5, <2>1, <3>3, <4>1, FrameFollows
      <3>5. d \in 0..Size(p)' /\ FollowsOn(p, Shown(p), d)'
        BY <1>1, <2>1, <2>3, <3>2, <3>4 DEF Size
      <3> QED
        BY <1>3, <2>5, <3>5
    <2> QED
      BY <1>3, <2>1, <2>3, <2>4, <2>5 DEF ShownOf, Shown
  <1>6. ASSUME NEW q \in Posts, Commit(q) \/ Respond(q) \/ StartPost(q), UNCHANGED clientVars PROVE ShownOf(p)'
    <2>1. /\ UNCHANGED <<events, view, cursor, conn, subs, queue, topic, highest, replay>>
          /\ \E ph \in {"committed", "open", "tail"} : pc' = [pc EXCEPT ![q] = ph]
      BY <1>6 DEF Commit, Queued, Respond, StartPost, routingVars, clientVars
    <2> QED
      BY <1>1, <1>4, <2>1 DEF PostPhases
  <1>7. ASSUME NEW q \in Posts, WriterStep(q), UNCHANGED clientVars PROVE ShownOf(p)'
    <2>1. UNCHANGED <<events, view, cursor, conn, pc, subs, queue, topic, highest, replay>>
      BY <1>7 DEF WriterStep, WriterSubscribes, WriterStores, WriterFails, WriterIdles, WriterDropped,
                  routingVars, requestVars, clientVars
    <2> QED
      BY <1>4, <2>1
  <1>8. ASSUME NEW q \in Posts, Register(q), UNCHANGED clientVars PROVE ShownOf(p)'
    <2>1. /\ UNCHANGED <<events, view, cursor, conn, queue, topic, highest, replay>> /\ subs' = subs \cup {q}
          /\ pc[q] = "idle" /\ pc' = [pc EXCEPT ![q] = "registered"]
      BY <1>8 DEF Register, routingVars, clientVars
    <2>2. CASE q = p
      <3>1. Size(p)' = Size(p) /\ Shown(p)' = Shown(p) /\ conn' # p /\ pc[p] = "idle"
        BY <1>3, <2>1, <2>2 DEF Size, Shown
      <3> QED
        BY <1>3, <2>1, <3>1 DEF ShownOf
    <2>3. CASE q # p
      BY <1>1, <1>4, <2>1, <2>3
    <2> QED
      BY <2>2, <2>3
  <1>9. ASSUME NEW c \in Posts, (conn # c /\ (Send(c) \/ Cut(c))) \/ Unsubscribe(c), UNCHANGED clientVars
        PROVE  ShownOf(p)'
    <2>1. UNCHANGED <<events, view, cursor, conn, topic>> /\ subs' \subseteq subs
      BY <1>9 DEF Send, SendReplayed, SendLive, Cut, Unsubscribe, routingVars, clientVars
    <2>2. c # p \/ Unsubscribe(c) => UNCHANGED <<queue[p], highest[p], replay[p]>>
      BY <1>1, <1>9 DEF Send, SendReplayed, SendLive, Cut, Unsubscribe
    <2>3. pc'[p] = pc[p] \/ pc'[p] \in {"closing", "closed"}
      BY <1>1, <1>9, EndPhases DEF ClientInv, Undisturbed
    <2>4. conn' = p => c # p \/ Unsubscribe(c)
      BY <1>9, <2>1
    <2> QED
      BY <1>4, <2>1, <2>2, <2>3, <2>4 DEF PostPhases
  <1>10. ASSUME NEW q \in Posts, Submit(q) PROVE ShownOf(p)'
    <2>1. /\ conn = None /\ conn' = q /\ UNCHANGED <<events, view, cursor, queue, topic, highest, replay>>
          /\ subs' = subs \cup {q} /\ pc[q] = "idle" /\ pc' = [pc EXCEPT ![q] = "registered"]
      BY <1>10 DEF Submit, Register, routingVars
    <2>2. CASE q # p
      BY <1>1, <1>4, <2>1, <2>2
    <2>3. CASE q = p
      <3>1. events'[RunOf[p]] = <<>> /\ queue'[p] = <<>> /\ pc'[p] = "registered" /\ topic'[p] = RunOf[p]
        BY <1>1, <1>3, <2>1, <2>3 DEF IdleInv
      <3>2. PICK z \in Nat : z = 0
        OBVIOUS
      <3>3. Size(p)' = z /\ Shown(p)' = z /\ Shown(p) = z
        <4>1. Size(p) = 0 /\ Shown(p) \in Nat /\ Shown(p) <= Size(p)
          BY <1>2, <1>3, <2>1, <2>3 DEF Size, Shown
        <4>2. Size(p)' = Size(p) /\ Shown(p)' = Shown(p)
          BY <2>1 DEF Size, Shown
        <4> QED
          BY <3>2, <4>1, <4>2
      <3>4. z <= cursor' + 1
        <4>1. z <= cursor + 1
          BY <1>3, <3>3
        <4> QED
          BY <2>1, <4>1
      <3>5. queue'[p] = Span(z, z) /\ z <= z /\ z \in 0..z /\ Len(events'[topic'[p]]) = z /\ p \notin Gets
        BY <3>1, <3>3, SpanNone DEF Size, Undisturbed
      <3>6. FollowsOn(p, z, z)'
        BY <3>1, <3>4, <3>5, Zenon DEF FollowsOn
      <3>7. \A i \in 1..z : view'[RunOf[p]][i] = i - 1
        BY <3>2
      <3>8. FollowsOn(p, Shown(p), z)'
        BY <3>3, <3>6
      <3> QED
        BY <3>1, <3>3, <3>4, <3>5, <3>7, <3>8 DEF ShownOf
    <2> QED
      BY <2>2, <2>3
  <1>11. ASSUME NEW q \in Posts, Refused(q) PROVE ShownOf(p)'
    <2>1. /\ UNCHANGED <<events, view, cursor, queue, topic, highest, replay>> /\ subs' \subseteq subs
          /\ conn' \in {None, conn} /\ pc' = [pc EXCEPT ![q] = "closed"]
      BY <1>11 DEF Refused, CommitFails, routingVars
    <2>2. pc'[p] = pc[p] \/ pc'[p] = "closed"
      BY <1>1, <2>1
    <2> QED
      BY <1>1, <1>4, <2>1, <2>2 DEF PostPhases
  <1>14. CASE UNCHANGED vars
    <2>1. UNCHANGED <<events, view, cursor, conn, pc, subs, queue, topic, highest, replay>>
      BY <1>14 DEF vars, streamVars, routingVars, requestVars, clientVars
    <2> QED
      BY <1>4, <2>1
  <1>12. ASSUME NEW q \in Posts, Receive(q) PROVE ShownOf(p)'
    <2>1. /\ conn = q /\ (conn' = None \/ (conn' = q /\ UNCHANGED pc)) /\ UNCHANGED <<events, topic>>
          /\ cursor' = IF Shown(q) > cursor THEN Shown(q) ELSE cursor
          /\ queue' = [queue EXCEPT ![q] = Tail(queue[q])] /\ subs' \subseteq subs
          /\ pc' = pc \/ pc' = [pc EXCEPT ![q] = "closing"]
      <3>1. SendLive(q) /\ Head(Ready(q)) = Shown(q) /\ UNCHANGED events
        BY <1>12, ReceivesNext
      <3>2. Ready(q) = queue[q]
        BY <3>1 DEF SendLive, Ready
      <3>3. CASE IsTerminal(topic[q], Head(queue[q]))
        BY <1>12, <3>1, <3>2, <3>3 DEF Receive, SendLive, Advance
      <3>4. CASE ~IsTerminal(topic[q], Head(queue[q]))
        <4>1. pc' = pc
          BY <1>1, <3>1, <3>4 DEF SendLive
        <4> QED
          BY <1>12, <3>1, <3>2, <3>4, <4>1 DEF Receive, SendLive, Advance
      <3> QED
        BY <3>3, <3>4
    <2>2. /\ view' = [view EXCEPT ![RunOf[q]] = Append(view[RunOf[q]], Shown(q))]
          /\ Shown(q) \in Nat /\ Size(q) \in Nat /\ Shown(q) < Size(q)
      BY <1>12, ReceivesNext
    <2>3. cursor' \in Nat \cup {-1} /\ cursor' >= cursor /\ cursor' >= Shown(q)
      BY <1>1, <2>1, <2>2
    <2>4. pc'[p] = pc[p] \/ pc'[p] = "closing"
      BY <1>1, <2>1
    <2>5. CASE q # p
      <3>1. view'[RunOf[p]] = view[RunOf[p]]
        BY <1>1, <2>2, <2>5 DEF Undisturbed, RunsDistinct
      <3>2. Size(p)' = Size(p) /\ Shown(p)' = Shown(p) /\ conn' # p
        BY <1>1, <2>1, <2>5, <3>1 DEF Size, Shown
      <3>3. Shown(p) <= cursor' + 1
        <4>1. Shown(p) \in Nat /\ Shown(p) <= cursor + 1
          BY <1>2, <1>3 DEF Shown
        <4> QED
          BY <1>1, <2>3, <4>1
      <3> QED
        BY <1>3, <2>1, <2>4, <3>1, <3>2, <3>3 DEF ShownOf
    <2>6. CASE q = p
      <3>1. PICK a \in Nat : a = Shown(p)
        BY <2>2, <2>6
      <3>2. view'[RunOf[p]] = Append(view[RunOf[p]], a) /\ view[RunOf[p]] \in Seq(Nat) /\ Len(view[RunOf[p]]) = a
        BY <1>1, <2>2, <2>6, <3>1 DEF Shown
      <3>3. /\ Len(view'[RunOf[p]]) = a + 1 /\ view'[RunOf[p]][a + 1] = a
            /\ \A i \in 1..a : view'[RunOf[p]][i] = view[RunOf[p]][i]
        BY <3>2
      <3>4. Size(p)' = Size(p) /\ Shown(p)' = a + 1
        BY <2>1, <3>3 DEF Size, Shown
      <3>5. a + 1 <= Size(p) /\ a + 1 <= cursor' + 1
        BY <2>2, <2>3, <2>6, <3>1
      <3>6. \A i \in 1..a + 1 : view'[RunOf[p]][i] = i - 1
        <4>1. \A i \in 1..a : view'[RunOf[p]][i] = i - 1
          BY <1>3, <3>1, <3>3
        <4>2. \A i \in 1..a + 1 : i \in 1..a \/ i = a + 1
          OBVIOUS
        <4> QED
          BY <3>3, <4>1, <4>2
      <3>7. pc'[p] \in {"idle", "registered"} => events'[RunOf[p]] = <<>>
        BY <1>3, <2>1, <2>4
      <3>8. ASSUME conn' = p PROVE pc'[p] # "idle" /\ \E b \in 0..Size(p) : FollowsOn(p, a + 1, b)'
        <4>1. conn = p /\ UNCHANGED pc /\ pc[p] \notin {"idle", "replay1", "replay2"}
          BY <1>1, <1>3, <2>1, <2>6, <3>8 DEF PostPhases
        <4>2. PICK b \in 0..Size(p) :
              a + 1 <= b /\ Tail(queue[p]) = Span(a + 1, b) /\ (p \in subs => b = Size(p))
          BY <1>12, <2>6, <3>1, ReceivesNext
        <4>3. queue'[p] = Span(a + 1, b) /\ (p \in subs' => b = Size(p)) /\ b <= Size(p) /\ p \notin Gets
          BY <1>1, <2>1, <2>2, <2>6, <4>2 DEF Undisturbed
        <4>4. Len(events'[topic'[p]]) = Size(p)
          BY <1>1, <2>1 DEF Size
        <4>5. FollowsOn(p, a + 1, b)'
          BY <3>5, <4>1, <4>2, <4>3, <4>4, Zenon DEF FollowsOn
        <4> QED
          BY <4>1, <4>5
      <3>9. conn' = p => pc'[p] # "idle" /\ \E b \in 0..Size(p)' : FollowsOn(p, Shown(p), b)'
        BY <3>4, <3>8
      <3> QED
        BY <3>4, <3>5, <3>6, <3>7, <3>9 DEF ShownOf
    <2> QED
      BY <2>5, <2>6
  <1>13. ASSUME NEW c \in Posts, Break(c) PROVE FALSE
    BY <1>13 DEF Break, Undisturbed
  <1>15. CASE (ServerStep \/ OtherStep) /\ UNCHANGED clientVars
    BY <1>1, <1>5, <1>6, <1>7, <1>8, <1>9, <1>15 DEF ServerStep, OtherStep, Undisturbed
  <1>16. CASE ClientStep
    BY <1>1, <1>10, <1>11, <1>12, <1>13, <1>16 DEF ClientStep, Undisturbed
  <1> QED
    BY <1>14, <1>15, <1>16 DEF Next

\* What the browser has been sent of every run, as the events themselves.
Sent == [r \in Runs |-> [i \in DOMAIN view[r] |-> events[r][view[r][i] + 1]]]

\* What was sent stays what it was while the rings grow.
LEMMA SentStays ==
    ASSUME ClientInv, ShownInv, UNCHANGED view,
           \A r \in Runs : \/ events'[r] = events[r]
                           \/ /\ \E p \in Posts : RunOf[p] = r
                              /\ \A i \in 1..Len(events[r]) : events'[r][i] = events[r][i]
    PROVE  Sent' = Sent
  <1> SUFFICES ASSUME NEW r \in Runs, NEW i \in DOMAIN view[r]
               PROVE  events'[r][view[r][i] + 1] = events[r][view[r][i] + 1]
    BY DEF Sent
  <1>1. CASE events'[r] = events[r]
    BY <1>1
  <1>2. ASSUME NEW p \in Posts, RunOf[p] = r, \A j \in 1..Len(events[r]) : events'[r][j] = events[r][j]
        PROVE  events'[r][view[r][i] + 1] = events[r][view[r][i] + 1]
    <2>1. view[r] \in Seq(Nat) /\ Len(events[r]) \in Nat
      BY DEF ClientInv, ClientTypes, StreamInv, TypeOK, RoutingTypeOK
    <2>2. i \in 1..Len(view[r]) /\ Len(view[r]) \in Nat
      BY <2>1
    <2>3. Len(view[r]) <= Len(events[r]) /\ view[r][i] = i - 1
      BY <1>2, <2>2 DEF ShownInv, ShownOf, Shown, Size
    <2>4. view[r][i] + 1 \in 1..Len(events[r])
      BY <2>1, <2>2, <2>3
    <2> QED
      BY <1>2, <2>4
  <1> QED
    BY <1>1, <1>2

LEMMA ReceiveShows ==
    ASSUME Undisturbed, ClientInv, ShownInv, NEW p \in Posts, Receive(p)
    PROVE  /\ Len(Sent[RunOf[p]]) = Shown(p)
           /\ Sent' = [Sent EXCEPT ![RunOf[p]] = Append(Sent[RunOf[p]], events[RunOf[p]][Shown(p) + 1])]
  <1> DEFINE r == RunOf[p]
             n == Shown(p)
             e == events[r][n + 1]
  <1>1. r \in Runs /\ view \in [Runs -> Seq(Nat)] /\ events[r] \in Seq(Frames)
    BY RoutingAssumption DEF ClientInv, ClientTypes, StreamInv, TypeOK, RoutingTypeOK
  <1>2. /\ UNCHANGED events /\ n \in Nat /\ n < Size(p) /\ Size(p) \in Nat
        /\ view' = [view EXCEPT ![r] = Append(view[r], n)]
    BY ReceivesNext
  <1>3. view[r] \in Seq(Nat) /\ Len(view[r]) = n /\ Len(events[r]) = Size(p)
        /\ \A i \in 1..n : view[r][i] = i - 1
    BY <1>1 DEF ShownInv, ShownOf, Shown, Size
  <1> HIDE DEF n, r
  <1>4. view'[r] = Append(view[r], n) /\ \A s \in Runs : s # r => view'[s] = view[s]
    BY <1>1, <1>2
  <1>5. /\ DOMAIN view[r] = 1..n /\ DOMAIN view'[r] = 1..n + 1 /\ view'[r][n + 1] = n
        /\ \A i \in 1..n : view'[r][i] = view[r][i]
    <2>1. n \in Nat
      BY <1>2
    <2> QED
      BY <1>3, <1>4, <2>1
  <1>6. \A i \in 1..n + 1 : events[r][i] \in Frames
    BY <1>1, <1>2, <1>3
  <1>7. Sent[r] = [i \in 1..n |-> events[r][i]]
    <2>1. \A i \in 1..n : view[r][i] + 1 = i
      BY <1>3
    <2> QED
      BY <1>1, <1>5, <2>1 DEF Sent
  <1>8. Sent[r] \in Seq(Frames) /\ Len(Sent[r]) = n /\ \A i \in 1..n : Sent[r][i] = events[r][i]
    BY <1>2, <1>6, <1>7
  <1>9. Sent'[r] = [i \in 1..n + 1 |-> events[r][i]]
    <2>1. \A i \in 1..n + 1 : view'[r][i] + 1 = i
      BY <1>2, <1>3, <1>5
    <2> QED
      BY <1>1, <1>2, <1>5, <2>1 DEF Sent
  <1>10. Sent'[r] = Append(Sent[r], e)
    <2> DEFINE longer == Append(Sent[r], e)
    <2>1. e \in Frames
      BY <1>2, <1>6
    <2>2. longer \in Seq(Frames) /\ Len(longer) = n + 1 /\ longer[n + 1] = e /\ \A i \in 1..n : longer[i] = events[r][i]
      <3> HIDE DEF e
      <3> QED
        BY <1>2, <1>8, <2>1
    <2>3. Sent'[r] \in Seq(Frames) /\ Len(Sent'[r]) = n + 1 /\ \A i \in 1..n + 1 : Sent'[r][i] = events[r][i]
      BY <1>2, <1>6, <1>9
    <2>4. \A i \in 1..n + 1 : i \in 1..n \/ i = n + 1
      BY <1>2
    <2> HIDE DEF longer
    <2>5. \A i \in 1..n + 1 : Sent'[r][i] = longer[i]
      BY <2>2, <2>3, <2>4
    <2>6. Sent'[r] = longer
      BY <2>2, <2>3, <2>5, SeqEqual
    <2> QED
      BY <2>6 DEF longer
  <1>11. \A s \in Runs : s # r => Sent'[s] = Sent[s]
    BY <1>2, <1>4 DEF Sent
  <1>12. Sent' = [Sent EXCEPT ![r] = Append(Sent[r], e)]
    <2>1. Sent = [s \in Runs |-> Sent[s]] /\ Sent' = [s \in Runs |-> Sent'[s]]
      BY DEF Sent
    <2> QED
      BY <1>1, <1>10, <1>11, <2>1
  <1> QED
    BY <1>8, <1>12 DEF r, n

LEMMA StepDelivers ==
    ASSUME Undisturbed, ClientInv, TurnsInv, ShownInv, [Next]_vars
    PROVE  [Delivered!Next]_<<events, Sent>>
  <1>1. /\ Requests = Posts /\ RunOf \in [Posts -> Runs] /\ RoutingTypeOK
        /\ \A r \in Runs : events[r] \in Seq(Frames)
    BY RoutingAssumption DEF Undisturbed, ClientInv, StreamInv, TypeOK, RoutingTypeOK, Requests
  <1>2. ASSUME UNCHANGED <<events, view>> PROVE UNCHANGED <<events, Sent>>
    BY <1>2 DEF Sent
  <1>3. ASSUME NEW p \in Posts, Frame(p), UNCHANGED view PROVE Delivered!Produce(RunOf[p])
    <2> DEFINE r == RunOf[p]
    <2>1. PICK f \in Frames : Stamp(r, <<f>>) /\ <<f>> \in Seq(Frames) /\ Len(<<f>>) = 1
      BY <1>1, <1>3, FrameProduces DEF Frame
    <2>2. r \in Runs
      BY <1>1
    <2>3. events' = [events EXCEPT ![r] = Append(events[r], f)]
      <3>1. events[r] \o <<f>> = Append(events[r], f)
        BY <1>1, <2>1, <2>2, AppendIsConcat
      <3> QED
        BY <2>1, <3>1 DEF Stamp
    <2>4. \A i \in 1..Len(events[r]) : events'[r][i] = events[r][i]
      <3>1. events'[r] = Append(events[r], f) /\ events[r] \in Seq(Frames)
        BY <1>1, <2>2, <2>3 DEF RoutingTypeOK
      <3> HIDE DEF r
      <3> QED
        BY <2>1, <3>1
    <2>5. \A s \in Runs : s # r => events'[s] = events[s]
      BY <1>1, <2>3 DEF RoutingTypeOK
    <2>6. Sent' = Sent
      BY <1>3, <2>4, <2>5, SentStays
    <2> QED
      BY <2>1, <2>3, <2>6 DEF Delivered!Produce, Sent
  <1>4. ASSUME NEW p \in Posts, Receive(p) PROVE Delivered!Show(RunOf[p])
    <2>1. UNCHANGED events /\ Shown(p) < Size(p)
      BY <1>4, ReceivesNext
    <2>2. /\ Len(Sent[RunOf[p]]) = Shown(p)
          /\ Sent' = [Sent EXCEPT ![RunOf[p]] = Append(Sent[RunOf[p]], events[RunOf[p]][Shown(p) + 1])]
      BY <1>4, ReceiveShows
    <2> QED
      BY <2>1, <2>2 DEF Delivered!Show, Sent, Size
  <1>5. ASSUME NEW p \in Posts, Register(p) \/ Commit(p) \/ Respond(p) \/ StartPost(p) \/ WriterStep(p), UNCHANGED clientVars
        PROVE  UNCHANGED <<events, view>>
    BY <1>5 DEF Register, Commit, Queued, Respond, StartPost, WriterStep, WriterSubscribes, WriterStores,
                WriterFails, WriterIdles, WriterDropped, routingVars, clientVars
  <1>6. ASSUME NEW c \in Posts, Send(c) \/ Cut(c) \/ Unsubscribe(c), UNCHANGED clientVars
        PROVE  UNCHANGED <<events, view>>
    BY <1>6 DEF Send, SendReplayed, SendLive, Cut, Unsubscribe, routingVars, clientVars
  <1>7. ASSUME NEW p \in Posts, Submit(p) \/ Refused(p) PROVE UNCHANGED <<events, view>>
    BY <1>7 DEF Submit, Register, Refused, CommitFails, routingVars
  <1>8. CASE (ServerStep \/ OtherStep) /\ UNCHANGED clientVars
    <2>1. (\E p \in Posts : Frame(p)) \/ UNCHANGED <<events, view>>
      BY <1>1, <1>5, <1>6, <1>8 DEF ServerStep, OtherStep, Undisturbed
    <2>2. UNCHANGED view
      BY <1>8 DEF clientVars
    <2> QED
      BY <1>1, <1>2, <1>3, <2>1, <2>2 DEF Delivered!Next
  <1>9. CASE ClientStep
    <2>1. (\E p \in Posts : Receive(p)) \/ UNCHANGED <<events, view>>
      BY <1>1, <1>7, <1>9 DEF ClientStep, Break, Undisturbed
    <2> QED
      BY <1>1, <1>2, <1>4, <2>1 DEF Delivered!Next
  <1>10. CASE UNCHANGED vars
    BY <1>2, <1>10 DEF vars, streamVars, routingVars, clientVars
  <1> QED
    BY <1>8, <1>9, <1>10 DEF Next

LEMMA InitShown == Undisturbed /\ Init => TurnsInv /\ IdleInv /\ ShownInv
  <1> SUFFICES ASSUME Undisturbed, Init PROVE TurnsInv /\ IdleInv /\ ShownInv
    OBVIOUS
  <1> USE DEF Init, InitStream, InitRouting, InitIngress
  <1>1. TurnsInv
    BY RoutingAssumption DEF TurnsInv
  <1>2. IdleInv
    BY DEF IdleInv
  <1>3. ASSUME NEW p \in Posts PROVE ShownOf(p)
    <2>1. events[RunOf[p]] = <<>> /\ view[RunOf[p]] = <<>> /\ conn # p /\ cursor = -1
      BY RoutingAssumption
    <2>2. Shown(p) = 0 /\ Size(p) = 0
      BY <2>1 DEF Shown, Size
    <2> QED
      BY <2>1, <2>2 DEF ShownOf
  <1> QED
    BY <1>1, <1>2, <1>3 DEF ShownInv

\* The safety part of KeepsThePromise: while no connection breaks and one runner serves
\* the session, each step of backend and browser produces one event of a run, shows the
\* browser the next event of one, or concerns neither.
THEOREM PromiseIsNeverBroken ==
    ASSUME Undisturbed
    PROVE  Spec => Delivered!Init /\ [][Delivered!Next]_<<events, Sent>>
  <1>1. Init => Delivered!Init
    BY DEF Init, InitStream, InitRouting, InitIngress, Delivered!Init
  <1>2. ClientInv /\ PostsInv /\ TurnsInv /\ IdleInv /\ ShownInv /\ [Next]_vars
            => TurnsInv' /\ IdleInv' /\ ShownInv' /\ [Delivered!Next]_<<events, Sent>>
    <2> SUFFICES ASSUME ClientInv, PostsInv, TurnsInv, IdleInv, ShownInv, [Next]_vars
                 PROVE  TurnsInv' /\ IdleInv' /\ ShownInv' /\ [Delivered!Next]_<<events, Sent>>
      OBVIOUS
    <2>1. RoutingTypeOK /\ StreamInv /\ ~Overlap /\ [NextStream]_streamVars /\ [NextRouting]_routingVars
      BY ClientStreams, StepRoutes DEF ClientInv, StreamInv, TypeOK, Undisturbed
    <2> QED
      BY <2>1, StepTurns, IdleStep, ShownStep, StepDelivers
  <1>3. Spec => []PostsInv
    BY BrowserIsAClient, PersisterInvariant, PTL
  <1> QED
    BY <1>1, <1>2, <1>3, InitShown, ClientInvariant, PTL DEF Spec
=============================================================================
