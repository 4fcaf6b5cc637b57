-------------------------- MODULE EventStreamProofs --------------------------
(***************************************************************************)
(* Proofs about EventStream, for any POSTs, GETs, runs, bounds and         *)
(* switches.  The bus and the endpoints leave the routing alone, so what   *)
(* FrameRoutingProofs says of RoutingSpec holds of StreamSpec.             *)
(***************************************************************************)
EXTENDS EventStream, FrameRoutingProofs

LEMMA StepRoutes == [NextStream]_streamVars => [NextRouting]_routingVars
  <1> SUFFICES ASSUME [NextStream]_streamVars PROVE [NextRouting]_routingVars
    OBVIOUS
  <1>1. ASSUME NEW p \in Posts, Frame(p) PROVE NextRouting
    BY <1>1 DEF Frame, NextRouting
  <1>2. ASSUME NEW p \in Posts, PostStep(p) PROVE [NextRouting]_routingVars
    BY <1>2 DEF PostStep, Register, Commit, CommitFails, Respond, StartPost, NextRouting
  <1>3. ASSUME NEW p \in Posts, WriterStep(p) PROVE UNCHANGED routingVars
    BY <1>3 DEF WriterStep, WriterSubscribes, WriterStores, WriterFails, WriterIdles, WriterDropped
  <1>4. ASSUME NEW g \in Gets, ReplayStep(g) PROVE UNCHANGED routingVars
    BY <1>4 DEF ReplayStep, FirstReplay, ReplayReturns, SecondReplay, ReplayTails, GoesOn
  <1>5. ASSUME NEW g \in Gets, NEW r \in Runs, NEW cursor, OpenGet(g, r, cursor)
        PROVE  UNCHANGED routingVars
    BY <1>5 DEF OpenGet
  <1>6. ASSUME NEW c \in Requests, Send(c) \/ Cut(c) \/ Unsubscribe(c) PROVE UNCHANGED routingVars
    BY <1>6 DEF Send, SendReplayed, SendLive, Cut, Unsubscribe
  <1>7. CASE UNCHANGED streamVars
    BY <1>7 DEF streamVars
  <1> QED
    BY <1>1, <1>2, <1>3, <1>4, <1>5, <1>6, <1>7 DEF NextStream, Send, Requests

\* The bus, the endpoints and the persister do not interfere with _dispatch_frame's
\* routing: every behaviour of the streams is one of the routing.
THEOREM StreamsRoute == StreamSpec => RoutingSpec
  <1>1. InitStream => InitRouting
    BY DEF InitStream
  <1> QED
    BY <1>1, StepRoutes, PTL DEF StreamSpec, RoutingSpec

-----------------------------------------------------------------------------
(* Type correctness. *)

LEMMA SpanType ==
    ASSUME NEW lo \in Nat, NEW hi \in Nat
    PROVE  Span(lo, hi) \in Seq(Nat)
  <1>1. CASE lo <= hi
    <2>1. hi - lo \in Nat
      BY <1>1
    <2>2. \A i \in 1..(hi - lo) : lo + i - 1 \in Nat
      OBVIOUS
    <2> QED
      BY <2>1, <2>2 DEF Span
  <1>2. CASE lo > hi
    <2>1. 1..(hi - lo) = 1..0
      BY <1>2
    <2> QED
      BY <2>1 DEF Span
  <1> QED
    BY <1>1, <1>2

LEMMA ReplayType ==
    ASSUME TypeOK, NEW r \in Runs, NEW cursor \in Nat \cup {-1}
    PROVE  ReplayFrom(r, cursor) \in Seq(Nat)
  <1> DEFINE size == Len(events[r])
             oldest == IF size > RingCap THEN size - RingCap ELSE 0
             lo == IF cursor + 1 > oldest THEN cursor + 1 ELSE oldest
  <1>1. size \in Nat /\ oldest \in Nat
    BY StreamAssumption DEF TypeOK, RoutingTypeOK
  <1>2. lo \in Nat
    BY <1>1
  <1>3. ReplayFrom(r, cursor) = Span(lo, size)
    BY DEF ReplayFrom
  <1> QED
    BY <1>1, <1>2, <1>3, SpanType

\* A queue takes an event only while there is room for it.
LEMMA FitType ==
    ASSUME NEW q \in Seq(Nat), NEW added \in Seq(Nat)
    PROVE  LET s == q \o added
               fit == IF Len(s) > QueueCap THEN SubSeq(s, 1, QueueCap) ELSE s
           IN  fit \in Seq(Nat) /\ Len(fit) <= QueueCap
  <1> DEFINE s == q \o added
  <1>1. s \in Seq(Nat) /\ Len(s) \in Nat
    OBVIOUS
  <1> HIDE DEF s
  <1>2. CASE Len(s) > QueueCap
    <2>1. SubSeq(s, 1, QueueCap) \in Seq(Nat) /\ Len(SubSeq(s, 1, QueueCap)) = QueueCap
      BY <1>1, <1>2, StreamAssumption
    <2> QED
      BY <1>2, <2>1, StreamAssumption DEF s
  <1>3. CASE ~(Len(s) > QueueCap)
    BY <1>1, <1>3, StreamAssumption DEF s
  <1> QED
    BY <1>2, <1>3


\* TypeOK alone is not inductive: whoever subscribes or replays knows its run.
TopicsKnown ==
    /\ \A p \in Posts : topic[p] = RunOf[p]
    /\ \A g \in Gets : pc[g] # "idle" \/ g \in subs => topic[g] \in Runs

StreamInv == TypeOK /\ TopicsKnown

LEMMA TopicType ==
    ASSUME StreamInv, NEW c \in Requests, c \in subs \/ pc[c] # "idle"
    PROVE  topic[c] \in Runs
  BY RoutingAssumption DEF StreamInv, TopicsKnown, Requests

LEMMA PublishType ==
    ASSUME StreamInv, RoutingTypeOK', Publish
    PROVE  /\ queue' \in [Requests -> Seq(Nat)]
           /\ \A c \in Requests : Len(queue'[c]) <= QueueCap
           /\ subs' \subseteq Requests
           /\ \A c \in subs' : c \in subs
           /\ inflow' \in [Posts -> Seq(Nat)]
  <1> DEFINE Added(r) == Span(Len(events[r]), Len(events'[r]))
             Fit(q) == IF Len(q) > QueueCap THEN SubSeq(q, 1, QueueCap) ELSE q
             Next_(c) == IF c \in subs THEN Fit(queue[c] \o Added(topic[c])) ELSE queue[c]
             Flow(p) == IF writer[p] = "on" THEN inflow[p] \o Added(RunOf[p]) ELSE inflow[p]
  <1>1. \A r \in Runs : Added(r) \in Seq(Nat)
    BY SpanType DEF StreamInv, TypeOK, RoutingTypeOK
  <1>2. /\ queue' = [c \in Requests |-> Next_(c)]
        /\ subs' = {c \in subs : Len(queue[c]) + Len(Added(topic[c])) <= QueueCap}
        /\ inflow' = [p \in Posts |-> Flow(p)]
    BY DEF Publish
  <1> HIDE DEF Added
  <1>3. ASSUME NEW c \in Requests
        PROVE  Next_(c) \in Seq(Nat) /\ Len(Next_(c)) <= QueueCap
    <2>1. queue[c] \in Seq(Nat) /\ Len(queue[c]) <= QueueCap
      BY DEF StreamInv, TypeOK
    <2>2. CASE c \in subs
      <3>1. Added(topic[c]) \in Seq(Nat)
        BY <1>1, <2>2, TopicType
      <3> QED
        BY <2>1, <2>2, <3>1, FitType
    <2> QED
      BY <2>1, <2>2
  <1>4. ASSUME NEW p \in Posts PROVE Flow(p) \in Seq(Nat)
    <2>1. inflow[p] \in Seq(Nat) /\ Added(RunOf[p]) \in Seq(Nat)
      BY <1>1, RoutingAssumption DEF StreamInv, TypeOK
    <2> QED
      BY <2>1
  <1> HIDE DEF Next_, Flow
  <1>5. subs \subseteq Requests
    BY DEF StreamInv, TypeOK
  <1> QED
    BY <1>2, <1>3, <1>4, <1>5

LEMMA InitStreamType == InitStream => StreamInv
  BY InitType, RoutingAssumption, StreamAssumption
     DEF InitStream, StreamInv, TypeOK, TopicsKnown, Requests, PostPhases, GetPhases, WriterPhases

LEMMA FrameType ==
    ASSUME StreamInv, NEW p \in Posts, Frame(p) PROVE StreamInv'
  <1>1. RoutingTypeOK'
    BY StepType DEF Frame, NextRouting, StreamInv, TypeOK
  <1>2. Publish /\ UNCHANGED <<pc, topic, replay, highest, writer, stored, since, tasks>>
    BY DEF Frame
  <1>3. /\ queue' \in [Requests -> Seq(Nat)]
        /\ \A c \in Requests : Len(queue'[c]) <= QueueCap
        /\ subs' \subseteq Requests
        /\ \A c \in subs' : c \in subs
        /\ inflow' \in [Posts -> Seq(Nat)]
    BY <1>1, <1>2, PublishType
  <1>4. TypeOK'
    BY <1>1, <1>2, <1>3 DEF StreamInv, TypeOK
  <1>5. TopicsKnown'
    BY <1>2, <1>3 DEF StreamInv, TopicsKnown
  <1> QED
    BY <1>4, <1>5 DEF StreamInv

LEMMA PostStepType ==
    ASSUME StreamInv, NEW p \in Posts, PostStep(p), RoutingTypeOK' PROVE StreamInv'
  <1> USE DEF StreamInv, TypeOK, TopicsKnown, Requests, PostPhases, GetPhases, WriterPhases
  <1>1. p \notin Gets /\ p \in Requests /\ RunOf[p] \in Runs
    BY StreamAssumption, RoutingAssumption
  <1>2. CASE Register(p)
    BY <1>1, <1>2 DEF Register, writerVars, routingVars
  <1>3. CASE Commit(p)
    BY <1>1, <1>3 DEF Commit, Queued, writerVars
  <1>4. CASE CommitFails(p)
    BY <1>1, <1>4 DEF CommitFails, writerVars, routingVars
  <1>5. CASE Respond(p)
    <2>1. /\ pc' = [pc EXCEPT ![p] = "open"]
          /\ UNCHANGED <<topic, subs, queue, replay, highest, inflow, stored, since>>
      BY <1>5 DEF Respond
    <2>2. writer' \in [Posts -> WriterPhases] /\ tasks' \in [Runs -> Posts \cup {None}]
      BY <1>1, <1>5 DEF Respond
    <2> QED
      BY <1>1, <2>1, <2>2
  <1>6. CASE StartPost(p)
    BY <1>1, <1>6 DEF StartPost, writerVars, routingVars
  <1> QED
    BY <1>2, <1>3, <1>4, <1>5, <1>6 DEF PostStep

LEMMA ReplayStepType ==
    ASSUME StreamInv, NEW g \in Gets, ReplayStep(g) PROVE StreamInv'
  <1> USE DEF Requests
  <1>1. pc[g] # "idle" /\ UNCHANGED <<routingVars, topic, subs, queue, highest, writerVars>>
    BY DEF ReplayStep, FirstReplay, FirstReplayDone, ReplayReturns, SecondReplay, ReplayTails, GoesOn
  <1>2. topic[g] \in Runs /\ highest[g] \in Nat \cup {-1}
    BY <1>1, TopicType DEF StreamInv, TypeOK
  <1>3. ReplayFrom(topic[g], highest[g]) \in Seq(Nat)
    BY <1>2, ReplayType DEF StreamInv
  <1>4. PICK next \in GetPhases \ {"idle"}, list \in Seq(Nat) :
          pc' = [pc EXCEPT ![g] = next] /\ replay' = [replay EXCEPT ![g] = list]
    <2> DEFINE fresh == ReplayFrom(topic[g], highest[g])
    <2>1. <<>> \in Seq(Nat) /\ fresh \in Seq(Nat)
      BY <1>3
    <2>2. GoesOn(g, "replay1", fresh) \/ GoesOn(g, "replay2", fresh) \/ GoesOn(g, "closed", <<>>) \/ GoesOn(g, "tail", <<>>)
      BY DEF ReplayStep, FirstReplay, ReplayReturns, SecondReplay, ReplayTails
    <2> HIDE DEF fresh
    <2>3. \A next, list : GoesOn(g, next, list) =>
            pc' = [pc EXCEPT ![g] = next] /\ replay' = [replay EXCEPT ![g] = list]
      BY DEF GoesOn
    <2>4. {"replay1", "replay2", "closed", "tail"} \subseteq GetPhases \ {"idle"}
      BY DEF GetPhases
    <2> QED
      BY <2>1, <2>2, <2>3, <2>4
  <1>5. TypeOK'
    BY <1>1, <1>4 DEF StreamInv, TypeOK, RoutingTypeOK, routingVars, writerVars
  <1>6. TopicsKnown'
    BY <1>1, <1>2, <1>4 DEF StreamInv, TopicsKnown, TypeOK
  <1> QED
    BY <1>5, <1>6 DEF StreamInv

LEMMA OpenGetType ==
    ASSUME StreamInv, NEW g \in Gets, NEW r \in Runs, NEW cursor \in Nat \cup {-1}, OpenGet(g, r, cursor)
    PROVE  StreamInv'
  <1>1. g \notin Posts /\ g \in Requests
    BY StreamAssumption DEF Requests
  <1>2. TypeOK'
    BY <1>1 DEF StreamInv, TypeOK, OpenGet, RoutingTypeOK, routingVars, writerVars, GetPhases
  <1>3. TopicsKnown'
    BY <1>1 DEF StreamInv, TopicsKnown, TypeOK, OpenGet, Requests
  <1> QED
    BY <1>2, <1>3 DEF StreamInv

LEMMA SendType ==
    ASSUME StreamInv, NEW c \in Requests, Send(c) \/ Cut(c) \/ Unsubscribe(c) PROVE StreamInv'
  <1> USE DEF StreamInv, TypeOK, TopicsKnown, routingVars, writerVars
  <1>1. CASE SendReplayed(c)
    <2>1. Head(replay[c]) \in Nat /\ Tail(replay[c]) \in Seq(Nat)
      BY <1>1 DEF SendReplayed
    <2> QED
      BY <1>1, <2>1 DEF SendReplayed, RoutingTypeOK
  <1>2. CASE SendLive(c)
    <2>1. Tail(queue[c]) \in Seq(Nat) /\ Len(Tail(queue[c])) <= QueueCap
      BY <1>2, StreamAssumption DEF SendLive
    <2>2. queue' = [queue EXCEPT ![c] = Tail(queue[c])] /\ pc[c] # "idle"
          /\ UNCHANGED <<routingVars, topic, subs, replay, highest, writerVars>>
      BY <1>2 DEF SendLive
    <2>3. pc' \in [Requests -> PostPhases \cup GetPhases] /\ \A g \in Requests : pc'[g] # "idle" => pc[g] # "idle"
      <3>1. pc' = pc \/ pc' = [pc EXCEPT ![c] = "closing"]
        <4>1. CASE IsTerminal(topic[c], Head(queue[c]))
          BY <1>2, <4>1 DEF SendLive
        <4>2. CASE ~IsTerminal(topic[c], Head(queue[c]))
          BY <1>2, <4>2 DEF SendLive
        <4> QED
          BY <4>1, <4>2
      <3> QED
        BY <2>2, <3>1 DEF PostPhases
    <2>4. TypeOK'
      BY <2>1, <2>2, <2>3 DEF RoutingTypeOK
    <2>5. \A g \in Gets : pc'[g] # "idle" => pc[g] # "idle"
      BY <2>3 DEF Requests
    <2>6. TopicsKnown'
      BY <2>2, <2>5
    <2> QED
      BY <2>4, <2>6
  <1>3. CASE Cut(c) \/ Unsubscribe(c)
    <2>1. /\ pc[c] # "idle"
          /\ \E ph \in {"closing", "closed"} : pc' = [pc EXCEPT ![c] = ph]
          /\ subs' = subs \/ subs' = subs \ {c}
          /\ replay' = [replay EXCEPT ![c] = <<>>] \/ replay' = replay
          /\ UNCHANGED <<routingVars, topic, queue, highest, writerVars>>
      BY <1>3 DEF Cut, Unsubscribe
    <2>2. pc' \in [Requests -> PostPhases \cup GetPhases] /\ \A g \in Requests : pc'[g] # "idle" => pc[g] # "idle"
      BY <2>1 DEF PostPhases
    <2>3. TypeOK'
      <3>1. replay' \in [Requests -> Seq(Nat)]
        <4>1. CASE replay' = [replay EXCEPT ![c] = <<>>]
          BY <4>1
        <4>2. CASE replay' = replay
          BY <4>2
        <4> QED
          BY <2>1, <4>1, <4>2
      <3>2. subs' \subseteq Requests
        BY <2>1
      <3> QED
        BY <2>1, <2>2, <3>1, <3>2 DEF RoutingTypeOK
    <2>4. TopicsKnown'
      BY <2>1, <2>2 DEF Requests
    <2> QED
      BY <2>3, <2>4
  <1> QED
    BY <1>1, <1>2, <1>3 DEF Send

\* What becomes of a request that sends, loses its connection or is finalized.
LEMMA EndPhases ==
    ASSUME StreamInv, NEW c \in Requests, Send(c) \/ Cut(c) \/ Unsubscribe(c)
    PROVE  /\ \A x \in Requests : pc'[x] = pc[x] \/ (x = c /\ pc'[x] \in {"closing", "closed"})
           /\ pc' = pc \/ \E ph \in {"closing", "closed"} : pc' = [pc EXCEPT ![c] = ph]
           /\ subs' \subseteq subs
  <1>1. pc \in [Requests -> PostPhases \cup GetPhases]
    BY DEF StreamInv, TypeOK
  <1>2. CASE SendReplayed(c)
    BY <1>2 DEF SendReplayed
  <1>3. CASE SendLive(c)
    <2>1. pc' = pc \/ pc' = [pc EXCEPT ![c] = "closing"]
      BY <1>1, <1>3 DEF SendLive
    <2> QED
      BY <1>1, <1>3, <2>1 DEF SendLive
  <1>4. CASE Cut(c) \/ Unsubscribe(c)
    BY <1>1, <1>4 DEF Cut, Unsubscribe
  <1> QED
    BY <1>2, <1>3, <1>4 DEF Send

LEMMA WriterStepType ==
    ASSUME StreamInv, NEW p \in Posts, WriterStep(p) PROVE StreamInv'
  <1> USE DEF StreamInv, TypeOK, TopicsKnown, RoutingTypeOK, routingVars, requestVars, WriterPhases
  <1>1. CASE WriterSubscribes(p)
    <2>1. Len(events[RunOf[p]]) \in Nat
      BY RoutingAssumption
    <2> QED
      BY <1>1, <2>1 DEF WriterSubscribes
  <1>2. CASE WriterStores(p) \/ WriterFails(p)
    <2>1. Head(inflow[p]) \in Nat /\ Tail(inflow[p]) \in Seq(Nat)
      BY <1>2 DEF WriterStores, WriterFails
    <2>2. CASE WriterStores(p)
      BY <2>1, <2>2 DEF WriterStores
    <2>3. CASE WriterFails(p)
      BY <2>1, <2>3 DEF WriterFails
    <2> QED
      BY <1>2, <2>2, <2>3
  <1>3. CASE WriterIdles(p)
    BY <1>3 DEF WriterIdles
  <1>4. CASE WriterDropped(p)
    BY <1>4, RoutingAssumption DEF WriterDropped
  <1> QED
    BY <1>1, <1>2, <1>3, <1>4 DEF WriterStep

LEMMA StepStreamType == StreamInv /\ [NextStream]_streamVars => StreamInv'
  <1> SUFFICES ASSUME StreamInv, [NextStream]_streamVars PROVE StreamInv'
    OBVIOUS
  <1>1. RoutingTypeOK'
    BY StepRoutes, StepType DEF StreamInv, TypeOK
  <1>2. CASE UNCHANGED streamVars
    BY <1>2 DEF StreamInv, TypeOK, TopicsKnown, RoutingTypeOK, streamVars, routingVars, requestVars, writerVars
  <1> QED
    BY <1>1, <1>2, FrameType, PostStepType, ReplayStepType, OpenGetType, SendType, WriterStepType
    DEF NextStream, Send, Requests

\* The bus, the endpoints and the persister are well typed, and no bounded queue
\* ever holds more than its size (event_bus.py).
THEOREM StreamTypeCorrect == StreamSpec => []TypeOK
  <1>1. StreamInv => TypeOK
    BY DEF StreamInv
  <1> QED
    BY <1>1, InitStreamType, StepStreamType, PTL DEF StreamSpec

-----------------------------------------------------------------------------
(* The persisters. *)

Asking(r) == {p \in Posts : RunOf[p] = r}

Size(p) == Len(events[RunOf[p]])

\* The seq of the event that the persister of p handles next.
At(p) == Size(p) - Len(inflow[p])

Live(p) == writer[p] \in {"scheduled", "on"}

Ended(p) == writer[p] \in {"ended", "gone"}

\* The persister has handled a terminal event.
Through(p) == \E n \in stored[p] : IsTerminal(RunOf[p], n)

\* What a persister has handled lies before what is in its queue, and that reaches up
\* to the newest event of the run.
WriterInv(p) ==
    /\ writer[p] \in {"none", "scheduled"} => inflow[p] = <<>> /\ stored[p] = {}
    /\ \A n \in stored[p] : n < Size(p)
    /\ writer[p] = "on" =>
        /\ Len(inflow[p]) <= Size(p)
        /\ inflow[p] = Span(At(p), Size(p))
        /\ \A n \in stored[p] : n < At(p)
        /\ ~Through(p)

WritersInv == \A p \in Posts : WriterInv(p)

\* A persister is that of a POST that was answered, and the run's key names one
\* whose callback is still to come.
PostsInv ==
    /\ \A p \in Posts :
        /\ writer[p] # "none" => pc[p] \in {"open", "tail", "closing", "closed"}
        /\ pc[p] \in {"idle", "registered"} => \A i \in DOMAIN inbox : inbox[i] # p
    /\ \A r \in Runs : tasks[r] # None =>
        RunOf[tasks[r]] = r /\ writer[tasks[r]] \in {"scheduled", "on", "ended"}

\* Two persisters of a run never live at once, and the later one gets only events
\* that the earlier one had no more to handle.
PairInv(p, q) ==
    /\ ~(Live(p) /\ Live(q))
    /\ Live(p) /\ writer[q] = "none" => tasks[RunOf[p]] = p
    /\ stored[p] \cap stored[q] = {}
    /\ writer[p] = "on" => \A n \in stored[q] : n < At(p)

PairsInv == \A p, q \in Posts : p # q /\ RunOf[p] = RunOf[q] => PairInv(p, q)

\* A persister has handled all that was published since it subscribed, up to the event
\* it handles next or to a terminal one, unless it ended without any.
WholeInv ==
    \A p \in Posts :
        /\ writer[p] \in {"none", "scheduled"} => since[p] = -1
        /\ \/ since[p] = -1
           \/ writer[p] = "on" /\ since[p]..At(p) - 1 \subseteq stored[p]
           \/ Ended(p) /\ ~Through(p)
           \/ \E m \in stored[p] : IsTerminal(RunOf[p], m) /\ since[p]..m \subseteq stored[p]

-----------------------------------------------------------------------------
(* Intervals of seqs. *)

LEMMA SpanIs ==
    ASSUME NEW lo \in Nat, NEW hi \in Nat, lo <= hi
    PROVE  /\ Span(lo, hi) \in Seq(Nat)
           /\ Len(Span(lo, hi)) = hi - lo
           /\ \A i \in 1..hi - lo : Span(lo, hi)[i] = lo + i - 1
  <1>1. hi - lo \in Nat
    OBVIOUS
  <1>2. \A i \in 1..hi - lo : lo + i - 1 \in Nat
    OBVIOUS
  <1> QED
    BY <1>1, <1>2 DEF Span

LEMMA SpanTail ==
    ASSUME NEW lo \in Nat, NEW hi \in Nat, lo < hi
    PROVE  /\ Span(lo, hi) # <<>>
           /\ Head(Span(lo, hi)) = lo
           /\ Tail(Span(lo, hi)) = Span(lo + 1, hi)
           /\ lo + 1 <= hi
  <1>1. /\ Span(lo, hi) \in Seq(Nat) /\ Len(Span(lo, hi)) = hi - lo
        /\ \A i \in 1..hi - lo : Span(lo, hi)[i] = lo + i - 1
    BY SpanIs
  <1>2. /\ lo + 1 <= hi /\ Span(lo + 1, hi) \in Seq(Nat) /\ Len(Span(lo + 1, hi)) = hi - (lo + 1)
        /\ \A i \in 1..hi - (lo + 1) : Span(lo + 1, hi)[i] = lo + 1 + i - 1
    BY SpanIs
  <1> DEFINE s == Span(lo, hi)
             t == Span(lo + 1, hi)
  <1> HIDE DEF s, t
  <1>3. s \in Seq(Nat) /\ Len(s) = hi - lo /\ \A i \in 1..hi - lo : s[i] = lo + i - 1
    BY <1>1 DEF s
  <1>4. t \in Seq(Nat) /\ Len(t) = hi - lo - 1 /\ \A i \in 1..hi - lo - 1 : t[i] = lo + i
    BY <1>2 DEF t
  <1>5. s # <<>> /\ Head(s) = lo
    BY <1>3
  <1>6. Tail(s) \in Seq(Nat) /\ Len(Tail(s)) = hi - lo - 1 /\ \A i \in 1..hi - lo - 1 : Tail(s)[i] = s[i + 1]
    BY <1>3, <1>5
  <1>7. Len(Tail(s)) = Len(t) /\ \A i \in 1..Len(Tail(s)) : Tail(s)[i] = t[i]
    BY <1>3, <1>4, <1>6
  <1>8. Tail(s) = t
    BY <1>4, <1>6, <1>7, SeqEqual
  <1> QED
    BY <1>2, <1>5, <1>8 DEF s, t

LEMMA SpanNone == ASSUME NEW n \in Nat PROVE Span(n, n) = <<>>
  <1>1. n <= n /\ n - n = 0
    OBVIOUS
  <1>2. Span(n, n) \in Seq(Nat) /\ Len(Span(n, n)) = 0
    BY <1>1, SpanIs
  <1> QED
    BY <1>2, EmptySeq

LEMMA SpanConcat ==
    ASSUME NEW lo \in Nat, NEW mid \in Nat, NEW hi \in Nat, lo <= mid, mid <= hi
    PROVE  Span(lo, mid) \o Span(mid, hi) = Span(lo, hi)
  <1> DEFINE s == Span(lo, mid)
             t == Span(mid, hi)
             u == Span(lo, hi)
  <1>1. s \in Seq(Nat) /\ Len(s) = mid - lo /\ \A i \in 1..mid - lo : s[i] = lo + i - 1
    BY SpanIs
  <1>2. t \in Seq(Nat) /\ Len(t) = hi - mid /\ \A i \in 1..hi - mid : t[i] = mid + i - 1
    BY SpanIs
  <1>3. u \in Seq(Nat) /\ Len(u) = hi - lo /\ \A i \in 1..hi - lo : u[i] = lo + i - 1
    BY SpanIs
  <1> HIDE DEF s, t, u
  <1>4. /\ s \o t \in Seq(Nat) /\ Len(s \o t) = Len(s) + Len(t)
        /\ \A i \in 1..Len(s) + Len(t) : (s \o t)[i] = IF i <= Len(s) THEN s[i] ELSE t[i - Len(s)]
    BY <1>1, <1>2, ConcatProperties
  <1>5. Len(s \o t) = Len(u)
    BY <1>1, <1>2, <1>3, <1>4
  <1>6. ASSUME NEW i \in 1..hi - lo PROVE (s \o t)[i] = u[i]
    <2>1. (s \o t)[i] = IF i <= mid - lo THEN s[i] ELSE t[i - (mid - lo)]
      BY <1>1, <1>2, <1>4
    <2>2. CASE i <= mid - lo
      BY <1>1, <1>3, <2>1, <2>2
    <2>3. CASE ~(i <= mid - lo)
      <3>1. i - (mid - lo) \in 1..hi - mid
        BY <2>3
      <3> QED
        BY <1>2, <1>3, <2>1, <2>3, <3>1
    <2> QED
      BY <2>2, <2>3
  <1>7. s \o t = u
    BY <1>3, <1>4, <1>5, <1>6, SeqEqual
  <1> QED
    BY <1>7 DEF s, t, u

-----------------------------------------------------------------------------
(* What a frame does to the persisters. *)

\* Rings only grow.
LEMMA RingsGrow ==
    ASSUME TypeOK, [NextStream]_streamVars, NEW r \in Runs
    PROVE  /\ Len(events[r]) \in Nat /\ Len(events'[r]) \in Nat
           /\ Len(events[r]) <= Len(events'[r])
           /\ \A i \in 1..Len(events[r]) : events'[r][i] = events[r][i]
  <1>1. RoutingTypeOK /\ [NextRouting]_routingVars
    BY StepRoutes DEF TypeOK
  <1>2. RoutingTypeOK' /\ events[r] \in Seq(Frames)
    BY <1>1, StepType DEF RoutingTypeOK
  <1>3. CASE events' = events
    BY <1>2, <1>3 DEF RoutingTypeOK
  <1>4. ASSUME NEW q \in Runs, NEW added \in Seq(Frames), Stamp(q, added)
        PROVE  Len(events[r]) <= Len(events'[r]) /\ \A i \in 1..Len(events[r]) : events'[r][i] = events[r][i]
    <2>1. CASE q = r
      BY <1>1, <1>2, <1>4, <2>1, Stamped
    <2>2. CASE q # r
      BY <1>1, <1>2, <1>4, <2>2, Stamped
    <2> QED
      BY <2>1, <2>2
  <1>5. events' = events \/ \E q \in Runs, added \in Seq(Frames) : Stamp(q, added)
    <2> USE RoutingAssumption
    <2>1. CASE UNCHANGED routingVars
      BY <2>1 DEF routingVars
    <2>2. ASSUME NEW p \in Posts, Queued(p) PROVE events' = events
      BY <2>2 DEF Queued
    <2>3. ASSUME NEW p \in Posts, RunStarted(p) PROVE \E q \in Runs, added \in Seq(Frames) : Stamp(q, added)
      BY <1>1, <2>3, StartedFrames DEF RunStarted, StartedArrives
    <2>4. ASSUME NEW p \in Posts, RunEnded(p) PROVE \E q \in Runs, added \in Seq(Frames) : Stamp(q, added)
      <3>1. Last \in 0..Last /\ RunOf[p] \in Runs /\ Stamp(RunOf[p], <<<<p, Last>>>>)
        BY <2>4 DEF RunEnded, EndedArrives
      <3> QED
        BY <3>1, OneFrame
    <2>5. ASSUME NEW p \in Posts, Routed(p) PROVE \E q \in Runs, added \in Seq(Frames) : Stamp(q, added)
      <3>1. <<<<p, emitted[p]>>>> \in Seq(Frames) /\ active \in Runs
        BY <1>1, <2>5, OneFrame DEF Routed, GoesToActive, RoutingTypeOK
      <3> QED
        BY <2>5, <3>1 DEF Routed, GoesToActive
    <2>6. ASSUME NEW p \in Posts, Parked(p) PROVE events' = events
      BY <2>6 DEF Parked, Waits
    <2> QED
      BY <1>1, <2>1, <2>2, <2>3, <2>4, <2>5, <2>6 DEF NextRouting, Dispatch
  <1> QED
    BY <1>2, <1>3, <1>4, <1>5 DEF RoutingTypeOK

LEMMA Sizes ==
    ASSUME StreamInv, [NextStream]_streamVars, NEW p \in Posts
    PROVE  /\ RunOf[p] \in Runs
           /\ Size(p) \in Nat /\ Size(p)' \in Nat /\ Size(p) <= Size(p)'
           /\ \A n \in Nat : n < Size(p) => (IsTerminal(RunOf[p], n)' <=> IsTerminal(RunOf[p], n))
  <1>1. RunOf[p] \in Runs
    BY RoutingAssumption
  <1>2. /\ Size(p) \in Nat /\ Size(p)' \in Nat /\ Size(p) <= Size(p)'
        /\ \A i \in 1..Size(p) : events'[RunOf[p]][i] = events[RunOf[p]][i]
    BY <1>1, RingsGrow DEF StreamInv, Size
  <1>3. ASSUME NEW n \in Nat, n < Size(p) PROVE events'[RunOf[p]][n + 1] = events[RunOf[p]][n + 1]
    BY <1>2, <1>3
  <1> QED
    BY <1>1, <1>2, <1>3 DEF IsTerminal

\* What a frame puts into the ring of its run reaches the persister that listens.
LEMMA FrameFlows ==
    ASSUME StreamInv, WritersInv, NEW p \in Posts, Frame(p), NEW q \in Posts
    PROVE  /\ stored'[q] = stored[q] /\ writer'[q] = writer[q]
           /\ writer[q] # "on" => inflow'[q] = inflow[q]
           /\ writer[q] = "on" =>
                /\ At(q) \in Nat /\ At(q)' = At(q)
                /\ Len(inflow'[q]) \in Nat /\ Len(inflow'[q]) <= Size(q)'
                /\ inflow'[q] = Span(At(q), Size(q)')
  <1>1. UNCHANGED <<writer, stored>> /\ [NextStream]_streamVars
    BY DEF Frame, NextStream
  <1>2. inflow'[q] = IF writer[q] = "on"
                     THEN inflow[q] \o Span(Len(events[RunOf[q]]), Len(events'[RunOf[q]])) ELSE inflow[q]
    BY DEF Frame, Publish
  <1>3. Size(q) \in Nat /\ Size(q)' \in Nat /\ Size(q) <= Size(q)'
    BY <1>1, Sizes
  <1>4. ASSUME writer[q] = "on"
        PROVE  /\ At(q) \in Nat /\ At(q)' = At(q)
               /\ Len(inflow'[q]) \in Nat /\ Len(inflow'[q]) <= Size(q)'
               /\ inflow'[q] = Span(At(q), Size(q)')
    <2>1. Len(inflow[q]) <= Size(q) /\ inflow[q] = Span(At(q), Size(q)) /\ Len(inflow[q]) \in Nat
      BY <1>4 DEF WritersInv, WriterInv, StreamInv, TypeOK
    <2>2. At(q) \in Nat /\ At(q) <= Size(q)
      BY <1>3, <2>1 DEF At
    <2>3. inflow'[q] = Span(At(q), Size(q)) \o Span(Size(q), Size(q)')
      BY <1>2, <1>4, <2>1 DEF Size
    <2>4. inflow'[q] = Span(At(q), Size(q)')
      BY <1>3, <2>2, <2>3, SpanConcat
    <2>7. At(q) <= Size(q)'
      BY <1>3, <2>2
    <2>5. Len(inflow'[q]) = Size(q)' - At(q)
      BY <1>3, <2>2, <2>4, <2>7, SpanIs
    <2>6. At(q)' = Size(q)' - Len(inflow'[q])
      BY DEF At
    <2> QED
      BY <1>3, <2>2, <2>4, <2>5, <2>6
  <1> QED
    BY <1>1, <1>2, <1>4

LEMMA InitWriters == InitStream => WritersInv /\ PostsInv /\ PairsInv
  BY RoutingAssumption, StreamAssumption
     DEF InitStream, InitRouting, InitIngress, WritersInv, WriterInv, PostsInv, PairsInv, PairInv, Live, Size, Requests

\* A persister that handles an event takes the next one.
LEMMA StoresNext ==
    ASSUME StreamInv, WritersInv, NEW p \in Posts, WriterStores(p)
    PROVE  /\ At(p) \in Nat /\ At(p) < Size(p) /\ Head(inflow[p]) = At(p)
           /\ At(p)' = At(p) + 1 /\ inflow'[p] = Span(At(p) + 1, Size(p))
           /\ Len(inflow'[p]) \in Nat /\ Len(inflow'[p]) <= Size(p)
           /\ stored'[p] = stored[p] \cup {At(p)}
           /\ \A q \in Posts \ {p} : stored'[q] = stored[q] /\ inflow'[q] = inflow[q] /\ writer'[q] = writer[q]
           /\ writer'[p] = IF IsTerminal(RunOf[p], At(p)) THEN "ended" ELSE "on"
           /\ UNCHANGED <<events, inbox, pc, tasks>>
  <1>1. /\ writer[p] = "on" /\ inflow[p] # <<>> /\ UNCHANGED <<events, inbox, pc, tasks>>
        /\ stored' = [stored EXCEPT ![p] = stored[p] \cup {Head(inflow[p])}]
        /\ inflow' = [inflow EXCEPT ![p] = Tail(inflow[p])]
        /\ writer' = [writer EXCEPT ![p] = IF IsTerminal(RunOf[p], Head(inflow[p])) THEN "ended" ELSE writer[p]]
    BY DEF WriterStores, routingVars, requestVars
  <1>2. /\ inflow[p] \in Seq(Nat) /\ Len(inflow[p]) \in Nat \ {0} /\ Size(p) \in Nat
        /\ Len(inflow[p]) <= Size(p) /\ inflow[p] = Span(At(p), Size(p))
    BY <1>1, RoutingAssumption, EmptySeq DEF WritersInv, WriterInv, StreamInv, TypeOK, RoutingTypeOK, Size
  <1>3. At(p) \in Nat /\ At(p) < Size(p)
    BY <1>2 DEF At
  <1>4. Head(inflow[p]) = At(p) /\ Tail(inflow[p]) = Span(At(p) + 1, Size(p))
        /\ At(p) + 1 <= Size(p) /\ At(p) + 1 \in Nat
    BY <1>2, <1>3, SpanTail
  <1>5. inflow'[p] = Span(At(p) + 1, Size(p))
    BY <1>1, <1>4 DEF StreamInv, TypeOK
  <1>6. Len(inflow'[p]) = Size(p) - (At(p) + 1)
    BY <1>2, <1>3, <1>4, <1>5, SpanIs
  <1>7. Size(p)' = Size(p)
    BY <1>1 DEF Size
  <1>8. At(p)' = At(p) + 1
    BY <1>2, <1>3, <1>6, <1>7 DEF At
  <1> QED
    BY <1>1, <1>2, <1>3, <1>4, <1>5, <1>6, <1>8 DEF StreamInv, TypeOK

\* What the other steps leave alone.
LEMMA StepsAside ==
    ASSUME [NextStream]_streamVars
    PROVE  \/ \E p \in Posts : Frame(p)
           \/ /\ UNCHANGED <<events, inflow, stored, since, writer, tasks>>
              /\ \/ UNCHANGED inbox
                 \/ \E p \in Posts : Commit(p)
           \/ \E p \in Posts : Respond(p) \/ WriterStep(p)
  <1> USE DEF streamVars, routingVars, writerVars
  <1>1. ASSUME NEW p \in Posts, Register(p) \/ Commit(p) \/ CommitFails(p) \/ StartPost(p)
        PROVE  UNCHANGED <<events, inflow, stored, since, writer, tasks>> /\ (UNCHANGED inbox \/ Commit(p))
    BY <1>1 DEF Register, Commit, Queued, CommitFails, StartPost
  <1>2. ASSUME NEW g \in Gets, ReplayStep(g) PROVE UNCHANGED <<events, inflow, stored, since, writer, tasks, inbox>>
    BY <1>2 DEF ReplayStep, FirstReplay, ReplayReturns, SecondReplay, ReplayTails, GoesOn
  <1>3. ASSUME NEW g, NEW r, NEW cursor, OpenGet(g, r, cursor)
        PROVE  UNCHANGED <<events, inflow, stored, since, writer, tasks, inbox>>
    BY <1>3 DEF OpenGet
  <1>4. ASSUME NEW c, Send(c) \/ Cut(c) \/ Unsubscribe(c) PROVE UNCHANGED <<events, inflow, stored, since, writer, tasks, inbox>>
    BY <1>4 DEF Send, SendReplayed, SendLive, Cut, Unsubscribe
  <1> QED
    BY <1>1, <1>2, <1>3, <1>4 DEF NextStream, PostStep, Send

LEMMA WritersStep ==
    ASSUME StreamInv, WritersInv, PostsInv, [NextStream]_streamVars PROVE WritersInv'
  <1> SUFFICES ASSUME NEW q \in Posts PROVE WriterInv(q)'
    BY DEF WritersInv
  <1>1. WriterInv(q) /\ stored[q] \subseteq Nat /\ Size(q) \in Nat /\ Size(q)' \in Nat /\ Size(q) <= Size(q)'
    BY Sizes DEF WritersInv, StreamInv, TypeOK
  <1>2. ASSUME UNCHANGED <<events, inflow[q], stored[q], writer[q]>> PROVE WriterInv(q)'
    BY <1>1, <1>2 DEF WriterInv, Size, At, Through, IsTerminal
  <1>3. ASSUME NEW p \in Posts, Frame(p) PROVE WriterInv(q)'
    <2>1. stored'[q] = stored[q] /\ writer'[q] = writer[q] /\ (writer[q] # "on" => inflow'[q] = inflow[q])
      BY <1>3, FrameFlows
    <2>2. CASE writer[q] = "on"
      <3>1. /\ At(q)' = At(q) /\ Len(inflow'[q]) <= Size(q)' /\ inflow'[q] = Span(At(q), Size(q)')
        BY <1>3, <2>2, FrameFlows
      <3>2. ~Through(q)'
        BY <1>1, <2>1, <2>2, Sizes DEF WriterInv, Through
      <3> QED
        BY <1>1, <2>1, <2>2, <3>1, <3>2 DEF WriterInv
    <2>3. CASE writer[q] # "on"
      BY <1>1, <2>1, <2>3 DEF WriterInv
    <2> QED
      BY <2>2, <2>3
  <1>4. ASSUME NEW p \in Posts, Respond(p) PROVE WriterInv(q)'
    <2>1. /\ UNCHANGED <<events, inflow, stored>>
          /\ writer' = writer \/ writer' = [writer EXCEPT ![p] = "scheduled"]
          /\ writer[p] = "none"
      BY <1>4 DEF Respond, routingVars, PostsInv
    <2>2. CASE writer'[q] = writer[q]
      BY <1>2, <2>1, <2>2
    <2>3. CASE writer'[q] # writer[q]
      <3>1. q = p /\ writer'[q] = "scheduled" /\ writer[q] = "none"
        BY <2>1, <2>3 DEF StreamInv, TypeOK
      <3> QED
        BY <1>1, <2>1, <3>1 DEF WriterInv, Size
    <2> QED
      BY <2>2, <2>3
  <1>5. ASSUME NEW p \in Posts, WriterSubscribes(p) PROVE WriterInv(q)'
    <2>1. UNCHANGED <<events, inflow, stored>> /\ writer[p] = "scheduled" /\ writer' = [writer EXCEPT ![p] = "on"]
      BY <1>5 DEF WriterSubscribes, routingVars
    <2>2. CASE q # p
      BY <1>2, <2>1, <2>2
    <2>3. CASE q = p
      <3>1. inflow[q] = <<>> /\ stored[q] = {} /\ writer'[q] = "on"
        BY <1>1, <2>1, <2>3 DEF WriterInv, StreamInv, TypeOK
      <3>2. Size(q)' = Size(q) /\ At(q)' = Size(q)
        BY <1>1, <2>1, <3>1 DEF Size, At
      <3>3. Span(Size(q), Size(q)) = <<>>
        BY <1>1, SpanNone
      <3> QED
        BY <1>1, <2>1, <3>1, <3>2, <3>3 DEF WriterInv, Through
    <2> QED
      BY <2>2, <2>3
  <1>6. ASSUME NEW p \in Posts, WriterStores(p) PROVE WriterInv(q)'
    <2>1. CASE q # p
      BY <1>2, <1>6, <2>1, StoresNext
    <2>2. CASE q = p
      <3>1. /\ At(p) \in Nat /\ At(p) < Size(p) /\ writer[p] = "on"
            /\ At(p)' = At(p) + 1 /\ inflow'[p] = Span(At(p) + 1, Size(p))
            /\ Len(inflow'[p]) <= Size(p)
            /\ stored'[p] = stored[p] \cup {At(p)}
            /\ writer'[p] = IF IsTerminal(RunOf[p], At(p)) THEN "ended" ELSE "on"
            /\ events' = events
        BY <1>6, StoresNext DEF WriterStores
      <3>2. Size(q)' = Size(q)
        BY <3>1 DEF Size
      <3>3. \A n \in stored'[q] : n < At(q) + 1 /\ n < Size(q)
        BY <1>1, <2>2, <3>1 DEF WriterInv
      <3>4. writer'[q] = "on" => ~Through(q)'
        BY <1>1, <2>2, <3>1 DEF WriterInv, Through, IsTerminal
      <3> QED
        BY <2>2, <3>1, <3>2, <3>3, <3>4 DEF WriterInv
    <2> QED
      BY <2>1, <2>2
  <1>7. ASSUME NEW p \in Posts, WriterFails(p) \/ WriterIdles(p) \/ WriterDropped(p) PROVE WriterInv(q)'
    <2>1. /\ UNCHANGED <<events, stored>> /\ writer[p] \in {"on", "ended"}
          /\ \E s : inflow' = [inflow EXCEPT ![p] = s]
          /\ \E w \in {"ended", "gone"} : writer' = [writer EXCEPT ![p] = w]
      <3>1. CASE WriterFails(p)
        BY <3>1 DEF WriterFails, routingVars
      <3>2. CASE WriterIdles(p) \/ WriterDropped(p)
        <4>1. inflow' = [inflow EXCEPT ![p] = inflow[p]]
          BY <3>2 DEF WriterIdles, WriterDropped, StreamInv, TypeOK
        <4> QED
          BY <3>2, <4>1 DEF WriterIdles, WriterDropped, routingVars
      <3> QED
        BY <1>7, <3>1, <3>2
    <2>2. CASE q # p
      <3>1. UNCHANGED <<events, inflow[q], stored[q], writer[q]>>
        BY <2>1, <2>2 DEF StreamInv, TypeOK
      <3> QED
        BY <1>2, <3>1
    <2>3. CASE q = p
      BY <1>1, <2>1, <2>3 DEF WriterInv, Size, StreamInv, TypeOK
    <2> QED
      BY <2>2, <2>3
  <1> QED
    BY <1>2, <1>3, <1>4, <1>5, <1>6, <1>7, StepsAside DEF WriterStep

LEMMA PostsStep ==
    ASSUME StreamInv, PostsInv, [NextStream]_streamVars PROVE PostsInv'
  <1> USE DEF PostsInv
  <1>1. /\ pc \in [Requests -> PostPhases \cup GetPhases] /\ tasks \in [Runs -> Posts \cup {None}]
        /\ inbox \in Seq(Posts) /\ writer \in [Posts -> WriterPhases]
        /\ Posts \cap Gets = {} /\ None \notin Posts /\ \A q \in Posts : q \in Requests /\ RunOf[q] \in Runs
    BY RoutingAssumption, StreamAssumption DEF StreamInv, TypeOK, RoutingTypeOK, Requests
  <1>2. ASSUME UNCHANGED <<inbox, writer, tasks>>,
               \A q \in Posts : \/ pc'[q] = pc[q]
                                \/ pc'[q] \in {"open", "tail", "closing", "closed"}
                                \/ pc'[q] = "registered" /\ pc[q] = "idle"
        PROVE  PostsInv'
    BY <1>2
  <1>3. ASSUME NEW p \in Posts, Frame(p) PROVE PostsInv'
    BY <1>2, <1>3 DEF Frame, Dispatch, RunStarted, RunEnded, Routed, Parked, Emits
  <1>4. ASSUME NEW p \in Posts, Register(p) \/ CommitFails(p) \/ StartPost(p) PROVE PostsInv'
    <2>1. UNCHANGED <<inbox, writer, tasks>>
      BY <1>4 DEF Register, CommitFails, StartPost, routingVars, writerVars
    <2>2. \/ pc' = [pc EXCEPT ![p] = "registered"] /\ pc[p] = "idle"
          \/ pc' = [pc EXCEPT ![p] = "closed"]
          \/ pc' = [pc EXCEPT ![p] = "tail"]
      BY <1>4 DEF Register, CommitFails, StartPost
    <2> QED
      BY <1>1, <1>2, <2>1, <2>2
  <1>5. ASSUME NEW p \in Posts, Commit(p) PROVE PostsInv'
    <2>1. /\ pc[p] = "registered" /\ pc' = [pc EXCEPT ![p] = "committed"]
          /\ inbox' = Append(inbox, p) /\ UNCHANGED <<writer, tasks>>
      BY <1>5 DEF Commit, Queued, writerVars
    <2>2. \A i \in DOMAIN inbox' : inbox'[i] = p \/ (i \in DOMAIN inbox /\ inbox'[i] = inbox[i])
      BY <1>1, <2>1
    <2>3. \A q \in Posts \ {p} : pc'[q] = pc[q]
      BY <1>1, <2>1
    <2>4. pc'[p] = "committed" /\ writer[p] = "none"
      BY <1>1, <2>1
    <2>5. ASSUME NEW q \in Posts, pc'[q] \in {"idle", "registered"} PROVE \A i \in DOMAIN inbox' : inbox'[i] # q
      BY <2>2, <2>3, <2>4, <2>5
    <2> QED
      BY <2>1, <2>3, <2>4, <2>5
  <1>6. ASSUME NEW p \in Posts, Respond(p) PROVE PostsInv'
    <2>1. /\ pc[p] = "committed" /\ pc' = [pc EXCEPT ![p] = "open"] /\ UNCHANGED inbox
          /\ \/ UNCHANGED <<writer, tasks>>
             \/ writer' = [writer EXCEPT ![p] = "scheduled"] /\ tasks' = [tasks EXCEPT ![RunOf[p]] = p]
      BY <1>6 DEF Respond, routingVars
    <2>2. \A q \in Posts : q # p => pc'[q] = pc[q] /\ writer'[q] = writer[q]
      BY <1>1, <2>1
    <2>3. pc'[p] = "open"
      BY <1>1, <2>1
    <2>4. CASE UNCHANGED <<writer, tasks>>
      BY <2>1, <2>2, <2>3, <2>4
    <2>5. CASE writer' = [writer EXCEPT ![p] = "scheduled"] /\ tasks' = [tasks EXCEPT ![RunOf[p]] = p]
      <3>1. ASSUME NEW r \in Runs, tasks'[r] # None
            PROVE  RunOf[tasks'[r]] = r /\ writer'[tasks'[r]] \in {"scheduled", "on", "ended"}
        <4>1. CASE r = RunOf[p]
          BY <1>1, <2>5, <4>1
        <4>2. CASE r # RunOf[p]
          BY <1>1, <2>2, <2>5, <3>1, <4>2
        <4> QED
          BY <4>1, <4>2
      <3> QED
        BY <2>1, <2>2, <2>3, <3>1
    <2> QED
      BY <2>1, <2>4, <2>5
  <1>7. ASSUME NEW p \in Posts, WriterStep(p) PROVE PostsInv'
    <2>1. /\ UNCHANGED <<inbox, pc>> /\ writer[p] # "none"
          /\ \E w \in {"on", "ended", "gone"} : writer' = [writer EXCEPT ![p] = w]
          /\ \/ UNCHANGED tasks /\ writer'[p] # "gone"
             \/ tasks' = [tasks EXCEPT ![RunOf[p]] = None]
      BY <1>1, <1>7 DEF WriterStep, WriterSubscribes, WriterStores, WriterFails, WriterIdles, WriterDropped, routingVars, requestVars
    <2>2. \A q \in Posts : q # p => writer'[q] = writer[q]
      BY <1>1, <2>1
    <2>3. writer'[p] \in {"on", "ended", "gone"}
      BY <1>1, <2>1
    <2>4. ASSUME NEW r \in Runs, tasks'[r] # None
          PROVE  RunOf[tasks'[r]] = r /\ writer'[tasks'[r]] \in {"scheduled", "on", "ended"}
      <3>1. tasks'[r] = tasks[r] /\ tasks[r] \in Posts
        BY <1>1, <2>1, <2>4
      <3>2. CASE tasks[r] = p
        BY <1>1, <2>1, <2>3, <2>4, <3>1, <3>2
      <3>3. CASE tasks[r] # p
        BY <2>2, <2>4, <3>1, <3>3
      <3> QED
        BY <3>2, <3>3
    <2> QED
      BY <2>1, <2>2, <2>4
  <1>8. ASSUME NEW g \in Gets, ReplayStep(g) PROVE PostsInv'
    <2>1. UNCHANGED <<inbox, writer, tasks>> /\ \E ph \in GetPhases : pc' = [pc EXCEPT ![g] = ph]
      BY <1>8 DEF ReplayStep, FirstReplay, ReplayReturns, SecondReplay, ReplayTails, GoesOn,
                  routingVars, writerVars, GetPhases
    <2> QED
      BY <1>1, <1>2, <2>1
  <1>9. ASSUME NEW g \in Gets, NEW r, NEW cursor, OpenGet(g, r, cursor) PROVE PostsInv'
    <2>1. UNCHANGED <<inbox, writer, tasks>> /\ pc' = [pc EXCEPT ![g] = "open"]
      BY <1>9 DEF OpenGet, routingVars, writerVars
    <2> QED
      BY <1>1, <1>2, <2>1
  <1>10. ASSUME NEW c \in Requests, Send(c) \/ Cut(c) \/ Unsubscribe(c) PROVE PostsInv'
    <2>1. UNCHANGED <<inbox, writer, tasks>>
      BY <1>10 DEF Send, SendReplayed, SendLive, Cut, Unsubscribe, routingVars, writerVars
    <2>2. pc' = pc \/ \E ph \in {"closing", "closed"} : pc' = [pc EXCEPT ![c] = ph]
      BY <1>10, EndPhases
    <2> QED
      BY <1>1, <1>2, <2>1, <2>2
  <1>11. CASE UNCHANGED streamVars
    BY <1>2, <1>11 DEF streamVars, routingVars, requestVars, writerVars
  <1> QED
    BY <1>3, <1>4, <1>5, <1>6, <1>7, <1>8, <1>9, <1>10, <1>11 DEF NextStream, PostStep, Send, Requests

\* No three POSTs ask for the same run.
TwoPerRun ==
    \A p, q, s \in Posts : RunOf[p] = RunOf[q] /\ RunOf[q] = RunOf[s] => p = q \/ q = s \/ p = s

LEMMA PairsStep ==
    ASSUME TwoPerRun, StreamInv, WritersInv, PostsInv, PairsInv, [NextStream]_streamVars
    PROVE  PairsInv'
  <1> SUFFICES ASSUME NEW p \in Posts, NEW q \in Posts, p # q, RunOf[p] = RunOf[q]
               PROVE  PairInv(p, q)'
    BY DEF PairsInv
  <1>1. /\ PairInv(p, q) /\ PairInv(q, p) /\ WriterInv(p) /\ WriterInv(q) /\ RunOf[p] \in Runs
        /\ writer \in [Posts -> WriterPhases] /\ tasks \in [Runs -> Posts \cup {None}]
        /\ stored[p] \subseteq Nat /\ stored[q] \subseteq Nat /\ Size(p) \in Nat /\ Size(q) = Size(p)
    BY RoutingAssumption, Sizes DEF PairsInv, WritersInv, StreamInv, TypeOK, Size
  <1>2. ASSUME UNCHANGED <<stored[p], stored[q], writer[p], writer[q], tasks[RunOf[p]]>>,
               writer[p] = "on" => At(p)' = At(p)
        PROVE  PairInv(p, q)'
    BY <1>1, <1>2 DEF PairInv, Live
  <1>3. ASSUME NEW s \in Posts, Frame(s) PROVE PairInv(p, q)'
    BY <1>2, <1>3, FrameFlows DEF Frame
  <1>4. ASSUME UNCHANGED <<events, inflow, stored, writer, tasks>> PROVE PairInv(p, q)'
    BY <1>2, <1>4 DEF At, Size
  <1>5. ASSUME NEW s \in Posts, Respond(s) PROVE PairInv(p, q)'
    <2>1. /\ UNCHANGED <<events, inflow, stored>> /\ writer[s] = "none"
          /\ \/ UNCHANGED <<writer, tasks>>
             \/ /\ Unserved(RunOf[s])
                /\ writer' = [writer EXCEPT ![s] = "scheduled"]
                /\ tasks' = [tasks EXCEPT ![RunOf[s]] = s]
      BY <1>5 DEF Respond, routingVars, PostsInv
    <2>2. CASE UNCHANGED <<writer, tasks>>
      BY <1>4, <2>1, <2>2
    <2>3. CASE /\ Unserved(RunOf[s])
               /\ writer' = [writer EXCEPT ![s] = "scheduled"]
               /\ tasks' = [tasks EXCEPT ![RunOf[s]] = s]
      <3>1. CASE RunOf[s] # RunOf[p]
        BY <1>1, <1>2, <2>1, <2>3, <3>1 DEF At, Size
      <3>2. CASE s = p
        <4>1. ~Live(q)
          BY <1>1, <2>1, <2>3, <3>2, RoutingAssumption DEF PairInv, Live, Unserved
        <4> QED
          BY <1>1, <2>1, <2>3, <3>2, <4>1 DEF PairInv, Live
      <3>3. CASE s = q
        <4>1. ~Live(p)
          BY <1>1, <2>1, <2>3, <3>3, RoutingAssumption DEF PairInv, Live, Unserved
        <4> QED
          BY <1>1, <2>1, <2>3, <3>3, <4>1 DEF PairInv, Live
      <3> QED
        BY <3>1, <3>2, <3>3 DEF TwoPerRun
    <2> QED
      BY <2>1, <2>2, <2>3
  <1>6. ASSUME NEW s \in Posts, WriterSubscribes(s) PROVE PairInv(p, q)'
    <2>1. UNCHANGED <<events, inflow, stored, tasks>> /\ writer[s] = "scheduled" /\ writer' = [writer EXCEPT ![s] = "on"]
      BY <1>6 DEF WriterSubscribes, routingVars
    <2>2. CASE s # p
      BY <1>1, <2>1, <2>2 DEF PairInv, Live, At, Size
    <2>3. CASE s = p
      <3>1. inflow[p] = <<>>
        BY <1>1, <2>1, <2>3 DEF WriterInv
      <3>2. At(p)' = Size(q)
        BY <1>1, <2>1, <3>1 DEF At, Size
      <3> QED
        BY <1>1, <2>1, <2>3, <3>2 DEF PairInv, WriterInv, Live
    <2> QED
      BY <2>2, <2>3
  <1>7. ASSUME NEW s \in Posts, WriterStores(s) PROVE PairInv(p, q)'
    <2>1. /\ At(s) \in Nat /\ At(s)' = At(s) + 1 /\ stored'[s] = stored[s] \cup {At(s)}
          /\ writer[s] = "on" /\ writer'[s] \in {"on", "ended"}
          /\ UNCHANGED <<events, tasks>>
          /\ \A x \in Posts \ {s} : stored'[x] = stored[x] /\ inflow'[x] = inflow[x] /\ writer'[x] = writer[x]
      BY <1>7, StoresNext DEF WriterStores
    <2>2. CASE s \notin {p, q}
      BY <1>2, <2>1, <2>2 DEF At, Size
    <2>3. CASE s = p
      <3>1. At(p) \notin stored[q] /\ writer[q] # "on"
        BY <1>1, <2>1, <2>3 DEF PairInv, Live
      <3> QED
        BY <1>1, <2>1, <2>3, <3>1 DEF PairInv, Live
    <2>4. CASE s = q
      <3>1. At(q) \notin stored[p] /\ ~Live(p)
        BY <1>1, <2>1, <2>4 DEF PairInv, Live
      <3> QED
        BY <1>1, <2>1, <2>4, <3>1 DEF PairInv, Live
    <2> QED
      BY <2>2, <2>3, <2>4
  <1>8. ASSUME NEW s \in Posts, WriterFails(s) \/ WriterIdles(s) PROVE PairInv(p, q)'
    <2>1. /\ UNCHANGED <<events, stored, tasks>> /\ writer[s] = "on" /\ writer' = [writer EXCEPT ![s] = "ended"]
          /\ \A x \in Posts \ {s} : inflow'[x] = inflow[x]
      BY <1>8 DEF WriterFails, WriterIdles, routingVars, StreamInv, TypeOK
    <2>2. writer[p] = "on" /\ p # s => At(p)' = At(p)
      BY <2>1 DEF At, Size
    <2> QED
      BY <1>1, <2>1, <2>2 DEF PairInv, Live
  <1>9. ASSUME NEW s \in Posts, WriterDropped(s) PROVE PairInv(p, q)'
    <2>1. /\ UNCHANGED <<events, inflow, stored>> /\ writer[s] = "ended" /\ writer' = [writer EXCEPT ![s] = "gone"]
          /\ tasks' = [tasks EXCEPT ![RunOf[s]] = None]
      BY <1>9 DEF WriterDropped, routingVars
    <2>2. CASE RunOf[s] # RunOf[p]
      BY <1>1, <1>2, <2>1, <2>2 DEF At, Size
    <2>3. CASE s \in {p, q}
      BY <1>1, <2>1, <2>3 DEF PairInv, Live, At, Size
    <2> QED
      BY <2>2, <2>3 DEF TwoPerRun
  <1> QED
    BY <1>3, <1>4, <1>5, <1>6, <1>7, <1>8, <1>9, StepsAside DEF WriterStep

LEMMA PersisterInvariant == StreamSpec => [](StreamInv /\ WritersInv /\ PostsInv)
  <1>1. InitStream => StreamInv /\ WritersInv /\ PostsInv
    BY InitStreamType, InitWriters
  <1>2. StreamInv /\ WritersInv /\ PostsInv /\ [NextStream]_streamVars => (StreamInv /\ WritersInv /\ PostsInv)'
    BY StepStreamType, WritersStep, PostsStep
  <1> QED
    BY <1>1, <1>2, PTL DEF StreamSpec

\* No event of a run is handled by two persisters, as long as no three POSTs ask for
\* that run (stream.py: two POSTs "must NOT subscribe two persisters").
THEOREM EventsStoredOnce == ASSUME TwoPerRun PROVE StreamSpec => []StoredOnce
  <1>1. PairsInv => StoredOnce
    BY DEF PairsInv, PairInv, StoredOnce
  <1>2. StreamInv /\ WritersInv /\ PostsInv /\ PairsInv /\ [NextStream]_streamVars => PairsInv'
    BY PairsStep
  <1> QED
    BY <1>1, <1>2, InitWriters, PersisterInvariant, PTL DEF StreamSpec

-----------------------------------------------------------------------------
(* A run is stored whole. *)

LEMMA WholeStep ==
    ASSUME StreamInv, WritersInv, PostsInv, WholeInv, [NextStream]_streamVars
    PROVE  WholeInv'
  <1> SUFFICES ASSUME NEW q \in Posts
               PROVE  /\ writer'[q] \in {"none", "scheduled"} => since'[q] = -1
                      /\ \/ since'[q] = -1
                         \/ writer'[q] = "on" /\ since'[q]..At(q)' - 1 \subseteq stored'[q]
                         \/ Ended(q)' /\ ~Through(q)'
                         \/ \E m \in stored'[q] : IsTerminal(RunOf[q], m)' /\ since'[q]..m \subseteq stored'[q]
    BY DEF WholeInv
  <1> DEFINE Goal == /\ writer'[q] \in {"none", "scheduled"} => since'[q] = -1
                     /\ \/ since'[q] = -1
                        \/ writer'[q] = "on" /\ since'[q]..At(q)' - 1 \subseteq stored'[q]
                        \/ Ended(q)' /\ ~Through(q)'
                        \/ \E m \in stored'[q] : IsTerminal(RunOf[q], m)' /\ since'[q]..m \subseteq stored'[q]
  <1>1. /\ stored[q] \subseteq Nat /\ since[q] \in Nat \cup {-1} /\ Size(q) \in Nat /\ RunOf[q] \in Runs
        /\ \A n \in stored[q] : IsTerminal(RunOf[q], n)' <=> IsTerminal(RunOf[q], n)
        /\ writer[q] \in WriterPhases
    <2>1. stored[q] \subseteq Nat /\ \A n \in stored[q] : n < Size(q)
      BY DEF WritersInv, WriterInv, StreamInv, TypeOK
    <2> QED
      BY <2>1, Sizes DEF StreamInv, TypeOK
  <1>2. /\ writer[q] \in {"none", "scheduled"} => since[q] = -1
        /\ \/ since[q] = -1
           \/ writer[q] = "on" /\ since[q]..At(q) - 1 \subseteq stored[q]
           \/ Ended(q) /\ ~Through(q)
           \/ \E m \in stored[q] : IsTerminal(RunOf[q], m) /\ since[q]..m \subseteq stored[q]
    BY DEF WholeInv
  <1>3. ASSUME UNCHANGED <<stored[q], since[q], writer[q]>>, writer[q] = "on" => At(q)' = At(q) PROVE Goal
    BY <1>1, <1>2, <1>3 DEF Ended, Through
  <1>4. ASSUME NEW p \in Posts, Frame(p) PROVE Goal
    <2>1. UNCHANGED <<stored[q], since[q], writer[q]>> /\ (writer[q] = "on" => At(q)' = At(q))
      BY <1>4, FrameFlows DEF Frame
    <2> QED
      BY <1>3, <2>1
  <1>5. ASSUME UNCHANGED <<events, inflow, stored, since, writer>> PROVE Goal
    BY <1>3, <1>5 DEF At, Size
  <1>6. ASSUME NEW p \in Posts, Respond(p) PROVE Goal
    <2>1. /\ UNCHANGED <<events, inflow, stored, since>> /\ writer[p] = "none"
          /\ writer' = writer \/ writer' = [writer EXCEPT ![p] = "scheduled"]
      BY <1>6 DEF Respond, routingVars, PostsInv
    <2>2. CASE writer'[q] = writer[q]
      BY <1>3, <2>1, <2>2 DEF At, Size
    <2>3. CASE writer'[q] # writer[q]
      BY <1>2, <2>1, <2>3 DEF StreamInv, TypeOK
    <2> QED
      BY <2>2, <2>3
  <1>7. ASSUME NEW p \in Posts, p # q, WriterStep(p) PROVE Goal
    <2>1. UNCHANGED <<events, inflow[q], stored[q], since[q], writer[q]>>
      BY <1>7 DEF WriterStep, WriterSubscribes, WriterStores, WriterFails, WriterIdles, WriterDropped, routingVars,
                  StreamInv, TypeOK
    <2> QED
      BY <1>3, <2>1 DEF At, Size
  <1>8. ASSUME WriterSubscribes(q) PROVE Goal
    <2>1. /\ UNCHANGED <<events, inflow, stored>> /\ writer[q] = "scheduled" /\ writer'[q] = "on"
          /\ since'[q] = Size(q)
      BY <1>8 DEF WriterSubscribes, routingVars, StreamInv, TypeOK, Size
    <2>2. inflow[q] = <<>>
      BY <2>1 DEF WritersInv, WriterInv
    <2>3. At(q)' = Size(q)
      BY <1>1, <2>1, <2>2 DEF At, Size
    <2>4. Size(q)..Size(q) - 1 = {}
      BY <1>1
    <2> QED
      BY <2>1, <2>3, <2>4
  <1>9. ASSUME WriterStores(q) PROVE Goal
    <2> PICK m \in Nat : m = At(q)
      BY <1>9, StoresNext
    <2>1. /\ At(q)' = m + 1 /\ stored'[q] = stored[q] \cup {m} /\ UNCHANGED <<events, since>>
          /\ writer[q] = "on" /\ writer'[q] = IF IsTerminal(RunOf[q], m) THEN "ended" ELSE "on"
      BY <1>9, StoresNext DEF WriterStores
    <2>2. ~Through(q)
      BY <2>1 DEF WritersInv, WriterInv
    <2>3. since[q] = -1 \/ since[q]..m - 1 \subseteq stored[q]
      BY <1>2, <2>1, <2>2 DEF Ended, Through
    <2>4. since[q] = -1 \/ since[q]..m \subseteq stored'[q]
      BY <1>1, <2>1, <2>3
    <2>5. IsTerminal(RunOf[q], m)' <=> IsTerminal(RunOf[q], m)
      BY <2>1 DEF IsTerminal
    <2>6. m \in stored'[q] /\ At(q)' - 1 = m
      BY <2>1
    <2> QED
      BY <2>1, <2>4, <2>5, <2>6
  <1>10. ASSUME WriterFails(q) \/ WriterIdles(q) PROVE Goal
    <2>1. UNCHANGED <<events, stored, since>> /\ writer[q] = "on" /\ writer'[q] = "ended"
      BY <1>10 DEF WriterFails, WriterIdles, routingVars, StreamInv, TypeOK
    <2>2. ~Through(q)
      BY <2>1 DEF WritersInv, WriterInv
    <2> QED
      BY <1>1, <2>1, <2>2 DEF Ended, Through
  <1>11. ASSUME WriterDropped(q) PROVE Goal
    <2>1. UNCHANGED <<events, stored, since>> /\ writer[q] = "ended" /\ writer'[q] = "gone"
      BY <1>11 DEF WriterDropped, routingVars, StreamInv, TypeOK
    <2> QED
      BY <1>1, <1>2, <2>1 DEF Ended, Through
  <1> HIDE DEF Goal
  <1>12. Goal
    BY <1>4, <1>5, <1>6, <1>7, <1>8, <1>9, <1>10, <1>11, StepsAside DEF WriterStep
  <1> QED
    BY <1>12 DEF Goal

\* From where a persister subscribed on, no event of its run is lost to the database: it
\* handles them all up to the terminal one it returns on, unless the idle limit or an
\* exception ends it first (stream.py: not "only a prefix of the run").
THEOREM RunsAreStoredWhole == StreamSpec => []StoredWhole
  <1>1. StreamInv /\ WritersInv /\ WholeInv => StoredWhole
    <2> SUFFICES ASSUME StreamInv, WritersInv, WholeInv, NEW p \in Posts, since[p] # -1,
                        NEW n \in since[p]..Len(events[RunOf[p]]) - 1
                 PROVE  \/ n \in stored[p]
                        \/ writer[p] = "on" /\ \E i \in DOMAIN inflow[p] : inflow[p][i] = n
                        \/ \E m \in stored[p] : m < n /\ IsTerminal(RunOf[p], m)
                        \/ GaveUp(p)
      BY DEF StoredWhole
    <2>1. /\ since[p] \in Nat /\ stored[p] \subseteq Nat /\ Size(p) \in Nat
          /\ n \in Nat /\ since[p] <= n /\ n < Size(p)
      <3>1. since[p] \in Nat /\ stored[p] \subseteq Nat /\ Size(p) \in Nat
        BY RoutingAssumption DEF StreamInv, TypeOK, RoutingTypeOK, Size
      <3> QED
        BY <3>1 DEF Size
    <2>2. CASE writer[p] = "on" /\ since[p]..At(p) - 1 \subseteq stored[p]
      <3>1. Len(inflow[p]) <= Size(p) /\ Len(inflow[p]) \in Nat /\ inflow[p] = Span(At(p), Size(p))
        BY <2>2 DEF WritersInv, WriterInv, StreamInv, TypeOK
      <3>2. At(p) \in Nat /\ At(p) <= Size(p)
        BY <2>1, <3>1 DEF At
      <3>3. CASE n < At(p)
        BY <2>1, <2>2, <3>2, <3>3
      <3>4. CASE n >= At(p)
        <4>1. n - At(p) + 1 \in 1..Size(p) - At(p) /\ At(p) + (n - At(p) + 1) - 1 = n
          BY <2>1, <3>2, <3>4
        <4>2. n - At(p) + 1 \in DOMAIN inflow[p] /\ inflow[p][n - At(p) + 1] = n
          BY <2>1, <3>1, <3>2, <4>1 DEF Span
        <4> QED
          BY <2>2, <4>2
      <3> QED
        BY <2>1, <3>2, <3>3, <3>4
    <2>3. CASE Ended(p) /\ ~Through(p)
      BY <2>3 DEF Ended, Through, GaveUp
    <2>4. ASSUME NEW m \in stored[p], IsTerminal(RunOf[p], m), since[p]..m \subseteq stored[p]
          PROVE  n \in stored[p] \/ m < n
      BY <2>1, <2>4
    <2> QED
      BY <2>2, <2>3, <2>4 DEF WholeInv
  <1>2. InitStream => WholeInv
    BY DEF InitStream, WholeInv
  <1>3. StreamInv /\ WritersInv /\ PostsInv /\ WholeInv /\ [NextStream]_streamVars => WholeInv'
    BY WholeStep
  <1> QED
    BY <1>1, <1>2, <1>3, PersisterInvariant, PTL DEF StreamSpec

-----------------------------------------------------------------------------
(* No queue is left behind. *)

\* Whatever clients connect, break off and ask for again, the only queues that stay in
\* _subs are those of requests that ended before their generator reached consume
\* (stream.py, "Discard the queue from _subs so it does not leak forever").
THEOREM NoQueueLeaks == StreamSpec => NoLeakedQueue
  <1>1. StreamInv /\ [NextStream]_streamVars =>
          [\A c \in Requests : pc[c] # "closed" /\ pc'[c] = "closed" /\ c \in subs'
                               => pc[c] \in {"open", "replay1", "replay2"}]_streamVars
    <2> SUFFICES ASSUME StreamInv, NextStream, NEW c \in Requests,
                        pc[c] # "closed", pc'[c] = "closed", c \in subs'
                 PROVE  pc[c] \in {"open", "replay1", "replay2"}
      OBVIOUS
    <2>1. pc \in [Requests -> PostPhases \cup GetPhases] /\ \A d \in Posts \cup Gets : d \in Requests
      BY DEF StreamInv, TypeOK, Requests
    <2>2. ASSUME NEW p \in Posts, Frame(p) \/ WriterStep(p) PROVE FALSE
      BY <2>2 DEF Frame, WriterStep, WriterSubscribes, WriterStores, WriterFails, WriterIdles, WriterDropped, requestVars
    <2>3. ASSUME NEW p \in Posts, PostStep(p) PROVE FALSE
      <3>1. CASE CommitFails(p)
        BY <2>1, <3>1 DEF CommitFails
      <3>2. CASE Register(p) \/ Commit(p) \/ Respond(p) \/ StartPost(p)
        BY <2>1, <3>2 DEF Register, Commit, Respond, StartPost
      <3> QED
        BY <2>3, <3>1, <3>2 DEF PostStep
    <2>4. ASSUME NEW g \in Gets, ReplayStep(g) PROVE pc[c] \in {"open", "replay1", "replay2"}
      BY <2>1, <2>4 DEF ReplayStep, FirstReplay, FirstReplayDone, ReplayReturns, SecondReplay, ReplayTails, GoesOn
    <2>5. ASSUME NEW d \in Requests, SendReplayed(d) \/ SendLive(d) PROVE FALSE
      BY <2>1, <2>5 DEF SendReplayed, SendLive
    <2>6. ASSUME NEW g \in Gets, NEW r, NEW cursor, OpenGet(g, r, cursor) PROVE FALSE
      BY <2>1, <2>6 DEF OpenGet
    <2>7. ASSUME NEW d \in Requests, Cut(d) PROVE pc[c] \in {"open", "replay1", "replay2"}
      BY <2>1, <2>7 DEF Cut
    <2>8. ASSUME NEW d \in Requests, Unsubscribe(d) PROVE FALSE
      BY <2>1, <2>8 DEF Unsubscribe
    <2> QED
      BY <2>1, <2>2, <2>3, <2>4, <2>5, <2>6, <2>7, <2>8 DEF NextStream
  <1> QED
    BY <1>1, InitStreamType, StepStreamType, PTL DEF StreamSpec, NoLeakedQueue
=============================================================================
