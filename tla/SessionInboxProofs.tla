-------------------------- MODULE SessionInboxProofs --------------------------
(***************************************************************************)
(* Proofs about SessionInbox, for any requests, any runners and any number *)
(* of restarts and lost connections.                                       *)
(***************************************************************************)
EXTENDS SessionInbox, SequenceTheorems, TLAPS

OnceEach(q) == \A i, j \in DOMAIN q : q[i] = q[j] => i = j

Sent == {p \in Posts : pc[p] = "sent"}

Types ==
    /\ pc \in [Posts -> {"idle", "hydrated", "persisted", "attached", "sent", "noted", "failed"}]
    /\ prior \in [Posts -> SUBSET history] /\ history \in SUBSET Posts
    /\ queue \in Seq(Posts) /\ OnceEach(queue)
    /\ hidden \in SUBSET ToSet(queue)
    /\ registered \in Containers \cup {None}
    /\ phase \in [Containers -> {"none", "booting", "reconnecting", "reading", "checked", "waiting",
                                "turn", "acking", "failing", "dead"}]
    /\ job \in [Containers -> Posts \cup {None}]
    /\ cold \in [Containers -> BOOLEAN]
    /\ given \in [Containers -> SUBSET Posts] /\ sees \in [Containers -> SUBSET Posts]
    /\ done \in SUBSET Posts /\ raised \in SUBSET Posts /\ overdue \in SUBSET Posts
    /\ overlapped \in BOOLEAN /\ outlived \in BOOLEAN

\* What is queued or answered was sent, and what was sent is in the database.
SentFirst ==
    /\ ToSet(queue) \cup done \cup raised \cup overdue \subseteq Sent
    /\ \A p \in Posts : pc[p] \in {"persisted", "attached", "sent", "noted"} => p \in history

\* A runner has a message exactly while it is in a turn or acknowledges one.
JobsAreTurns ==
    \A c \in Containers :
        /\ job[c] # None => job[c] \in Sent /\ phase[c] \in {"turn", "acking", "failing"}
        /\ phase[c] \in {"turn", "acking", "failing"} => job[c] # None /\ job[c] \in sees[c]
        /\ phase[c] = "acking" => job[c] \in done
        /\ phase[c] = "failing" => job[c] \in raised
        /\ phase[c] \in {"none", "booting"} => cold[c]

\* The row of a message in a turn is invisible to every other runner, unless
\* VT_SECONDS have passed since it was read.
TurnsAreHidden ==
    /\ \A c \in Containers : job[c] # None => job[c] \in hidden \cup overdue
    /\ \A c, d \in Containers : job[c] = job[d] /\ job[c] # None /\ c # d => job[c] \in overdue

\* While no runner has outlived a restart, the registered one is the only one.
OneRunner == ~outlived => \A c \in Containers : Live(c) => c = registered

\* As long as requests do not overlap, one request is under way, and its history
\* has every message that was sent.
Alone ==
    ~overlapped =>
        /\ \A p, q \in Posts : InProgress(p) /\ InProgress(q) => p = q
        /\ \A p \in Posts : pc[p] \in {"hydrated", "persisted"} => Sent \subseteq prior[p]

\* To the runner nothing happened, then, before its first turn.
Informed ==
    ~overlapped /\ ~outlived =>
        \A c \in Containers :
            /\ Live(c) /\ cold[c] => done \subseteq given[c]
            /\ phase[c] = "turn" /\ cold[c] => done \subseteq sees[c]

InboxInv ==
    /\ Types /\ SentFirst /\ JobsAreTurns
    /\ MessagesSurvive /\ TurnsAreHidden
    /\ OneRunner /\ Alone /\ Informed

-----------------------------------------------------------------------------
(* Rows of a queue. *)

\* A row that is taken out shortens the sequence by one.
LEMMA RemovedAt ==
    ASSUME NEW S, NEW q \in Seq(S), NEW k \in 1..Len(q), NEW r, r = RemoveAt(q, k)
    PROVE  /\ r \in Seq(S) /\ Len(r) = Len(q) - 1
           /\ \A i \in 1..Len(r) : r[i] = IF i < k THEN q[i] ELSE q[i + 1]
  <1> DEFINE a == SubSeq(q, 1, k - 1)  b == SubSeq(q, k + 1, Len(q))
  <1>1. a \in Seq(S) /\ Len(a) = k - 1 /\ \A i \in 1..k - 1 : a[i] = q[i]
    <2>1. \A i \in 1..k - 1 : q[i] \in S
      OBVIOUS
    <2> QED
      BY <2>1, SubSeqProperties
  <1>2. b \in Seq(S) /\ Len(b) = Len(q) - k /\ \A i \in 1..Len(q) - k : b[i] = q[k + i]
    <2>1. \A i \in k + 1..Len(q) : q[i] \in S
      OBVIOUS
    <2>2. k + 1 \in Int /\ Len(q) \in Int
      OBVIOUS
    <2>3. /\ b \in Seq(S) /\ Len(b) = IF k + 1 <= Len(q) THEN Len(q) - (k + 1) + 1 ELSE 0
          /\ \A i \in 1..Len(q) - (k + 1) + 1 : b[i] = q[k + 1 + i - 1]
      BY <2>1, <2>2, SubSeqProperties
    <2> QED
      BY <2>3
  <1>3. r = a \o b
    BY DEF RemoveAt
  <1> HIDE DEF a, b
  <1>4. /\ a \o b \in Seq(S) /\ Len(a \o b) = Len(a) + Len(b)
        /\ \A i \in 1..Len(a) + Len(b) : (a \o b)[i] = IF i <= Len(a) THEN a[i] ELSE b[i - Len(a)]
    BY <1>1, <1>2, ConcatProperties
  <1>5. ASSUME NEW i \in 1..Len(q) - 1 PROVE r[i] = IF i < k THEN q[i] ELSE q[i + 1]
    <2>1. CASE i < k
      BY <1>1, <1>2, <1>3, <1>4, <2>1
    <2>2. CASE i >= k
      <3>1. i - (k - 1) \in 1..Len(q) - k /\ k + (i - (k - 1)) = i + 1
        BY <2>2
      <3>2. r[i] = b[i - (k - 1)]
        BY <1>1, <1>2, <1>3, <1>4, <2>2
      <3> QED
        BY <1>2, <2>2, <3>1, <3>2
    <2> QED
      BY <2>1, <2>2
  <1> QED
    BY <1>1, <1>2, <1>3, <1>4, <1>5

\* Deleting by message takes one row out and leaves the others in their order.
LEMMA Deleted ==
    ASSUME NEW S, NEW q \in Seq(S), OnceEach(q), NEW p, NEW r, r = RemoveFirst(q, p)
    PROVE  /\ r \in Seq(S) /\ OnceEach(r) /\ ToSet(r) = ToSet(q) \ {p}
  <1>0. DOMAIN q = 1..Len(q) /\ Len(q) \in Nat
    OBVIOUS
  <1>1. CASE p \notin ToSet(q)
    <2>1. r = q
      BY <1>0, <1>1 DEF RemoveFirst, ToSet
    <2> QED
      BY <2>1, <1>1
  <1>2. CASE p \in ToSet(q)
    <2>1. PICK k \in 1..Len(q) : q[k] = p
      BY <1>2 DEF ToSet
    <2>2. {j \in 1..Len(q) : q[j] = p} = {k}
      BY <2>1 DEF OnceEach
    <2>3. Min({k}) = k
      BY <2>1 DEF Min
    <2>4. SelectInSeq(q, LAMBDA v : v = p) = k
      BY <2>2, <2>3 DEF SelectInSeq
    <2>41. r = RemoveAt(q, k)
      BY <2>1, <2>2, <2>3 DEF RemoveFirst, SelectInSeq
    <2>5. /\ Len(r) = Len(q) - 1 /\ r \in Seq(S) 
          /\ \A i \in 1..Len(r) : r[i] = IF i < k THEN q[i] ELSE q[i + 1]
      BY <2>1, <2>41, RemovedAt, SMTT(30)
    <2>6. OnceEach(r)
      <3>1. DOMAIN r = 1..Len(q) - 1 /\ DOMAIN q = 1..Len(q) /\ Len(q) \in Nat
        BY <2>5
      <3> SUFFICES ASSUME NEW i \in 1..Len(q) - 1, NEW j \in 1..Len(q) - 1, r[i] = r[j] PROVE i = j
        BY <3>1 DEF OnceEach
      <3> DEFINE u == IF i < k THEN i ELSE i + 1  v == IF j < k THEN j ELSE j + 1
      <3>2. u \in 1..Len(q) /\ v \in 1..Len(q) /\ r[i] = q[u] /\ r[j] = q[v]
        BY <2>1, <2>5, <3>1, SMTT(30)
      <3>3. u = v
        BY <3>1, <3>2 DEF OnceEach
      <3> QED
        BY <3>3, <2>1
    <2>7. ToSet(r) \subseteq ToSet(q) \ {p}
      BY <2>1, <2>5, SMTT(30) DEF OnceEach, ToSet
    <2>8. ASSUME NEW i \in 1..Len(q), i # k PROVE q[i] \in ToSet(r)
      <3>1. CASE i < k
        BY <2>1, <2>5, <3>1 DEF ToSet
      <3>2. CASE i > k
        <4>1. i - 1 \in 1..Len(r)
          BY <2>1, <2>5, <3>2
        <4>2. r[i - 1] = q[i]
          BY <2>1, <2>5, <3>2, <4>1
        <4> QED
          BY <4>1, <4>2, DOMAIN r = 1..Len(r), <2>5 DEF ToSet
      <3> QED
        BY <2>1, <2>8, <3>1, <3>2
    <2>9. ToSet(q) \ {p} \subseteq ToSet(r)
      <3> SUFFICES ASSUME NEW e \in ToSet(q), e # p PROVE e \in ToSet(r)
        OBVIOUS
      <3>1. PICK i \in 1..Len(q) : e = q[i]
        BY DEF ToSet
      <3> QED
        BY <2>1, <2>8, <3>1
    <2> QED
      BY <2>5, <2>6, <2>7, <2>9
  <1> QED
    BY <1>1, <1>2

\* A message that is appended is the only new one.
LEMMA Appended ==
    ASSUME NEW S, NEW q \in Seq(S), OnceEach(q), NEW p \in S, p \notin ToSet(q)
    PROVE  /\ Append(q, p) \in Seq(S) /\ OnceEach(Append(q, p))
           /\ ToSet(Append(q, p)) = ToSet(q) \cup {p}
  <1>1. /\ DOMAIN q = 1..Len(q) /\ Len(q) \in Nat
        /\ Append(q, p) \in Seq(S)
        /\ DOMAIN Append(q, p) = 1..Len(q) + 1
        /\ \A i \in 1..Len(q) : Append(q, p)[i] = q[i]
        /\ Append(q, p)[Len(q) + 1] = p
    BY AppendProperties
  <1>2. 1..Len(q) + 1 = (1..Len(q)) \cup {Len(q) + 1}
    BY <1>1
  <1>3. ToSet(Append(q, p)) = ToSet(q) \cup {p}
    BY <1>1, <1>2 DEF ToSet
  <1>4. OnceEach(Append(q, p))
    BY <1>1, <1>2 DEF OnceEach, ToSet
  <1> QED
    BY <1>1, <1>3, <1>4

-----------------------------------------------------------------------------
(* The invariant. *)

LEMMA InboxInit == Init => InboxInv
  <1> SUFFICES ASSUME Init PROVE InboxInv
    OBVIOUS
  <1>1. ToSet(queue) = {} /\ OnceEach(queue) /\ queue \in Seq(Posts)
    BY DEF Init, OnceEach, ToSet
  <1>2. Types
    BY <1>1 DEF Init, Types
  <1> QED
    BY <1>1, <1>2, InboxAssumption
       DEF Init, InboxInv, SentFirst, JobsAreTurns, MessagesSurvive,
           TurnsAreHidden, OneRunner, Alone, Informed, Sent, InProgress, Live

\* The steps of a request before its message is queued.
LEMMA RequestKeeps ==
    ASSUME InboxInv, NEW p \in Posts,
           Hydrate(p) \/ Persist(p) \/ AttachLive(p) \/ RequestFails(p) \/ PostMessage(p)
    PROVE  InboxInv'
  <1> USE DEF InboxInv, Types, SentFirst, JobsAreTurns, MessagesSurvive,
             TurnsAreHidden, OneRunner, Alone, Informed, Sent, InProgress, Live,
             queueVars, runnerVars, turnVars, faultVars, ToSet
  <1>1. CASE Hydrate(p)
    <2>1. /\ pc[p] = "idle" /\ pc' = [pc EXCEPT ![p] = "hydrated"]
          /\ prior' = [prior EXCEPT ![p] = history]
          /\ overlapped' = (overlapped \/ \E q \in Posts : InProgress(q))
          /\ UNCHANGED <<history, closed, queueVars, runnerVars, turnVars, outlived, restarts, losses>>
      BY <1>1 DEF Hydrate
    <2>2. Sent' = Sent /\ Sent \subseteq history
      BY <2>1
    <2>3. Types'
      BY <2>1
    <2>4. SentFirst' /\ JobsAreTurns' /\ MessagesSurvive'
      BY <2>1, <2>2
    <2>5. TurnsAreHidden' /\ OneRunner'
      BY <2>1, <2>2
    <2>6. Alone'
      <3> SUFFICES ASSUME ~overlapped' PROVE Alone'
        OBVIOUS
      <3>1. ~overlapped /\ \A q \in Posts : ~InProgress(q)
        BY <2>1
      <3>2. \A q \in Posts : pc'[q] \in {"hydrated", "persisted", "attached"} => q = p
        BY <2>1, <3>1
      <3>3. prior'[p] = history
        BY <2>1
      <3> QED
        BY <2>2, <3>2, <3>3
    <2>7. Informed'
      BY <2>1
    <2> QED
      BY <2>3, <2>4, <2>5, <2>6, <2>7
  <1>2. CASE Persist(p)
    <2>1. /\ pc[p] = "hydrated" /\ pc' = [pc EXCEPT ![p] = "persisted"]
          /\ history' = history \cup {p}
          /\ UNCHANGED <<prior, closed, queueVars, runnerVars, turnVars, faultVars>>
      BY <1>2 DEF Persist
    <2>2. Sent' = Sent
      BY <2>1
    <2>3. Types'
      BY <2>1
    <2>4. SentFirst' /\ JobsAreTurns' /\ MessagesSurvive'
      BY <2>1, <2>2
    <2>5. TurnsAreHidden' /\ OneRunner' /\ Alone' /\ Informed'
      BY <2>1, <2>2
    <2> QED
      BY <2>3, <2>4, <2>5
  <1>3. CASE AttachLive(p)
    BY <1>3 DEF AttachLive
  <1>4. CASE RequestFails(p)
    BY <1>4 DEF RequestFails
  <1>5. CASE PostMessage(p)
    BY <1>5 DEF PostMessage
  <1> QED
    BY <1>1, <1>2, <1>3, <1>4, <1>5

LEMMA AttachSpawnedKeeps ==
    ASSUME InboxInv, NEW p \in Posts, AttachSpawned(p) PROVE InboxInv'
  <1> USE DEF InboxInv, Types, SentFirst, JobsAreTurns, MessagesSurvive,
             TurnsAreHidden, OneRunner, Alone, Informed, Sent, InProgress, Live,
             queueVars, runnerVars, turnVars, faultVars, ToSet
  <1> QED
    BY InboxAssumption DEF AttachSpawned, HasRunner

LEMMA SendKeeps ==
    ASSUME InboxInv, NEW p \in Posts, Send(p) PROVE InboxInv'
  <1> USE DEF InboxInv, Types, SentFirst, JobsAreTurns, MessagesSurvive,
             TurnsAreHidden, OneRunner, Alone, Informed, Sent, InProgress, Live,
             queueVars, runnerVars, turnVars, faultVars
  <1>1. /\ Append(queue, p) \in Seq(Posts) /\ OnceEach(Append(queue, p))
        /\ ToSet(Append(queue, p)) = ToSet(queue) \cup {p}
    BY Appended DEF Send
  <1> QED
    BY <1>1 DEF Send

LEMMA ReaderKeeps ==
    ASSUME InboxInv, NEW c \in Containers,
           Connect(c) \/ FindsNothing(c) \/ Sleeps(c) \/ Wakes(c) \/ ConnectionLost(c)
    PROVE  InboxInv'
  <1> USE DEF InboxInv, Types, SentFirst, JobsAreTurns, MessagesSurvive,
             TurnsAreHidden, OneRunner, Alone, Informed, Sent, InProgress, Live,
             queueVars, runnerVars, turnVars, faultVars, postVars, ToSet
  <1>1. CASE Connect(c)
    BY <1>1 DEF Connect
  <1>2. CASE FindsNothing(c)
    BY <1>2 DEF FindsNothing
  <1>3. CASE Sleeps(c)
    BY <1>3 DEF Sleeps
  <1>4. CASE Wakes(c)
    BY <1>4 DEF Wakes
  <1>5. CASE ConnectionLost(c)
    BY <1>5 DEF ConnectionLost
  <1> QED
    BY <1>1, <1>2, <1>3, <1>4, <1>5

LEMMA TurnKeeps ==
    ASSUME InboxInv, NEW c \in Containers, (\E p \in Posts : TurnStarts(c, p)) \/ TurnEnds(c) \/ TurnRaises(c)
    PROVE  InboxInv'
  <1> USE DEF InboxInv, Types, SentFirst, JobsAreTurns, MessagesSurvive,
             TurnsAreHidden, OneRunner, Alone, Informed, Sent, InProgress, Live,
             queueVars, runnerVars, turnVars, faultVars, postVars, ToSet
  <1>1. CASE \E p \in Posts : TurnStarts(c, p)
    BY <1>1, InboxAssumption DEF TurnStarts, Visible
  <1>2. CASE TurnEnds(c)
    BY <1>2 DEF TurnEnds
  <1>3. CASE TurnRaises(c)
    BY <1>3 DEF TurnRaises
  <1> QED
    BY <1>1, <1>2, <1>3

LEMMA AckedKeeps ==
    ASSUME InboxInv, NEW c \in Containers, Acked(c) PROVE InboxInv'
  <1> USE DEF InboxInv, Types, SentFirst, JobsAreTurns, MessagesSurvive,
             TurnsAreHidden, OneRunner, Alone, Informed, Sent, InProgress, Live,
             queueVars, runnerVars, turnVars, faultVars, postVars
  <1>1. /\ queue' \in Seq(Posts) /\ OnceEach(queue') /\ ToSet(queue') = ToSet(queue) \ {job[c]}
    BY Deleted DEF Acked
  <1> QED
    BY <1>1 DEF Acked

LEMMA FaultKeeps ==
    ASSUME InboxInv,
           (\E c \in Containers : Dies(c)) \/ (\E p \in Posts : VisibleAgain(p))
             \/ CloseSession \/ BackendRestarts
    PROVE  InboxInv'
  <1> USE DEF InboxInv, Types, SentFirst, JobsAreTurns, MessagesSurvive,
             TurnsAreHidden, OneRunner, Alone, Informed, Sent, InProgress, Live,
             queueVars, runnerVars, turnVars, faultVars, postVars, ToSet
  <1>1. CASE \E c \in Containers : Dies(c)
    BY <1>1 DEF Dies
  <1>2. CASE \E p \in Posts : VisibleAgain(p)
    BY <1>2 DEF VisibleAgain
  <1>3. CASE CloseSession
    BY <1>3 DEF CloseSession
  <1>4. CASE BackendRestarts
    <2>1. PICK orphans \in SUBSET {c \in Containers : Live(c)} :
              Swept(orphans) /\ outlived' = (outlived \/ orphans # {})
      BY <1>4 DEF BackendRestarts
    <2>2. /\ pc' = [p \in Posts |-> IF InProgress(p) THEN "failed" ELSE pc[p]]
          /\ registered' = None
          /\ UNCHANGED <<prior, history, closed, queueVars, wake, cold, given, sees, turnVars, overlapped, losses>>
      BY <1>4 DEF BackendRestarts
    <2>3. Sent' = Sent
      BY <2>2
    <2>4. Types' /\ SentFirst' /\ MessagesSurvive'
      BY <2>1, <2>2, <2>3 DEF Swept
    <2>5. JobsAreTurns'
      BY <2>1, <2>2, <2>3 DEF Swept
    <2>6. TurnsAreHidden'
      BY <2>1, <2>2 DEF Swept
    <2>7. OneRunner' /\ Alone' /\ Informed'
      BY <2>1, <2>2 DEF Swept
    <2> QED
      BY <2>4, <2>5, <2>6, <2>7
  <1> QED
    BY <1>1, <1>2, <1>3, <1>4

LEMMA InboxStep == InboxInv /\ [Next]_vars => InboxInv'
  <1> SUFFICES ASSUME InboxInv, [Next]_vars PROVE InboxInv'
    OBVIOUS
  <1>1. CASE UNCHANGED vars
    BY <1>1
       DEF vars, postVars, queueVars, runnerVars, turnVars, faultVars, InboxInv, Types, SentFirst, JobsAreTurns,
           MessagesSurvive, TurnsAreHidden, OneRunner, Alone, Informed, Sent, InProgress, Live
  <1>2. CASE Next
    BY <1>2, RequestKeeps, AttachSpawnedKeeps, SendKeeps, ReaderKeeps, TurnKeeps, AckedKeeps, FaultKeeps
       DEF Next, Request, Runs
  <1> QED
    BY <1>1, <1>2

\* A message stays queued while it is in a turn, whichever runner reads it
\* (send_user_message, consume_inbox).
THEOREM InboxInvariant == Spec => []InboxInv
  BY InboxInit, InboxStep, PTL DEF Spec

-----------------------------------------------------------------------------
(* What follows from it. *)

\* The types of a session's inbox, and that a runner in a turn has its message
\* among those it sees.
THEOREM InboxTyped == Spec => []InboxTypeOK
  <1>1. InboxInv => InboxTypeOK
    BY DEF InboxInv, Types, SentFirst, JobsAreTurns, InboxTypeOK, OnceEach, Sent
  <1> QED
    BY <1>1, InboxInvariant, PTL

\* A message whose row and NOTIFY were committed is queued until a turn of it has
\* ended or raised, whichever runners die, lose their connection or are swept, and
\* whether or not a turn outlasts VT_SECONDS (send_user_message, consume_inbox).
THEOREM QueuedMessagesSurvive == Spec => []MessagesSurvive
  BY InboxInvariant, PTL DEF InboxInv

\* Two runners have one message in their turns only if one of them outlived the
\* sweep of a restart and VT_SECONDS passed during a turn of it, however long turns
\* take and however often the backend restarts (VT_SECONDS, consume_inbox).
THEOREM TurnsAreExclusive == Spec => []ExclusiveTurn
  <1>1. InboxInv => ExclusiveTurn
    <2> SUFFICES ASSUME InboxInv, NEW c \in Containers, NEW d \in Containers,
                        job[c] = job[d], job[c] # None, c # d
                 PROVE  outlived /\ job[c] \in overdue
      BY DEF ExclusiveTurn
    <2>1. job[c] \in overdue
      BY DEF InboxInv, TurnsAreHidden
    <2>2. Live(c) /\ Live(d)
      BY DEF InboxInv, JobsAreTurns, Live
    <2> QED
      BY <2>1, <2>2 DEF InboxInv, OneRunner
  <1> QED
    BY <1>1, InboxInvariant, PTL

\* A runner on its first turn sees every message that was answered before, as long
\* as requests do not overlap and no runner outlives a restart
\* (_build_hydration_payload, _run_one_turn).
THEOREM ColdTurnIsInformed == Spec => []ColdTurnSeesConversation
  <1>1. InboxInv => ColdTurnSeesConversation
    BY DEF InboxInv, Informed, ColdTurnSeesConversation
  <1> QED
    BY <1>1, InboxInvariant, PTL
=============================================================================
