-------------------------- MODULE FrameRoutingProofs --------------------------
(***************************************************************************)
(* Proofs about FrameRouting, for any POSTs, runs and bounds.              *)
(***************************************************************************)
EXTENDS FrameRouting, SequenceTheorems, TLAPS

-----------------------------------------------------------------------------
(* What a step does to the ring it appends to. *)

LEMMA Stamped ==
    ASSUME RoutingTypeOK, NEW r \in Runs, NEW added \in Seq(Frames), Stamp(r, added)
    PROVE  /\ events' \in [Runs -> Seq(Frames)]
           /\ events'[r] = events[r] \o added
           /\ Len(events'[r]) = Len(events[r]) + Len(added)
           /\ \A i \in 1..Len(events[r]) + Len(added) :
                events'[r][i] = IF i <= Len(events[r]) THEN events[r][i] ELSE added[i - Len(events[r])]
           /\ \A q \in Runs : q # r => events'[q] = events[q]
  <1>1. events[r] \in Seq(Frames)
    BY DEF RoutingTypeOK
  <1>2. /\ events[r] \o added \in Seq(Frames)
        /\ Len(events[r] \o added) = Len(events[r]) + Len(added)
        /\ \A i \in 1..Len(events[r]) + Len(added) :
             (events[r] \o added)[i] = IF i <= Len(events[r]) THEN events[r][i]
                                       ELSE added[i - Len(events[r])]
    BY <1>1, ConcatProperties
  <1> QED
    BY <1>1, <1>2 DEF RoutingTypeOK, Stamp

LEMMA OneFrame ==
    ASSUME NEW p \in Posts, NEW k \in 0..Last
    PROVE  /\ <<p, k>> \in Frames
           /\ <<<<p, k>>>> \in Seq(Frames)
           /\ Len(<<<<p, k>>>>) = 1
           /\ <<<<p, k>>>>[1] = <<p, k>>
           /\ <<p, k>>[1] = p /\ <<p, k>>[2] = k
  BY DEF Frames

\* RUN_STARTED and the frames parked before it.
LEMMA StartedFrames ==
    ASSUME RoutingTypeOK, NEW p \in Posts
    PROVE  /\ <<<<p, 0>>>> \o pending \in Seq(Frames)
           /\ Len(<<<<p, 0>>>> \o pending) = Len(pending) + 1
           /\ (<<<<p, 0>>>> \o pending)[1] = <<p, 0>>
           /\ \A i \in 2..Len(pending) + 1 : (<<<<p, 0>>>> \o pending)[i] = pending[i - 1]
  <1>1. 0 \in 0..Last
    BY RoutingAssumption
  <1>2. <<<<p, 0>>>> \in Seq(Frames) /\ Len(<<<<p, 0>>>>) = 1 /\ <<<<p, 0>>>>[1] = <<p, 0>>
    BY <1>1, OneFrame
  <1>3. pending \in Seq(Frames)
    BY DEF RoutingTypeOK
  <1>4. /\ <<<<p, 0>>>> \o pending \in Seq(Frames)
        /\ Len(<<<<p, 0>>>> \o pending) = 1 + Len(pending)
        /\ \A i \in 1..1 + Len(pending) :
             (<<<<p, 0>>>> \o pending)[i] = IF i <= 1 THEN <<<<p, 0>>>>[i] ELSE pending[i - 1]
    BY <1>2, <1>3, ConcatProperties
  <1>5. Len(pending) \in Nat
    BY <1>3
  <1> QED
    BY <1>2, <1>4, <1>5

LEMMA EmitsType ==
    ASSUME RoutingTypeOK, NEW p \in Posts, Emits(p)
    PROVE  /\ emitted[p] \in 0..Last
           /\ emitted' \in [Posts -> 0..Last + 1]
           /\ emitted'[p] = emitted[p] + 1
           /\ \A q \in Posts : q # p => emitted'[q] = emitted[q]
           /\ inbox' = inbox
  BY RoutingAssumption DEF RoutingTypeOK, Emits

-----------------------------------------------------------------------------
(* Type correctness. *)

LEMMA InitType == InitRouting => RoutingTypeOK
  BY RoutingAssumption DEF InitRouting, InitIngress, RoutingTypeOK, Frames

LEMMA StepType == RoutingTypeOK /\ [NextRouting]_routingVars => RoutingTypeOK'
  <1> SUFFICES ASSUME RoutingTypeOK, [NextRouting]_routingVars PROVE RoutingTypeOK'
    OBVIOUS
  <1>1. ASSUME NEW p \in Posts, Queued(p) PROVE RoutingTypeOK'
    BY <1>1 DEF RoutingTypeOK, Queued
  <1>2. ASSUME NEW p \in Posts, RunStarted(p) PROVE RoutingTypeOK'
    <2>1. RunOf[p] \in Runs /\ Emits(p) /\ Stamp(RunOf[p], <<<<p, 0>>>> \o pending)
      BY <1>2, RoutingAssumption DEF RunStarted, StartedArrives
    <2>2. events' \in [Runs -> Seq(Frames)]
      BY <2>1, StartedFrames, Stamped
    <2>3. pending' \in Seq(Frames) /\ Len(pending') <= PendingCap
      BY <1>2, RoutingAssumption DEF RunStarted, StartedArrives
    <2> QED
      BY <1>2, <2>1, <2>2, <2>3, EmitsType DEF RoutingTypeOK, RunStarted, StartedArrives
  <1>3. ASSUME NEW p \in Posts, RunEnded(p) PROVE RoutingTypeOK'
    <2>1. RunOf[p] \in Runs /\ Emits(p) /\ Stamp(RunOf[p], <<<<p, Last>>>>) /\ Last \in 0..Last
      BY <1>3, RoutingAssumption DEF RunEnded, EndedArrives
    <2>2. events' \in [Runs -> Seq(Frames)]
      BY <2>1, OneFrame, Stamped
    <2> QED
      BY <1>3, <2>1, <2>2, EmitsType DEF RoutingTypeOK, RunEnded, EndedArrives
  <1>4. ASSUME NEW p \in Posts, Routed(p) PROVE RoutingTypeOK'
    <2>1. active \in Runs /\ Emits(p) /\ Stamp(active, <<<<p, emitted[p]>>>>)
      BY <1>4 DEF Routed, GoesToActive, RoutingTypeOK
    <2>2. events' \in [Runs -> Seq(Frames)]
      BY <2>1, EmitsType, OneFrame, Stamped
    <2> QED
      BY <1>4, <2>1, <2>2, EmitsType DEF RoutingTypeOK, Routed, GoesToActive
  <1>5. ASSUME NEW p \in Posts, Parked(p) PROVE RoutingTypeOK'
    <2>1. Emits(p) /\ <<p, emitted[p]>> \in Frames
      BY <1>5, EmitsType, OneFrame DEF Parked, Waits
    <2>2. pending' \in Seq(Frames) /\ Len(pending') <= PendingCap
      BY <1>5, <2>1, RoutingAssumption DEF Parked, Waits, RoutingTypeOK
    <2> QED
      BY <1>5, <2>1, <2>2, EmitsType DEF RoutingTypeOK, Parked, Waits
  <1>6. CASE UNCHANGED routingVars
    BY <1>6 DEF RoutingTypeOK, routingVars
  <1> QED
    BY <1>1, <1>2, <1>3, <1>4, <1>5, <1>6 DEF NextRouting, Dispatch

\* The state of the ingress is well typed and the buffer of parked frames never
\* outgrows its cap (_PRE_RUN_BUFFER_CAP, internal.py).
THEOREM RoutingTypeCorrect == RoutingSpec => []RoutingTypeOK
  BY InitType, StepType, PTL DEF RoutingSpec

-----------------------------------------------------------------------------
(* StartedFirst.  It is not inductive: that a frame finds its run's ring     *)
(* started must be known of the active run and of every execution under way. *)

StartInv ==
    /\ StartedFirst
    /\ active # None => events[active] # <<>>
    /\ \A p \in Posts : emitted[p] # 0 => events[RunOf[p]] # <<>>

LEMMA InitStart == InitRouting => StartInv
  BY RoutingAssumption DEF InitRouting, InitIngress, StartInv, StartedFirst

\* Appending to a ring that is not empty, or RUN_STARTED first to one that is,
\* keeps what StartInv says of the rings.
LEMMA StampStart ==
    ASSUME RoutingTypeOK, StartInv, NEW r \in Runs, NEW added \in Seq(Frames),
           Stamp(r, added), added # <<>>, events[r] # <<>> \/ added[1][2] = 0
    PROVE  /\ StartedFirst'
           /\ events'[r] # <<>>
           /\ \A q \in Runs : events[q] # <<>> => events'[q] # <<>>
  <1>1. events[r] \in Seq(Frames) /\ Len(events[r]) \in Nat /\ Len(added) \in Nat \ {0}
    BY DEF RoutingTypeOK
  <1>2. /\ events' \in [Runs -> Seq(Frames)]
        /\ Len(events'[r]) = Len(events[r]) + Len(added)
        /\ \A i \in 1..Len(events[r]) + Len(added) :
             events'[r][i] = IF i <= Len(events[r]) THEN events[r][i] ELSE added[i - Len(events[r])]
        /\ \A q \in Runs : q # r => events'[q] = events[q]
    BY Stamped
  <1>3. events'[r] # <<>>
    BY <1>1, <1>2
  <1>4. events'[r][1][2] = 0
    <2>1. CASE events[r] # <<>>
      <3>1. Len(events[r]) >= 1 /\ events[r][1][2] = 0
        BY <1>1, <2>1 DEF StartInv, StartedFirst
      <3> QED
        BY <1>1, <1>2, <3>1
    <2>2. CASE events[r] = <<>>
      BY <1>1, <1>2, <2>2
    <2> QED
      BY <2>1, <2>2
  <1>5. StartedFirst'
    BY <1>2, <1>4 DEF StartInv, StartedFirst
  <1> QED
    BY <1>2, <1>3, <1>5

LEMMA StepStart ==
    RoutingTypeOK /\ StartInv /\ [NextRouting]_routingVars => StartInv'
  <1> SUFFICES ASSUME RoutingTypeOK, StartInv, [NextRouting]_routingVars PROVE StartInv'
    OBVIOUS
  <1> USE RoutingAssumption
  <1>1. ASSUME NEW p \in Posts, Queued(p) PROVE StartInv'
    BY <1>1 DEF StartInv, StartedFirst, Queued
  <1>2. ASSUME NEW p \in Posts, RunStarted(p) PROVE StartInv'
    <2> DEFINE added == <<<<p, 0>>>> \o pending
    <2>1. RunOf[p] \in Runs /\ Emits(p) /\ Stamp(RunOf[p], added)
      BY <1>2 DEF RunStarted, StartedArrives
    <2>2. added \in Seq(Frames) /\ added # <<>> /\ added[1][2] = 0
      BY StartedFrames, OneFrame DEF RoutingTypeOK
    <2> HIDE DEF added
    <2>3. /\ StartedFirst'
          /\ events'[RunOf[p]] # <<>>
          /\ \A q \in Runs : events[q] # <<>> => events'[q] # <<>>
      BY <2>1, <2>2, StampStart
    <2> QED
      BY <1>2, <2>1, <2>3, EmitsType DEF StartInv, RunStarted, StartedArrives
  <1>3. ASSUME NEW p \in Posts, RunEnded(p) PROVE StartInv'
    <2>1. RunOf[p] \in Runs /\ Emits(p) /\ Stamp(RunOf[p], <<<<p, Last>>>>)
      BY <1>3 DEF RunEnded, EndedArrives
    <2>2. <<<<p, Last>>>> \in Seq(Frames) /\ <<<<p, Last>>>> # <<>> /\ events[RunOf[p]] # <<>>
      BY <1>3, OneFrame DEF RunEnded, EndedArrives, StartInv
    <2>3. /\ StartedFirst'
          /\ events'[RunOf[p]] # <<>>
          /\ \A q \in Runs : events[q] # <<>> => events'[q] # <<>>
      BY <2>1, <2>2, StampStart
    <2> QED
      BY <1>3, <2>1, <2>3, EmitsType DEF StartInv, RunEnded, EndedArrives, RoutingTypeOK
  <1>4. ASSUME NEW p \in Posts, Routed(p) PROVE StartInv'
    <2>1. active \in Runs /\ Emits(p) /\ Stamp(active, <<<<p, emitted[p]>>>>)
      BY <1>4 DEF Routed, GoesToActive, RoutingTypeOK
    <2>2. <<<<p, emitted[p]>>>> \in Seq(Frames) /\ <<<<p, emitted[p]>>>> # <<>> /\ events[active] # <<>>
      BY <1>4, <2>1, EmitsType, OneFrame DEF Routed, GoesToActive, StartInv
    <2>3. /\ StartedFirst'
          /\ \A q \in Runs : events[q] # <<>> => events'[q] # <<>>
      BY <2>1, <2>2, StampStart
    <2>4. emitted[p] # 0
      BY <1>4 DEF Routed, GoesToActive
    <2> QED
      BY <1>4, <2>1, <2>2, <2>3, <2>4, EmitsType DEF StartInv, Routed, GoesToActive
  <1>5. ASSUME NEW p \in Posts, Parked(p) PROVE StartInv'
    <2>1. Emits(p) /\ emitted[p] # 0
      BY <1>5 DEF Parked, Waits
    <2> QED
      BY <1>5, <2>1, EmitsType DEF StartInv, StartedFirst, Parked, Waits
  <1>6. CASE UNCHANGED routingVars
    BY <1>6 DEF StartInv, StartedFirst, routingVars
  <1> QED
    BY <1>1, <1>2, <1>3, <1>4, <1>5, <1>6 DEF NextRouting, Dispatch

\* The first entry of every ring is a RUN_STARTED, as _dispatch_frame's flush of
\* parked frames promises its subscribers.
THEOREM StartedAlwaysFirst == RoutingSpec => []StartedFirst
  <1>1. RoutingTypeOK /\ StartInv /\ [NextRouting]_routingVars => RoutingTypeOK' /\ StartInv'
    BY StepType, StepStart
  <1>2. StartInv => StartedFirst
    BY DEF StartInv
  <1> QED
    BY <1>1, <1>2, InitType, InitStart, PTL DEF RoutingSpec

-----------------------------------------------------------------------------
(* LatestRunKeepsItsTopic, if no two POSTs ask for the same run (the browser  *)
(* makes up a fresh id for each).                                             *)

RunsDistinct == \A p, q \in Posts : RunOf[p] = RunOf[q] => p = q

\* While the execution that started last is under way, its run is the active one.
LatestInv ==
    \A p \in Posts : latest = p =>
        emitted[p] # 0 /\ (emitted[p] <= Last => active = RunOf[p])

LEMMA InitLatest == InitRouting => LatestInv
  BY RoutingAssumption DEF InitRouting, InitIngress, LatestInv

LEMMA StepLatest ==
    ASSUME RunsDistinct
    PROVE  RoutingTypeOK /\ LatestInv /\ [NextRouting]_routingVars => LatestInv'
  <1> SUFFICES ASSUME RoutingTypeOK, LatestInv, [NextRouting]_routingVars PROVE LatestInv'
    OBVIOUS
  <1> USE RoutingAssumption
  <1>1. ASSUME NEW p \in Posts, Queued(p) PROVE LatestInv'
    BY <1>1 DEF LatestInv, Queued
  <1>2. ASSUME NEW p \in Posts, RunStarted(p) PROVE LatestInv'
    <2>1. Emits(p)
      BY <1>2 DEF RunStarted, StartedArrives
    <2> QED
      BY <1>2, <2>1, EmitsType DEF LatestInv, RunStarted, StartedArrives
  <1>3. ASSUME NEW p \in Posts, RunEnded(p) PROVE LatestInv'
    <2>1. Emits(p)
      BY <1>3 DEF RunEnded, EndedArrives
    <2>2. emitted'[p] = Last + 1 /\ \A q \in Posts : q # p => emitted'[q] = emitted[q]
      BY <1>3, <2>1, EmitsType DEF RunEnded, EndedArrives
    <2>3. \A q \in Posts : q # p => RunOf[q] # RunOf[p]
      BY DEF RunsDistinct
    <2> QED
      BY <1>3, <2>2, <2>3 DEF LatestInv, RunEnded, EndedArrives
  <1>4. ASSUME NEW p \in Posts, Routed(p) PROVE LatestInv'
    <2>1. Emits(p)
      BY <1>4 DEF Routed, GoesToActive
    <2> QED
      BY <1>4, <2>1, EmitsType DEF LatestInv, Routed, GoesToActive
  <1>5. ASSUME NEW p \in Posts, Parked(p) PROVE LatestInv'
    <2>1. Emits(p)
      BY <1>5 DEF Parked, Waits
    <2>2. emitted[p] <= Last /\ active # RunOf[p]
      BY <1>5 DEF Parked, Waits
    <2>3. latest # p
      BY <2>2 DEF LatestInv
    <2> QED
      BY <1>5, <2>1, <2>3, EmitsType DEF LatestInv, Parked, Waits
  <1>6. CASE UNCHANGED routingVars
    BY <1>6 DEF LatestInv, routingVars
  <1> QED
    BY <1>1, <1>2, <1>3, <1>4, <1>5, <1>6 DEF NextRouting, Dispatch

LEMMA StepKeepsTopic ==
    ASSUME RoutingTypeOK, LatestInv, [NextRouting]_routingVars,
           NEW p \in Posts, latest = p, emitted'[p] # emitted[p]
    PROVE  events'[RunOf[p]] = Append(events[RunOf[p]], <<p, emitted[p]>>)
  <1> USE RoutingAssumption
  <1>1. PICK q \in Posts : RunStarted(q) \/ RunEnded(q) \/ Routed(q) \/ Parked(q)
    <2>1. ~UNCHANGED routingVars
      BY DEF routingVars
    <2>2. \A q \in Posts : ~Queued(q)
      BY DEF Queued
    <2> QED
      BY <2>1, <2>2 DEF NextRouting, Dispatch
  <1>2. Emits(q)
    BY <1>1 DEF RunStarted, StartedArrives, RunEnded, EndedArrives, Routed, GoesToActive, Parked, Waits
  <1>3. q = p
    BY <1>2, EmitsType
  <1>4. emitted[p] \in 1..Last /\ active = RunOf[p] /\ RunOf[p] \in Runs
    BY <1>2, <1>3, EmitsType DEF LatestInv
  <1>5. ~RunStarted(p) /\ ~Parked(p)
    BY <1>4 DEF RunStarted, StartedArrives, Parked, Waits
  <1>6. Stamp(RunOf[p], <<<<p, emitted[p]>>>>)
    BY <1>1, <1>3, <1>4, <1>5 DEF RunEnded, EndedArrives, Routed, GoesToActive
  <1>7. <<p, emitted[p]>> \in Frames /\ <<<<p, emitted[p]>>>> \in Seq(Frames) /\ events[RunOf[p]] \in Seq(Frames)
    BY <1>4, OneFrame DEF RoutingTypeOK
  <1>8. events'[RunOf[p]] = events[RunOf[p]] \o <<<<p, emitted[p]>>>>
    BY <1>4, <1>6, <1>7, Stamped
  <1> QED
    BY <1>7, <1>8, AppendIsConcat

\* Late frames of other runs never take the topic away from the run that started
\* last (the compare-and-swap at the end of _dispatch_frame).
THEOREM LatestKeepsTopic ==
    ASSUME RunsDistinct PROVE RoutingSpec => LatestRunKeepsItsTopic
  <1>1. RoutingTypeOK /\ LatestInv /\ [NextRouting]_routingVars => RoutingTypeOK' /\ LatestInv'
    BY StepType, StepLatest
  <1>2. RoutingTypeOK /\ LatestInv /\ [NextRouting]_routingVars =>
          [\A p \in Posts : latest = p /\ emitted'[p] # emitted[p] =>
             events'[RunOf[p]] = Append(events[RunOf[p]], <<p, emitted[p]>>)]_routingVars
    BY StepKeepsTopic
  <1> QED
    BY <1>1, <1>2, InitType, InitLatest, PTL DEF RoutingSpec, LatestRunKeepsItsTopic

-----------------------------------------------------------------------------
(* EachFrameOnce.  A frame is new because every frame on record has a number *)
(* its execution has already passed.                                         *)

RingsOnce ==
    \A q, r \in Runs : \A i \in DOMAIN events[q], j \in DOMAIN events[r] :
        events[q][i] = events[r][j] => q = r /\ i = j

ParkedOnce ==
    /\ \A i, j \in DOMAIN pending : pending[i] = pending[j] => i = j
    /\ \A r \in Runs : \A i \in DOMAIN events[r], j \in DOMAIN pending : events[r][i] # pending[j]

OnlyPast ==
    /\ \A r \in Runs : \A i \in DOMAIN events[r] : events[r][i][2] < emitted[events[r][i][1]]
    /\ \A j \in DOMAIN pending : pending[j][2] < emitted[pending[j][1]]

OnceInv == RingsOnce /\ ParkedOnce /\ OnlyPast

LEMMA InitOnce == InitRouting => OnceInv
  BY DEF InitRouting, InitIngress, OnceInv, RingsOnce, ParkedOnce, OnlyPast

\* After Stamp an entry is an old one in its place or one of the added.
LEMMA StampedEntry ==
    ASSUME RoutingTypeOK, NEW r \in Runs, NEW added \in Seq(Frames), Stamp(r, added),
           NEW q \in Runs, NEW i \in DOMAIN events'[q]
    PROVE  \/ i \in DOMAIN events[q] /\ events'[q][i] = events[q][i]
           \/ /\ q = r /\ i - Len(events[r]) \in DOMAIN added
              /\ events'[q][i] = added[i - Len(events[r])]
  <1>1. events[q] \in Seq(Frames) /\ events[r] \in Seq(Frames) /\ Len(events[r]) \in Nat /\ Len(added) \in Nat
    BY DEF RoutingTypeOK
  <1>2. /\ events' \in [Runs -> Seq(Frames)]
        /\ Len(events'[r]) = Len(events[r]) + Len(added)
        /\ \A k \in 1..Len(events[r]) + Len(added) :
             events'[r][k] = IF k <= Len(events[r]) THEN events[r][k] ELSE added[k - Len(events[r])]
        /\ \A x \in Runs : x # r => events'[x] = events[x]
    BY Stamped
  <1>3. CASE q # r
    BY <1>2, <1>3
  <1>4. CASE q = r
    <2>1. i \in 1..Len(events[r]) + Len(added)
      BY <1>2, <1>4
    <2>2. CASE i <= Len(events[r])
      BY <1>1, <1>2, <1>4, <2>1, <2>2
    <2>3. CASE i > Len(events[r])
      BY <1>1, <1>2, <1>4, <2>1, <2>3
    <2> QED
      BY <1>1, <2>1, <2>2, <2>3
  <1> QED
    BY <1>3, <1>4

\* Frames that are new and differ from each other may be added.
LEMMA StampOnce ==
    ASSUME RoutingTypeOK, RingsOnce, NEW r \in Runs, NEW added \in Seq(Frames), Stamp(r, added),
           \A i, j \in DOMAIN added : added[i] = added[j] => i = j,
           \A q \in Runs : \A i \in DOMAIN events[q], j \in DOMAIN added : events[q][i] # added[j]
    PROVE  RingsOnce'
  <1> SUFFICES ASSUME NEW x \in Runs, NEW y \in Runs,
                      NEW i \in DOMAIN events'[x], NEW j \in DOMAIN events'[y],
                      events'[x][i] = events'[y][j]
               PROVE  x = y /\ i = j
    BY DEF RingsOnce
  <1>0. events' \in [Runs -> Seq(Frames)]
    BY Stamped
  <1>1. Len(events[r]) \in Nat /\ i \in Nat /\ j \in Nat
    BY <1>0, SMTT(30) DEF RoutingTypeOK
  <1> DEFINE Old(q, k) == k \in DOMAIN events[q] /\ events'[q][k] = events[q][k]
             New(q, k) == /\ q = r /\ k - Len(events[r]) \in DOMAIN added
                          /\ events'[q][k] = added[k - Len(events[r])]
  <1>2. (Old(x, i) \/ New(x, i)) /\ (Old(y, j) \/ New(y, j))
    <2>1. Old(x, i) \/ New(x, i)
      BY StampedEntry
    <2>2. Old(y, j) \/ New(y, j)
      BY StampedEntry
    <2> QED
      BY <2>1, <2>2
  <1>3. CASE Old(x, i) /\ Old(y, j)
    <2>1. i \in DOMAIN events[x] /\ j \in DOMAIN events[y] /\ events[x][i] = events[y][j]
      BY <1>3
    <2> QED
      BY <2>1 DEF RingsOnce
  <1>4. CASE New(x, i) /\ New(y, j)
    <2>1. i - Len(events[r]) = j - Len(events[r])
      BY <1>4
    <2> QED
      BY <1>1, <1>4, <2>1
  <1>5. CASE Old(x, i) /\ New(y, j)
    BY <1>5, ZenonT(30)
  <1>6. CASE New(x, i) /\ Old(y, j)
    BY <1>6
  <1> QED
    BY <1>2, <1>3, <1>4, <1>5, <1>6

\* A step that emits only makes more frames past ones.
LEMMA EmittedGrows ==
    ASSUME RoutingTypeOK, OnlyPast, NEW p \in Posts, Emits(p)
    PROVE  /\ \A r \in Runs : \A i \in DOMAIN events[r] :
                events[r][i][2] < emitted'[events[r][i][1]] /\ events[r][i] # <<p, emitted[p]>>
           /\ \A j \in DOMAIN pending :
                pending[j][2] < emitted'[pending[j][1]] /\ pending[j] # <<p, emitted[p]>>
  <1>1. \A q \in Posts : emitted[q] \in Nat /\ emitted[q] <= emitted'[q]
    <2> TAKE q \in Posts
    <2>1. emitted[q] \in Nat
      BY RoutingAssumption DEF RoutingTypeOK
    <2>2. emitted'[q] = emitted[q] \/ emitted'[q] = emitted[q] + 1
      BY EmitsType
    <2> QED
      BY <2>1, <2>2
  <1>2. \A f \in Frames : f[1] \in Posts /\ f[2] \in Nat
    BY RoutingAssumption DEF Frames
  <1>3. \A f \in Frames : f[2] < emitted[f[1]] => f[2] < emitted'[f[1]] /\ f # <<p, emitted[p]>>
    <2> SUFFICES ASSUME NEW f \in Frames, f[2] < emitted[f[1]]
                 PROVE  f[2] < emitted'[f[1]] /\ f # <<p, emitted[p]>>
      OBVIOUS
    <2>1. emitted[f[1]] \in Nat /\ emitted'[f[1]] \in Nat /\ emitted[f[1]] <= emitted'[f[1]] /\ f[2] \in Nat
      BY <1>1, <1>2, EmitsType, RoutingAssumption
    <2>2. ASSUME f = <<p, emitted[p]>> PROVE FALSE
      BY <2>1, <2>2
    <2> QED
      BY <2>1, <2>2
  <1>4. /\ \A r \in Runs : \A i \in DOMAIN events[r] : events[r][i] \in Frames
        /\ \A j \in DOMAIN pending : pending[j] \in Frames
    BY DEF RoutingTypeOK
  <1> QED
    BY <1>3, <1>4 DEF OnlyPast

LEMMA StepOnce ==
    RoutingTypeOK /\ OnceInv /\ [NextRouting]_routingVars => OnceInv'
  <1> SUFFICES ASSUME RoutingTypeOK, OnceInv, [NextRouting]_routingVars PROVE OnceInv'
    OBVIOUS
  <1> USE RoutingAssumption
  <1>1. ASSUME NEW p \in Posts, Queued(p) PROVE OnceInv'
    BY <1>1 DEF OnceInv, RingsOnce, ParkedOnce, OnlyPast, Queued
  <1>2. ASSUME NEW p \in Posts, NEW r \in Runs, Emits(p), Stamp(r, <<<<p, emitted[p]>>>>), pending' = pending
        PROVE  OnceInv'
    <2> DEFINE f == <<p, emitted[p]>>
               added == <<f>>
    <2>1. added \in Seq(Frames) /\ DOMAIN added = {1} /\ added[1] = f /\ f[1] = p /\ f[2] = emitted[p]
      BY <1>2, EmitsType, OneFrame
    <2> HIDE DEF added
    <2>5. /\ \A q \in Runs : \A i \in DOMAIN events[q] :
                events[q][i][2] < emitted'[events[q][i][1]] /\ events[q][i] # f
          /\ \A j \in DOMAIN pending : pending[j][2] < emitted'[pending[j][1]] /\ pending[j] # f
      BY <1>2, EmittedGrows DEF OnceInv
    <2>6. ASSUME NEW q \in Runs, NEW i \in DOMAIN events'[q]
          PROVE  (i \in DOMAIN events[q] /\ events'[q][i] = events[q][i]) \/ events'[q][i] = f
      <3>1. \/ i \in DOMAIN events[q] /\ events'[q][i] = events[q][i]
            \/ /\ i - Len(events[r]) \in DOMAIN added
               /\ events'[q][i] = added[i - Len(events[r])]
        <4>1. Stamp(r, added) /\ added \in Seq(Frames)
          BY <1>2, <2>1 DEF added
        <4> QED
          BY <4>1, StampedEntry
      <3> QED
        BY <2>1, <3>1
    <2>2. RingsOnce'
      <3>1. \A i, j \in DOMAIN added : added[i] = added[j] => i = j
        BY <2>1
      <3>2. \A q \in Runs : \A i \in DOMAIN events[q], j \in DOMAIN added : events[q][i] # added[j]
        BY <2>1, <2>5
      <3> QED
        BY <1>2, <2>1, <3>1, <3>2, StampOnce DEF OnceInv, added
    <2> HIDE DEF f
    <2>3. ParkedOnce'
      BY <1>2, <2>5, <2>6 DEF OnceInv, ParkedOnce
    <2>4. OnlyPast'
      <3>1. f[2] < emitted'[f[1]]
        BY <1>2, <2>1, EmitsType
      <3> QED
        BY <1>2, <2>5, <2>6, <3>1 DEF OnlyPast
    <2> QED
      BY <2>2, <2>3, <2>4 DEF OnceInv
  <1>3. ASSUME NEW p \in Posts, RunStarted(p) PROVE OnceInv'
    <2> DEFINE added == <<<<p, 0>>>> \o pending
    <2>1. RunOf[p] \in Runs /\ Emits(p) /\ emitted[p] = 0 /\ Stamp(RunOf[p], added) /\ pending' = <<>>
      BY <1>3 DEF RunStarted, StartedArrives
    <2>2. /\ added \in Seq(Frames) /\ DOMAIN added = 1..Len(pending) + 1
          /\ added[1] = <<p, 0>> /\ \A i \in 2..Len(pending) + 1 : added[i] = pending[i - 1]
      BY StartedFrames
    <2>3. pending \in Seq(Frames) /\ Len(pending) \in Nat
      BY DEF RoutingTypeOK
    <2> HIDE DEF added
    <2>4. \A i \in DOMAIN added : i = 1 \/ (i - 1 \in DOMAIN pending /\ added[i] = pending[i - 1])
      BY <2>2, <2>3
    <2>5. \A j \in DOMAIN pending : pending[j] # <<p, 0>> /\ pending[j][2] < emitted'[pending[j][1]]
      BY <2>1, EmittedGrows DEF OnceInv
    <2>6. \A i, j \in DOMAIN added : added[i] = added[j] => i = j
      <3> SUFFICES ASSUME NEW i \in DOMAIN added, NEW j \in DOMAIN added, added[i] = added[j] PROVE i = j
        OBVIOUS
      <3>1. i \in Nat /\ j \in Nat
        BY <2>2
      <3>2. CASE i # 1 /\ j # 1
        <4>1. i - 1 = j - 1
          BY <2>4, <3>2 DEF OnceInv, ParkedOnce
        <4> QED
          BY <3>1, <4>1
      <3>3. CASE i = 1 \/ j = 1
        BY <2>2, <2>4, <2>5, <3>3, ZenonT(30)
      <3> QED
        BY <3>2, <3>3
    <2>7. \A q \in Runs : \A i \in DOMAIN events[q], j \in DOMAIN added : events[q][i] # added[j]
      BY <2>1, <2>2, <2>4, EmittedGrows DEF OnceInv, ParkedOnce
    <2>8. RingsOnce'
      BY <2>1, <2>2, <2>6, <2>7, StampOnce DEF OnceInv
    <2>9. ParkedOnce'
      BY <2>1 DEF ParkedOnce
    <2>10. OnlyPast'
      <3>1. 0 < emitted'[p] /\ <<p, 0>>[1] = p /\ <<p, 0>>[2] = 0
        BY <2>1, EmitsType
      <3>2. \A j \in DOMAIN added : added[j][2] < emitted'[added[j][1]]
        BY <2>2, <2>4, <2>5, <3>1
      <3>3. \A q \in Runs : \A i \in DOMAIN events[q] : events[q][i][2] < emitted'[events[q][i][1]]
        BY <2>1, EmittedGrows DEF OnceInv
      <3>4. ASSUME NEW q \in Runs, NEW i \in DOMAIN events'[q]
            PROVE  events'[q][i][2] < emitted'[events'[q][i][1]]
        <4>1. \/ i \in DOMAIN events[q] /\ events'[q][i] = events[q][i]
              \/ \E j \in DOMAIN added : events'[q][i] = added[j]
          <5>1. Stamp(RunOf[p], added) /\ added \in Seq(Frames) /\ RunOf[p] \in Runs
            BY <2>1, <2>2
          <5>2. \/ i \in DOMAIN events[q] /\ events'[q][i] = events[q][i]
                \/ /\ i - Len(events[RunOf[p]]) \in DOMAIN added
                   /\ events'[q][i] = added[i - Len(events[RunOf[p]])]
            BY <5>1, StampedEntry
          <5> QED
            BY <5>2
        <4> QED
          BY <3>2, <3>3, <4>1
      <3> QED
        BY <2>1, <3>4 DEF OnlyPast
    <2> QED
      BY <2>8, <2>9, <2>10 DEF OnceInv
  <1>4. ASSUME NEW p \in Posts, RunEnded(p) PROVE OnceInv'
    BY <1>2, <1>4 DEF RunEnded, EndedArrives
  <1>5. ASSUME NEW p \in Posts, Routed(p) PROVE OnceInv'
    BY <1>2, <1>5 DEF Routed, GoesToActive, RoutingTypeOK
  <1>6. ASSUME NEW p \in Posts, Parked(p) PROVE OnceInv'
    <2> DEFINE f == <<p, emitted[p]>>
    <2>1. Emits(p) /\ f \in Frames /\ f[1] = p /\ f[2] = emitted[p] /\ f[2] < emitted'[p]
      BY <1>6, EmitsType, OneFrame DEF Parked, Waits
    <2>2. pending \in Seq(Frames) /\ Len(pending) \in Nat
      BY DEF RoutingTypeOK
    <2> HIDE DEF f
    <2>3. RingsOnce'
      BY <1>6 DEF OnceInv, RingsOnce, Parked, Waits
    <2>4. CASE pending' = pending
      BY <1>6, <2>1, <2>3, <2>4, EmittedGrows DEF OnceInv, ParkedOnce, OnlyPast, Parked, Waits
    <2>5. CASE pending' = Append(pending, f)
      <3>1. \A j \in DOMAIN pending' :
              \/ j \in DOMAIN pending /\ pending'[j] = pending[j]
              \/ j = Len(pending) + 1 /\ pending'[j] = f
        BY <2>1, <2>2, <2>5
      <3>2. \A j \in DOMAIN pending : pending[j] # f
        BY <2>1, EmittedGrows DEF OnceInv, f
      <3>3. \A r \in Runs : \A i \in DOMAIN events[r] : events[r][i] # f
        BY <2>1, EmittedGrows DEF OnceInv, f
      <3>4. ParkedOnce'
        <4>1. events' = events
          BY <1>6 DEF Parked, Waits
        <4> QED
          BY <3>1, <3>2, <3>3, <4>1 DEF OnceInv, ParkedOnce
      <3>5. OnlyPast'
        BY <1>6, <2>1, <3>1, EmittedGrows DEF OnceInv, OnlyPast, Parked, Waits
      <3> QED
        BY <2>3, <3>4, <3>5 DEF OnceInv
    <2> QED
      BY <1>6, <2>4, <2>5 DEF Parked, Waits, f
  <1>7. CASE UNCHANGED routingVars
    BY <1>7 DEF OnceInv, RingsOnce, ParkedOnce, OnlyPast, routingVars
  <1> QED
    BY <1>1, <1>3, <1>4, <1>5, <1>6, <1>7 DEF NextRouting, Dispatch

\* No frame is routed to two runs or published twice, and a parked frame is
\* published once, whatever executions overlap (_dispatch_frame).
THEOREM FramesAreRoutedOnce == RoutingSpec => []EachFrameOnce
  <1>1. RoutingTypeOK /\ OnceInv /\ [NextRouting]_routingVars => RoutingTypeOK' /\ OnceInv'
    BY StepType, StepOnce
  <1>2. OnceInv => EachFrameOnce
    BY DEF OnceInv, RingsOnce, ParkedOnce, EachFrameOnce
  <1> QED
    BY <1>1, <1>2, InitType, InitOnce, PTL DEF RoutingSpec

=============================================================================
