-------------------------- MODULE RunnerChannelProofs --------------------------
(***************************************************************************)
(* Proofs about RunnerChannel, for any prompts, any set of oversized and   *)
(* of refusable frames, any size of the queue and any number of faults.    *)
(***************************************************************************)
EXTENDS RunnerChannel, SequenceTheorems, TLAPS

Elem == Frames \cup {Beat}

Flags ==
    /\ made \in 0..Total /\ hand \in Frames \cup {None}
    /\ uploading \in BOOLEAN /\ rejected \in BOOLEAN
    /\ chan \in {"down", "open", "stopped"}

Queues ==
    /\ outbound \in Seq(Elem) /\ Len(outbound) <= QueueCap
    /\ backlog \in Seq(Elem) /\ yielded \in Seq(Elem) /\ wire \in Seq(Elem)
    /\ refused \subseteq Refusable
    /\ arrived \subseteq Elem /\ dropped \subseteq Elem

\* The frames that are accounted for, and those the channel still has.
Passed == arrived \cup dropped
Held == SetOf(outbound) \cup SetOf(backlog) \cup SetOf(yielded)

\* Between two attempts nothing is written; what was refused or is on the wire was
\* handed over; before the first frame of the runner there are only heartbeats.
Attempts ==
    /\ uploading => hand # None
    /\ chan = "down" => yielded = <<>> /\ ~rejected
    /\ chan = "open" /\ (rejected \/ wire # <<>>) => yielded # <<>>
    /\ made = 0 => Held \cup SetOf(wire) \subseteq {Beat} /\ hand = None /\ (chan = "open" => ~rejected)

Accounted == chan # "stopped" => \A i \in 1..made : Script(i) \in Passed \cup {hand} \cup Held

ChannelInv ==
    /\ Flags /\ Queues
    /\ Attempts
    /\ Accounted

\* Every frame of the script that comes before f is in passed.
Ready(f, passed) ==
    \A j \in 1..Total : f = Script(j) => \A i \in 1..j - 1 : Script(i) \in passed

\* Each frame of s comes after those before it in the script, but for passed ones.
Ordered(s, passed) ==
    \A k \in DOMAIN s : Ready(s[k], passed \cup {s[l] : l \in 1..k - 1})

\* The channel as one line: what was written, then the backlog, the queue and the
\* frame in the emitter's hand.  The wire is in order by itself.
OrderInv ==
    /\ Ordered(yielded, Passed)
    /\ Ordered(backlog, Passed \cup SetOf(yielded))
    /\ Ordered(outbound, Passed \cup SetOf(yielded) \cup SetOf(backlog))
    /\ hand # None => Ready(hand, Passed \cup Held)
    /\ Ordered(wire, Passed)
    /\ \A f \in arrived : Ready(f, Passed)
    /\ chan = "open" /\ ~rejected => SetOf(yielded) \subseteq Passed \cup SetOf(wire)

-----------------------------------------------------------------------------
(* The script. *)

\* Quotient and remainder.
LEMMA Quotient ==
    ASSUME NEW n \in Nat, NEW k \in Nat \ {0}
    PROVE  n \div k \in Nat /\ n % k \in 0..k - 1 /\ n = k * (n \div k) + (n % k)
  OBVIOUS

LEMMA Smaller ==
    ASSUME NEW q \in Nat, NEW l \in Nat, NEW k \in Nat \ {0}, NEW n \in Nat, k * q <= n, n < l * k
    PROVE  q < l
  OBVIOUS

LEMMA ScriptIndex ==
    ASSUME NEW i \in 1..Total
    PROVE  /\ (i - 1) \div (Last + 1) + 1 \in 1..Len(Prompts)
           /\ (i - 1) % (Last + 1) \in 0..Last
           /\ i = (Last + 1) * ((i - 1) \div (Last + 1)) + ((i - 1) % (Last + 1)) + 1
  <1> DEFINE k == Last + 1  n == i - 1  q == n \div k  r == n % k
  <1>1. k \in Nat \ {0} /\ n \in Nat /\ Len(Prompts) \in Nat /\ Last = k - 1 /\ i = n + 1
    BY RoutingAssumption, ChannelAssumption DEF Total
  <1>2. q \in Nat /\ r \in 0..k - 1 /\ n = k * q + r
    BY <1>1, Quotient
  <1>3. n < Len(Prompts) * k
    BY <1>1 DEF Total
  <1> HIDE DEF k, n, q, r
  <1>4. k * q \in Int /\ k * q <= n
    BY <1>1, <1>2
  <1>5. q < Len(Prompts)
    BY <1>1, <1>2, <1>3, <1>4, Smaller
  <1>6. q + 1 \in 1..Len(Prompts) /\ r \in 0..Last /\ i = k * q + r + 1
    BY <1>1, <1>2, <1>4, <1>5
  <1> QED
    BY <1>6 DEF k, n, q, r

\* A prompt and a number make one frame of the script, and no other.
LEMMA ScriptIsFrames ==
    ASSUME NEW i \in 1..Total
    PROVE  /\ Script(i) \in Frames
           /\ Script(i)[1] \in Posts /\ Script(i)[2] \in 0..Last
  <1>1. Prompts[(i - 1) \div (Last + 1) + 1] \in Posts
    BY ScriptIndex, ChannelAssumption
  <1>2. (i - 1) % (Last + 1) \in 0..Last
    BY ScriptIndex
  <1> QED
    BY <1>1, <1>2, RoutingAssumption DEF Script, Frames

LEMMA ScriptIsInjective ==
    ASSUME \A m, n \in DOMAIN Prompts : Prompts[m] = Prompts[n] => m = n,
           NEW i \in 1..Total, NEW j \in 1..Total, Script(i) = Script(j)
    PROVE  i = j
  <1> DEFINE q(n) == (n - 1) \div (Last + 1)  r(n) == (n - 1) % (Last + 1)
  <1>1. Prompts[q(i) + 1] = Prompts[q(j) + 1] /\ r(i) = r(j)
    BY DEF Script
  <1>2. q(i) + 1 = q(j) + 1
    BY <1>1, ScriptIndex, ChannelAssumption
  <1>3. q(i) = q(j)
    <2>1. q(i) \in Int /\ q(j) \in Int
      BY ScriptIndex, Quotient, RoutingAssumption DEF Total
    <2> HIDE DEF q
    <2> QED
      BY <1>2, <2>1
  <1>4. i = (Last + 1) * q(i) + r(i) + 1 /\ j = (Last + 1) * q(j) + r(j) + 1
    BY ScriptIndex
  <1> HIDE DEF q, r
  <1> QED
    BY <1>1, <1>3, <1>4

-----------------------------------------------------------------------------
(* What the elements of a sequence are after the operations of the channel. *)

LEMMA SetOfConcat ==
    ASSUME NEW S, NEW s \in Seq(S), NEW t \in Seq(S)
    PROVE  s \o t \in Seq(S) /\ SetOf(s \o t) = SetOf(s) \cup SetOf(t)
  <1>1. /\ s \o t \in Seq(S) /\ Len(s \o t) = Len(s) + Len(t)
        /\ \A i \in 1..Len(s) + Len(t) : (s \o t)[i] = IF i <= Len(s) THEN s[i] ELSE t[i - Len(s)]
    BY ConcatProperties
  <1>2. ASSUME NEW e \in SetOf(s \o t) PROVE e \in SetOf(s) \cup SetOf(t)
    BY <1>1, <1>2 DEF SetOf
  <1>3. ASSUME NEW e \in SetOf(s) PROVE e \in SetOf(s \o t)
    <2>1. PICK i \in 1..Len(s) : s[i] = e
      BY <1>3 DEF SetOf
    <2>2. i \in 1..Len(s) + Len(t) /\ (s \o t)[i] = e
      BY <1>1, <2>1
    <2> QED
      BY <1>1, <2>2 DEF SetOf
  <1>4. ASSUME NEW e \in SetOf(t) PROVE e \in SetOf(s \o t)
    <2>1. PICK i \in 1..Len(t) : t[i] = e
      BY <1>4 DEF SetOf
    <2>2. Len(s) + i \in 1..Len(s) + Len(t) /\ (s \o t)[Len(s) + i] = e
      BY <1>1, <2>1
    <2> QED
      BY <1>1, <2>2 DEF SetOf
  <1> QED
    BY <1>1, <1>2, <1>3, <1>4

LEMMA SetOfAppend ==
    ASSUME NEW S, NEW s \in Seq(S), NEW e \in S
    PROVE  /\ Append(s, e) \in Seq(S) /\ Append(s, e) # <<>> /\ Len(Append(s, e)) = Len(s) + 1
           /\ SetOf(Append(s, e)) = SetOf(s) \cup {e}
  <1>1. /\ Append(s, e) \in Seq(S) /\ Len(s) \in Nat
        /\ DOMAIN Append(s, e) = 1..Len(s) + 1 /\ DOMAIN s = 1..Len(s)
        /\ \A i \in 1..Len(s) : Append(s, e)[i] = s[i]
        /\ Append(s, e)[Len(s) + 1] = e /\ Len(Append(s, e)) = Len(s) + 1
    BY AppendProperties
  <1>2. 1..Len(s) + 1 = (1..Len(s)) \cup {Len(s) + 1}
    BY <1>1
  <1>3. SetOf(Append(s, e)) = SetOf(s) \cup {e}
    BY <1>1, <1>2 DEF SetOf
  <1> QED
    BY <1>1, <1>3

LEMMA SetOfTail ==
    ASSUME NEW S, NEW s \in Seq(S), s # <<>>
    PROVE  /\ Head(s) \in S /\ Tail(s) \in Seq(S) /\ Len(Tail(s)) = Len(s) - 1
           /\ SetOf(s) = SetOf(Tail(s)) \cup {Head(s)}
  <1>1. /\ Head(s) \in S /\ Tail(s) \in Seq(S) /\ Len(Tail(s)) = Len(s) - 1 /\ Len(s) \in Nat \ {0}
        /\ \A i \in 1..Len(s) - 1 : Tail(s)[i] = s[i + 1]
        /\ DOMAIN Tail(s) = 1..Len(s) - 1 /\ DOMAIN s = 1..Len(s) /\ Head(s) = s[1]
    BY HeadTailProperties
  <1>2. ASSUME NEW e \in SetOf(s), e # Head(s) PROVE e \in SetOf(Tail(s))
    <2>1. PICK i \in 1..Len(s) : s[i] = e
      BY <1>1, <1>2 DEF SetOf
    <2>2. i - 1 \in 1..Len(s) - 1 /\ Tail(s)[i - 1] = e
      BY <1>1, <1>2, <2>1
    <2> QED
      BY <1>1, <2>2 DEF SetOf
  <1>3. SetOf(Tail(s)) \subseteq SetOf(s) /\ Head(s) \in SetOf(s)
    BY <1>1 DEF SetOf
  <1> QED
    BY <1>1, <1>2, <1>3

LEMMA SetOfPrefix ==
    ASSUME NEW S, NEW s \in Seq(S), NEW n \in 0..Len(s)
    PROVE  /\ SubSeq(s, 1, n) \in Seq(S) /\ Len(SubSeq(s, 1, n)) = n
           /\ \A i \in 1..n : SubSeq(s, 1, n)[i] = s[i]
           /\ SetOf(SubSeq(s, 1, n)) \subseteq SetOf(s)
  <1>1. /\ SubSeq(s, 1, n) \in Seq(S) /\ Len(SubSeq(s, 1, n)) = n
        /\ \A i \in 1..n : SubSeq(s, 1, n)[i] = s[i]
        /\ DOMAIN SubSeq(s, 1, n) = 1..n /\ DOMAIN s = 1..Len(s)
    BY SubSeqProperties
  <1> QED
    BY <1>1 DEF SetOf

LEMMA SetOfFront ==
    ASSUME NEW S, NEW s \in Seq(S), s # <<>>
    PROVE  /\ s[Len(s)] \in S /\ SubSeq(s, 1, Len(s) - 1) \in Seq(S)
           /\ SetOf(s) = SetOf(SubSeq(s, 1, Len(s) - 1)) \cup {s[Len(s)]}
  <1>1. Len(s) \in Nat \ {0} /\ Len(s) - 1 \in 0..Len(s) /\ DOMAIN s = 1..Len(s)
    BY EmptySeq
  <1> DEFINE front == SubSeq(s, 1, Len(s) - 1)
  <1>2. /\ front \in Seq(S) /\ DOMAIN front = 1..Len(s) - 1
        /\ \A i \in 1..Len(s) - 1 : front[i] = s[i]
    BY <1>1, SetOfPrefix
  <1>3. 1..Len(s) = (1..Len(s) - 1) \cup {Len(s)}
    BY <1>1
  <1> HIDE DEF front
  <1>4. SetOf(s) = SetOf(front) \cup {s[Len(s)]}
    BY <1>1, <1>2, <1>3 DEF SetOf
  <1> QED
    BY <1>1, <1>2, <1>4 DEF front

-----------------------------------------------------------------------------
(* Types, and that no frame is lost silently. *)

LEMMA Elements ==
    /\ Frames \subseteq Elem /\ Beat \in Elem /\ Beat \notin Refusable
    /\ <<>> \in Seq(Elem) /\ SetOf(<<>>) = {} /\ Len(<<>>) = 0
    /\ Total \in Nat /\ QueueCap \in Nat \ {0} /\ None \notin Frames
  <1>1. Total \in Nat
    BY RoutingAssumption, ChannelAssumption DEF Total
  <1>2. Beat \notin Refusable
    BY RoutingAssumption, ChannelAssumption DEF Beat
  <1> QED
    BY <1>1, <1>2, ChannelAssumption DEF Elem, SetOf

LEMMA ChannelInit == Init => ChannelInv
  <1> SUFFICES ASSUME Init PROVE ChannelInv
    OBVIOUS
  <1>1. refused \subseteq Refusable
    BY DEF Init
  <1>2. Flags
    <2>1. made \in 0..Total
      BY Elements DEF Init
    <2> QED
      BY <2>1 DEF Init, Flags
  <1>3. Queues
    BY <1>1, Elements DEF Init, Queues
  <1>4. Attempts /\ Accounted
    BY Elements DEF Init, Attempts, Accounted, Held
  <1> QED
    BY <1>2, <1>3, <1>4 DEF ChannelInv

\* The emitter: a frame enters the hand, the queue or the log, a heartbeat the queue.
LEMMA EmitterKeeps ==
    ASSUME ChannelInv, Emit \/ OffloadSucceeds \/ OffloadFails \/ Put \/ HeartbeatEmitted
    PROVE  ChannelInv'
  <1> USE DEF ChannelInv, Flags, Queues, Attempts, Accounted, Held, Passed, senderVars, emitterVars, faultVars
  <1>1. CASE Emit
    <2>1. made' = made + 1 /\ made + 1 \in 1..Total /\ hand' = Script(made + 1) /\ hand = None
      BY <1>1, Elements DEF Emit
    <2>2. \A i \in 1..made + 1 : Script(i) \in Frames /\ Script(i) # None
      BY <2>1, ScriptIsFrames, Elements
    <2>3. hand' \in Frames /\ uploading' \in BOOLEAN
      BY <1>1, <2>1, <2>2 DEF Emit
    <2> QED
      BY <1>1, <2>1, <2>2, <2>3, Elements DEF Emit
  <1>2. ASSUME NEW f \in Elem, outbound' = Append(outbound, f), Len(outbound) < QueueCap
        PROVE  /\ outbound' \in Seq(Elem) /\ Len(outbound') <= QueueCap
               /\ SetOf(outbound') = SetOf(outbound) \cup {f}
    BY <1>2, SetOfAppend, Elements
  <1>3. CASE OffloadSucceeds
    <2>1. hand \in Frames /\ Attached(hand[1]) \in Elem
      BY <1>3, RoutingAssumption DEF OffloadSucceeds, Attached, Frames, Elem
    <2>2. /\ outbound' \in Seq(Elem) /\ Len(outbound') <= QueueCap
          /\ SetOf(outbound') = SetOf(outbound) \cup {Attached(hand[1])}
      BY <1>2, <1>3, <2>1 DEF OffloadSucceeds
    <2>3. made # 0
      BY <1>3, <2>1, Elements DEF OffloadSucceeds
    <2> QED
      BY <1>3, <2>1, <2>2, <2>3 DEF OffloadSucceeds
  <1>4. CASE OffloadFails
    BY <1>4, Elements DEF OffloadFails
  <1>5. CASE Put
    <2>1. hand \in Frames /\ hand \in Elem
      BY <1>5, Elements DEF Put
    <2>2. /\ outbound' \in Seq(Elem) /\ Len(outbound') <= QueueCap
          /\ SetOf(outbound') = SetOf(outbound) \cup {hand}
      BY <1>2, <1>5, <2>1 DEF Put
    <2>3. made # 0
      BY <1>5, <2>1, Elements DEF Put
    <2> QED
      BY <1>5, <2>1, <2>2, <2>3 DEF Put
  <1>6. CASE HeartbeatEmitted
    BY <1>2, <1>6, Elements DEF HeartbeatEmitted
  <1> QED
    BY <1>1, <1>3, <1>4, <1>5, <1>6

\* An attempt opens and hands over frames.
LEMMA SenderKeeps ==
    ASSUME ChannelInv, Open \/ YieldBacklog \/ YieldQueued PROVE ChannelInv'
  <1> USE DEF ChannelInv, Flags, Queues, Attempts, Accounted, Held, Passed, senderVars, emitterVars, faultVars
  <1>1. CASE Open
    BY <1>1, Elements DEF Open
  <1>2. ASSUME NEW f \in Elem, Hands(f)
        PROVE  /\ {yielded', wire'} \subseteq Seq(Elem) /\ yielded' # <<>>
               /\ SetOf(yielded') = SetOf(yielded) \cup {f}
               /\ SetOf(wire') \subseteq SetOf(wire) \cup {f}
    BY <1>2, SetOfAppend DEF Hands
  <1>3. CASE YieldBacklog
    <2>1. /\ Head(backlog) \in Elem /\ Tail(backlog) \in Seq(Elem)
          /\ SetOf(backlog) = SetOf(Tail(backlog)) \cup {Head(backlog)}
      BY <1>3, SetOfTail DEF YieldBacklog
    <2> QED
      BY <1>2, <1>3, <2>1 DEF YieldBacklog, Hands
  <1>4. CASE YieldQueued
    <2>1. /\ Head(outbound) \in Elem /\ Tail(outbound) \in Seq(Elem)
          /\ SetOf(outbound) = SetOf(Tail(outbound)) \cup {Head(outbound)}
          /\ Len(Tail(outbound)) <= QueueCap
      BY <1>4, SetOfTail, Elements DEF YieldQueued
    <2> QED
      BY <1>2, <1>4, <2>1 DEF YieldQueued, Hands
  <1> QED
    BY <1>1, <1>3, <1>4

LEMMA WireIsCut ==
    ASSUME ChannelInv, Cut
    PROVE  wire' \in Seq(Elem) /\ SetOf(wire') \subseteq SetOf(wire)
  BY SetOfPrefix DEF ChannelInv, Flags, Queues, Cut

\* An attempt ends.
LEMMA BreakKeeps ==
    ASSUME ChannelInv, ConnectionFails \/ Stop PROVE ChannelInv'
  <1> USE DEF ChannelInv, Flags, Queues, Attempts, Accounted, Held, Passed, senderVars, emitterVars, faultVars
  <1>2. CASE ConnectionFails
    <2>1. /\ backlog' = yielded \o backlog \o outbound
          /\ yielded' = <<>> /\ outbound' = <<>> /\ Cut
      BY <1>2 DEF ConnectionFails
    <2>2. backlog' \in Seq(Elem) /\ SetOf(backlog') = Held
      <3> HIDE DEF Held
      <3>1. yielded \in Seq(Elem) /\ backlog \in Seq(Elem) /\ outbound \in Seq(Elem)
        OBVIOUS
      <3> DEFINE replayed == yielded \o backlog
      <3>2. replayed \in Seq(Elem) /\ SetOf(replayed) = SetOf(yielded) \cup SetOf(backlog)
        BY <3>1, SetOfConcat
      <3>3. backlog' = replayed \o outbound
        BY <2>1
      <3> HIDE DEF replayed
      <3>4. backlog' \in Seq(Elem) /\ SetOf(backlog') = SetOf(replayed) \cup SetOf(outbound)
        BY <3>1, <3>2, <3>3, SetOfConcat
      <3> QED
        BY <3>2, <3>4 DEF Held
    <2>3. Flags'
      BY <1>2 DEF ConnectionFails
    <2>4. Queues'
      BY <1>2, <2>1, <2>2, WireIsCut, Elements DEF ConnectionFails
    <2>5. Attempts' /\ Accounted'
      BY <1>2, <2>1, <2>2, WireIsCut, Elements DEF ConnectionFails
    <2> QED
      BY <2>3, <2>4, <2>5
  <1>3. CASE Stop
    <2>1. Flags'
      BY <1>3 DEF Stop
    <2>2. Queues'
      BY <1>3, WireIsCut, Elements DEF Stop
    <2>3. Attempts' /\ Accounted'
      BY <1>3, WireIsCut, Elements DEF Stop
    <2> QED
      BY <2>1, <2>2, <2>3
  <1> QED
    BY <1>2, <1>3

LEMMA RefusalKeeps ==
    ASSUME ChannelInv, RefusalSeen PROVE ChannelInv'
  <1> USE DEF ChannelInv, Flags, Queues, Attempts, Accounted, Held, Passed, senderVars, emitterVars, faultVars
  <1> DEFINE offender == yielded[Len(yielded)]
             accepted == SubSeq(yielded, 1, Len(yielded) - 1)
             errors == IF offender[2] \in {Last, Last + 1} THEN <<>> ELSE <<RunError(Script(made)[1])>>
  <1>1. /\ dropped' = dropped \cup {offender}
        /\ backlog' = accepted \o backlog \o errors \o outbound
        /\ yielded' = <<>> /\ outbound' = <<>> /\ wire' = <<>>
        /\ chan = "open" /\ rejected /\ chan' = "down" /\ rejected' = FALSE
        /\ UNCHANGED <<emitterVars, faultVars, arrived, ingressVars>>
    BY DEF RefusalSeen
  <1>2. made \in 1..Total
    BY <1>1, Elements
  <1>3. errors \in Seq(Elem)
    <2>1. RunError(Script(made)[1]) \in Elem
      BY <1>2, ScriptIsFrames, RoutingAssumption DEF RunError, Frames, Elem
    <2> QED
      BY <2>1
  <1>4. /\ offender \in Elem /\ accepted \in Seq(Elem)
        /\ SetOf(yielded) = SetOf(accepted) \cup {offender}
    BY <1>1, SetOfFront
  <1> DEFINE kept == accepted \o backlog  replayed == kept \o errors
  <1>5. backlog' = replayed \o outbound /\ outbound \in Seq(Elem) /\ backlog \in Seq(Elem)
    BY <1>1
  <1> HIDE DEF offender, accepted, errors
  <1>6. kept \in Seq(Elem) /\ SetOf(kept) = SetOf(accepted) \cup SetOf(backlog)
    BY <1>4, <1>5, SetOfConcat
  <1> HIDE DEF kept
  <1>7. replayed \in Seq(Elem) /\ SetOf(replayed) = SetOf(kept) \cup SetOf(errors)
    BY <1>3, <1>6, SetOfConcat
  <1> HIDE DEF replayed
  <1>8. backlog' \in Seq(Elem) /\ SetOf(backlog') = SetOf(replayed) \cup SetOf(outbound)
    BY <1>5, <1>7, SetOfConcat
  <1>9. Flags'
    BY <1>1
  <1>10. Queues'
    BY <1>1, <1>4, <1>8, Elements
  <1>11. Attempts'
    BY <1>1, <1>2, Elements
  <1>12. Accounted'
    BY <1>1, <1>4, <1>6, <1>7, <1>8, Elements
  <1> QED
    BY <1>9, <1>10, <1>11, <1>12

\* The other end of the connection.
LEMMA ServerKeeps ==
    ASSUME ChannelInv, ServerReads \/ ServerRejects PROVE ChannelInv'
  <1> USE DEF ChannelInv, Flags, Queues, Attempts, Accounted, Held, Passed, senderVars, emitterVars, faultVars
  <1>1. wire # <<>>
    BY DEF ServerReads, ServerRejects
  <1>2. /\ Head(wire) \in Elem /\ Tail(wire) \in Seq(Elem)
        /\ SetOf(wire) = SetOf(Tail(wire)) \cup {Head(wire)}
    BY <1>1, SetOfTail
  <1>3. CASE ServerReads
    BY <1>2, <1>3 DEF ServerReads
  <1>4. CASE ServerRejects
    <2>1. Head(wire) # Beat
      BY <1>4, Elements DEF ServerRejects
    <2> QED
      BY <1>2, <1>4, <2>1, Elements DEF ServerRejects
  <1> QED
    BY <1>3, <1>4

LEMMA ChannelStep == ChannelInv /\ [Next]_vars => ChannelInv'
  <1> SUFFICES ASSUME ChannelInv, [Next]_vars PROVE ChannelInv'
    OBVIOUS
  <1>1. CASE UNCHANGED vars
    BY <1>1 DEF vars, senderVars, emitterVars, faultVars, ChannelInv, Flags, Queues, Attempts,
                Accounted, Held, Passed
  <1>2. CASE Next
    BY <1>2, EmitterKeeps, SenderKeeps, BreakKeeps, RefusalKeeps, ServerKeeps DEF Next
  <1> QED
    BY <1>1, <1>2

\* The channel keeps every frame it was given until it has arrived or is dropped, and
\* what it repeats after a break is what it had handed over (_stream_outbound).
THEOREM ChannelInvariant == Spec => []ChannelInv
  BY ChannelInit, ChannelStep, PTL DEF Spec

-----------------------------------------------------------------------------
(* What Ordered is of the same operations. *)

LEMMA ReadyMonotone ==
    ASSUME NEW f, NEW A, NEW B, A \subseteq B, Ready(f, A) PROVE Ready(f, B)
  BY DEF Ready

LEMMA OrderedMonotone ==
    ASSUME NEW s, NEW A, NEW B, A \subseteq B, Ordered(s, A) PROVE Ordered(s, B)
  <1> SUFFICES ASSUME NEW k \in DOMAIN s PROVE Ready(s[k], B \cup {s[l] : l \in 1..k - 1})
    BY DEF Ordered
  <1>1. Ready(s[k], A \cup {s[l] : l \in 1..k - 1})
    BY DEF Ordered
  <1>2. A \cup {s[l] : l \in 1..k - 1} \subseteq B \cup {s[l] : l \in 1..k - 1}
    OBVIOUS
  <1> QED
    BY <1>1, <1>2, ReadyMonotone

LEMMA OrderedConcat ==
    ASSUME NEW S, NEW s \in Seq(S), NEW t \in Seq(S), NEW A,
           Ordered(s, A), Ordered(t, A \cup SetOf(s))
    PROVE  Ordered(s \o t, A)
  <1>1. /\ s \o t \in Seq(S) /\ DOMAIN (s \o t) = 1..Len(s) + Len(t) /\ Len(s) \in Nat /\ Len(t) \in Nat
        /\ \A i \in 1..Len(s) + Len(t) : (s \o t)[i] = IF i <= Len(s) THEN s[i] ELSE t[i - Len(s)]
        /\ DOMAIN s = 1..Len(s) /\ DOMAIN t = 1..Len(t)
    BY ConcatProperties
  <1> DEFINE u == s \o t
  <1>2. \A i \in 1..Len(s) : u[i] = s[i] /\ i \in 1..Len(s) + Len(t)
    BY <1>1
  <1>3. \A i \in 1..Len(t) : u[Len(s) + i] = t[i]
    BY <1>1
  <1>4. DOMAIN u = 1..Len(s) + Len(t)
    BY <1>1
  <1> HIDE DEF u
  <1> SUFFICES ASSUME NEW k \in 1..Len(s) + Len(t)
               PROVE  Ready(u[k], A \cup {u[l] : l \in 1..k - 1})
    BY <1>4 DEF Ordered, u
  <1>5. CASE k <= Len(s)
    <2>1. k \in 1..Len(s)
      BY <1>5
    <2>2. {s[l] : l \in 1..k - 1} \subseteq {u[l] : l \in 1..k - 1}
      BY <1>2, <2>1
    <2>3. Ready(s[k], A \cup {s[l] : l \in 1..k - 1})
      BY <1>1, <2>1 DEF Ordered
    <2> QED
      BY <1>2, <2>1, <2>2, <2>3, ReadyMonotone
  <1>6. CASE k > Len(s)
    <2>1. PICK m \in 1..Len(t) : k = Len(s) + m
      <3>1. k - Len(s) \in 1..Len(t) /\ k = Len(s) + (k - Len(s))
        BY <1>1, <1>6
      <3> QED
        BY <3>1
    <2>2. SetOf(s) \subseteq {u[l] : l \in 1..k - 1}
      <3>1. \A l \in 1..Len(s) : l \in 1..k - 1
        BY <1>1, <1>6
      <3> QED
        BY <1>1, <1>2, <3>1 DEF SetOf
    <2>3. {t[l] : l \in 1..m - 1} \subseteq {u[l] : l \in 1..k - 1}
      <3>1. \A l \in 1..m - 1 : Len(s) + l \in 1..k - 1 /\ l \in 1..Len(t)
        BY <1>1, <2>1
      <3> QED
        BY <1>3, <3>1
    <2>4. Ready(t[m], (A \cup SetOf(s)) \cup {t[l] : l \in 1..m - 1})
      BY <1>1, <2>1 DEF Ordered
    <2>5. (A \cup SetOf(s)) \cup {t[l] : l \in 1..m - 1} \subseteq A \cup {u[l] : l \in 1..k - 1}
      BY <2>2, <2>3
    <2>6. u[k] = t[m]
      BY <1>3, <2>1
    <2> QED
      BY <2>4, <2>5, <2>6, ReadyMonotone
  <1> QED
    BY <1>1, <1>5, <1>6

LEMMA OrderedOne ==
    ASSUME NEW e, NEW A, Ready(e, A) PROVE Ordered(<<e>>, A)
  <1>1. DOMAIN <<e>> = {1} /\ <<e>>[1] = e
    OBVIOUS
  <1>2. A \subseteq A \cup {<<e>>[l] : l \in 1..1 - 1}
    OBVIOUS
  <1> QED
    BY <1>1, <1>2, ReadyMonotone DEF Ordered

LEMMA OrderedAppend ==
    ASSUME NEW S, NEW s \in Seq(S), NEW e \in S, NEW A, Ordered(s, A), Ready(e, A \cup SetOf(s))
    PROVE  Ordered(Append(s, e), A)
  <1>1. <<e>> \in Seq(S) /\ Append(s, e) = s \o <<e>>
    OBVIOUS
  <1>2. Ordered(<<e>>, A \cup SetOf(s))
    BY OrderedOne
  <1> QED
    BY <1>1, <1>2, OrderedConcat

LEMMA OrderedTail ==
    ASSUME NEW S, NEW s \in Seq(S), s # <<>>, NEW A, Ordered(s, A)
    PROVE  Ready(Head(s), A) /\ Ordered(Tail(s), A \cup {Head(s)})
  <1>1. /\ Len(s) \in Nat \ {0} /\ DOMAIN s = 1..Len(s) /\ Head(s) = s[1]
        /\ DOMAIN Tail(s) = 1..Len(s) - 1
        /\ \A i \in 1..Len(s) - 1 : Tail(s)[i] = s[i + 1]
    BY HeadTailProperties, EmptySeq
  <1>2. Ready(s[1], A)
    <2>1. A \cup {s[l] : l \in 1..1 - 1} = A
      OBVIOUS
    <2>2. 1 \in DOMAIN s
      BY <1>1
    <2> QED
      BY <2>1, <2>2 DEF Ordered
  <1>3. ASSUME NEW k \in 1..Len(s) - 1
        PROVE  Ready(Tail(s)[k], (A \cup {Head(s)}) \cup {Tail(s)[l] : l \in 1..k - 1})
    <2>1. k + 1 \in DOMAIN s /\ k + 1 - 1 = k
      BY <1>1
    <2>2. Ready(s[k + 1], A \cup {s[l] : l \in 1..k})
      BY <2>1 DEF Ordered
    <2>3. ASSUME NEW l \in 1..k PROVE s[l] \in {Head(s)} \cup {Tail(s)[n] : n \in 1..k - 1}
      <3>1. CASE l = 1
        BY <1>1, <3>1
      <3>2. CASE l # 1
        <4>1. l - 1 \in 1..k - 1 /\ l - 1 \in 1..Len(s) - 1 /\ l - 1 + 1 = l
          BY <1>1, <3>2
        <4>2. Tail(s)[l - 1] = s[l]
          BY <1>1, <4>1
        <4> QED
          BY <4>1, <4>2
      <3> QED
        BY <3>1, <3>2
    <2>4. A \cup {s[l] : l \in 1..k} \subseteq (A \cup {Head(s)}) \cup {Tail(s)[l] : l \in 1..k - 1}
      BY <2>3
    <2> QED
      BY <1>1, <2>2, <2>4, ReadyMonotone
  <1> QED
    BY <1>1, <1>2, <1>3 DEF Ordered

LEMMA OrderedPrefix ==
    ASSUME NEW S, NEW s \in Seq(S), NEW n \in 0..Len(s), NEW A, Ordered(s, A)
    PROVE  Ordered(SubSeq(s, 1, n), A)
  <1> DEFINE u == SubSeq(s, 1, n)
  <1>1. /\ DOMAIN u = 1..n /\ \A i \in 1..n : u[i] = s[i] /\ i \in DOMAIN s
    BY SetOfPrefix
  <1> HIDE DEF u
  <1>2. ASSUME NEW k \in 1..n PROVE Ready(u[k], A \cup {u[l] : l \in 1..k - 1})
    <2>1. {s[l] : l \in 1..k - 1} = {u[l] : l \in 1..k - 1}
      BY <1>1
    <2> QED
      BY <1>1, <2>1 DEF Ordered
  <1> QED
    BY <1>1, <1>2 DEF Ordered, u

-----------------------------------------------------------------------------
(* No frame overtakes an earlier one on its first arrival.  A message is a prompt   *)
(* once: PromptsDiffer is the assumption of the theorem, not of the lemmas but one. *)

PromptsDiffer == \A m, n \in DOMAIN Prompts : Prompts[m] = Prompts[n] => m = n

\* The frames that are not the script's are in order anywhere.
LEMMA OthersAreReady ==
    ASSUME NEW f \in Elem, NEW A, f = Beat \/ \E p \in Posts : f \in {RunError(p), Attached(p)}
    PROVE  Ready(f, A)
  <1>1. \A j \in 1..Total : Script(j)[1] \in Posts /\ Script(j)[2] \in 0..Last
    BY ScriptIsFrames
  <1>2. f[1] \notin Posts \/ f[2] \notin 0..Last
    BY RoutingAssumption DEF Beat, RunError, Attached
  <1> QED
    BY <1>1, <1>2 DEF Ready

LEMMA OrderInit == Init => OrderInv
  BY DEF Init, OrderInv, Ordered, Ready, Passed, Held, SetOf

LEMMA EmitterOrders ==
    ASSUME ChannelInv, OrderInv, PromptsDiffer,
           Emit \/ OffloadSucceeds \/ OffloadFails \/ Put \/ HeartbeatEmitted
    PROVE  OrderInv'
  <1> USE DEF OrderInv, senderVars, emitterVars, faultVars
  <1>1. CASE Emit
    <2>1. made + 1 \in 1..Total /\ hand' = Script(made + 1) /\ hand = None /\ chan # "stopped"
      BY <1>1, Elements DEF Emit, ChannelInv, Flags
    <2>2. UNCHANGED <<outbound, backlog, yielded, wire, rejected, chan, arrived, dropped>>
      BY <1>1 DEF Emit
    <2>3. Ready(Script(made + 1), Passed \cup Held)
      <3> SUFFICES ASSUME NEW j \in 1..Total, Script(made + 1) = Script(j), NEW i \in 1..j - 1
                   PROVE  Script(i) \in Passed \cup Held
        BY DEF Ready
      <3>1. j = made + 1
        BY <2>1, ScriptIsInjective DEF PromptsDiffer
      <3>2. i \in 1..made /\ i \in 1..Total
        BY <2>1, <3>1, Elements DEF ChannelInv, Flags
      <3>3. Script(i) # None
        BY <3>2, ScriptIsFrames, Elements
      <3> QED
        BY <2>1, <3>2, <3>3 DEF ChannelInv, Accounted
    <2> QED
      BY <2>1, <2>2, <2>3 DEF Passed, Held
  <1>2. ASSUME NEW f \in Elem, outbound' = Append(outbound, f),
               UNCHANGED <<backlog, yielded, wire, rejected, chan, arrived, dropped>>,
               Ready(f, Passed \cup Held)
        PROVE  /\ Ordered(outbound', Passed' \cup SetOf(yielded') \cup SetOf(backlog'))
               /\ Passed' = Passed /\ Held \subseteq Held' /\ f \in Held'
    <2>1. outbound \in Seq(Elem)
      BY DEF ChannelInv, Queues
    <2>2. SetOf(outbound') = SetOf(outbound) \cup {f}
      BY <1>2, <2>1, SetOfAppend
    <2>3. Passed' = Passed /\ Held \subseteq Held' /\ f \in Held'
      BY <1>2, <2>2 DEF Passed, Held
    <2>4. Ready(f, (Passed \cup SetOf(yielded) \cup SetOf(backlog)) \cup SetOf(outbound))
      BY <1>2, ReadyMonotone DEF Held
    <2>5. Ordered(outbound', Passed \cup SetOf(yielded) \cup SetOf(backlog))
      BY <1>2, <2>1, <2>4, OrderedAppend
    <2> QED
      BY <1>2, <2>3, <2>5
  <1>3. CASE OffloadSucceeds
    <2>1. hand \in Frames /\ hand # None /\ hand' = hand
      BY <1>3, Elements DEF OffloadSucceeds, ChannelInv, Flags, Attempts
    <2>2. hand[1] \in Posts /\ Attached(hand[1]) \in Elem
      BY <2>1, RoutingAssumption DEF Attached, Frames, Elem
    <2>3. Ready(Attached(hand[1]), Passed \cup Held)
      BY <2>2, OthersAreReady
    <2>4. outbound' = Append(outbound, Attached(hand[1]))
          /\ UNCHANGED <<backlog, yielded, wire, rejected, chan, arrived, dropped>>
      BY <1>3 DEF OffloadSucceeds
    <2>5. /\ Ordered(outbound', Passed' \cup SetOf(yielded') \cup SetOf(backlog'))
          /\ Passed' = Passed /\ Held \subseteq Held'
      BY <1>2, <2>2, <2>3, <2>4
    <2>6. Ready(hand', Passed' \cup Held')
      BY <2>1, <2>5, ReadyMonotone
    <2> QED
      BY <2>4, <2>5, <2>6
  <1>4. CASE OffloadFails
    <2>1. Passed \subseteq Passed' /\ hand' = None
      BY <1>4 DEF OffloadFails, Passed
    <2>2. UNCHANGED <<outbound, backlog, yielded, wire, rejected, chan, arrived>>
      BY <1>4 DEF OffloadFails
    <2> QED
      BY <2>1, <2>2, OrderedMonotone, ReadyMonotone
  <1>5. CASE Put
    <2>1. hand \in Elem /\ hand # None /\ hand' = None
      BY <1>5, Elements DEF Put, ChannelInv, Flags
    <2> QED
      BY <1>2, <1>5, <2>1 DEF Put
  <1>6. CASE HeartbeatEmitted
    <2>1. Beat \in Elem /\ Ready(Beat, Passed \cup Held)
      BY Elements, OthersAreReady
    <2>2. outbound' = Append(outbound, Beat) /\ hand' = hand
          /\ UNCHANGED <<backlog, yielded, wire, rejected, chan, arrived, dropped>>
      BY <1>6 DEF HeartbeatEmitted
    <2>3. /\ Ordered(outbound', Passed' \cup SetOf(yielded') \cup SetOf(backlog'))
          /\ Passed' = Passed /\ Held \subseteq Held'
      BY <1>2, <2>1, <2>2
    <2>4. hand' # None => Ready(hand', Passed' \cup Held')
      BY <2>2, <2>3, ReadyMonotone
    <2> QED
      BY <2>2, <2>3, <2>4
  <1> QED
    BY <1>1, <1>3, <1>4, <1>5, <1>6

LEMMA SenderOrders ==
    ASSUME ChannelInv, OrderInv, Open \/ YieldBacklog \/ YieldQueued PROVE OrderInv'
  <1> USE DEF OrderInv, senderVars, emitterVars, faultVars
  <1>1. /\ outbound \in Seq(Elem) /\ backlog \in Seq(Elem)
        /\ yielded \in Seq(Elem) /\ wire \in Seq(Elem)
    BY DEF ChannelInv, Queues
  <1>2. CASE Open
    <2>1. /\ yielded = <<>> /\ yielded' = <<>>
          /\ UNCHANGED <<outbound, backlog, wire, hand, arrived, dropped>>
      BY <1>2 DEF Open, ChannelInv, Attempts
    <2> QED
      BY <2>1, Elements DEF Passed, Held
  <1>3. ASSUME NEW f \in Elem, Hands(f), Ready(f, Passed \cup SetOf(yielded))
        PROVE  /\ Ordered(yielded', Passed) /\ Ordered(wire', Passed)
               /\ SetOf(yielded') = SetOf(yielded) \cup {f}
               /\ chan' = "open" /\ ~rejected' => SetOf(yielded') \subseteq Passed \cup SetOf(wire')
               /\ Passed' = Passed /\ UNCHANGED <<hand, arrived>>
    <2>1. /\ chan = "open" /\ UNCHANGED <<rejected, chan, arrived, dropped, hand>>
          /\ yielded' = Append(yielded, f)
          /\ wire' = IF rejected THEN wire ELSE Append(wire, f)
      BY <1>3 DEF Hands
    <2>2. Ordered(yielded', Passed) /\ SetOf(yielded') = SetOf(yielded) \cup {f}
      BY <1>1, <1>3, <2>1, OrderedAppend, SetOfAppend
    <2>3. CASE rejected
      BY <2>1, <2>2, <2>3 DEF Passed
    <2>4. CASE ~rejected
      <3>1. Passed \cup SetOf(yielded) \subseteq Passed \cup SetOf(wire)
        BY <2>1, <2>4
      <3>2. Ready(f, Passed \cup SetOf(wire))
        BY <1>3, <3>1, ReadyMonotone
      <3>3. Ordered(wire', Passed) /\ SetOf(wire') = SetOf(wire) \cup {f}
        BY <1>1, <2>1, <2>4, <3>2, OrderedAppend, SetOfAppend
      <3> QED
        BY <2>1, <2>2, <3>1, <3>3 DEF Passed
    <2> QED
      BY <2>3, <2>4
  <1>4. CASE YieldBacklog
    <2> DEFINE f == Head(backlog)
    <2>1. /\ f \in Elem /\ Tail(backlog) \in Seq(Elem)
          /\ SetOf(backlog) = SetOf(Tail(backlog)) \cup {f}
          /\ Ready(f, Passed \cup SetOf(yielded))
          /\ Ordered(Tail(backlog), (Passed \cup SetOf(yielded)) \cup {f})
      BY <1>1, <1>4, SetOfTail, OrderedTail DEF YieldBacklog
    <2>2. Hands(f) /\ backlog' = Tail(backlog) /\ outbound' = outbound
      BY <1>4 DEF YieldBacklog
    <2> HIDE DEF f
    <2>3. /\ Ordered(yielded', Passed) /\ Ordered(wire', Passed)
          /\ SetOf(yielded') = SetOf(yielded) \cup {f}
          /\ chan' = "open" /\ ~rejected' => SetOf(yielded') \subseteq Passed \cup SetOf(wire')
          /\ Passed' = Passed /\ UNCHANGED <<hand, arrived>>
      BY <1>3, <2>1, <2>2
    <2>4. /\ (Passed \cup SetOf(yielded)) \cup {f} = Passed' \cup SetOf(yielded')
          /\ Passed' \cup SetOf(yielded') \cup SetOf(backlog') = Passed \cup SetOf(yielded) \cup SetOf(backlog)
          /\ Held' = Held
      BY <2>1, <2>2, <2>3 DEF Held
    <2> QED
      BY <2>1, <2>2, <2>3, <2>4
  <1>5. CASE YieldQueued
    <2> DEFINE f == Head(outbound)
    <2>1. backlog = <<>> /\ SetOf(backlog) = {}
      BY <1>5, Elements DEF YieldQueued
    <2>2. Passed \cup SetOf(yielded) \cup SetOf(backlog) = Passed \cup SetOf(yielded)
      BY <2>1
    <2>3. /\ f \in Elem /\ Tail(outbound) \in Seq(Elem)
          /\ SetOf(outbound) = SetOf(Tail(outbound)) \cup {f}
          /\ Ready(f, Passed \cup SetOf(yielded))
          /\ Ordered(Tail(outbound), (Passed \cup SetOf(yielded)) \cup {f})
      BY <1>1, <1>5, <2>2, SetOfTail, OrderedTail DEF YieldQueued
    <2>4. Hands(f) /\ outbound' = Tail(outbound) /\ backlog' = backlog
      BY <1>5 DEF YieldQueued
    <2> HIDE DEF f
    <2>5. /\ Ordered(yielded', Passed) /\ Ordered(wire', Passed)
          /\ SetOf(yielded') = SetOf(yielded) \cup {f}
          /\ chan' = "open" /\ ~rejected' => SetOf(yielded') \subseteq Passed \cup SetOf(wire')
          /\ Passed' = Passed /\ UNCHANGED <<hand, arrived>>
      BY <1>3, <2>3, <2>4
    <2>6. /\ Passed' \cup SetOf(yielded') \cup SetOf(backlog') = (Passed \cup SetOf(yielded)) \cup {f}
          /\ Held' = Held
      BY <2>1, <2>3, <2>4, <2>5 DEF Held
    <2>7. Ordered(backlog', Passed' \cup SetOf(yielded'))
      BY <2>1, <2>4 DEF Ordered
    <2> QED
      BY <2>3, <2>4, <2>5, <2>6, <2>7
  <1> QED
    BY <1>2, <1>4, <1>5

LEMMA CutOrders ==
    ASSUME ChannelInv, OrderInv, Cut PROVE Ordered(wire', Passed)
  BY OrderedPrefix DEF ChannelInv, Queues, OrderInv, Cut

LEMMA EmptyIsOrdered == \A A : Ordered(<<>>, A)
  BY DEF Ordered

LEMMA BreakOrders ==
    ASSUME ChannelInv, OrderInv, ConnectionFails \/ Stop PROVE OrderInv'
  <1> USE DEF OrderInv, emitterVars
  <1>1. /\ outbound \in Seq(Elem) /\ backlog \in Seq(Elem) /\ yielded \in Seq(Elem)
    BY DEF ChannelInv, Queues
  <1>2. CASE ConnectionFails
    <2> DEFINE replayed == yielded \o backlog
    <2>1. /\ backlog' = replayed \o outbound /\ yielded' = <<>> /\ outbound' = <<>> /\ Cut
          /\ chan' = "down" /\ UNCHANGED <<hand, arrived, dropped>>
      BY <1>2 DEF ConnectionFails
    <2>2. /\ replayed \in Seq(Elem) /\ SetOf(replayed) = SetOf(yielded) \cup SetOf(backlog)
          /\ Ordered(replayed, Passed)
      BY <1>1, SetOfConcat, OrderedConcat
    <2> HIDE DEF replayed
    <2>3. Passed \cup SetOf(yielded) \cup SetOf(backlog) = Passed \cup SetOf(replayed)
      BY <2>2
    <2>4. SetOf(backlog') = SetOf(replayed) \cup SetOf(outbound) /\ Ordered(backlog', Passed)
      <3>1. Ordered(outbound, Passed \cup SetOf(replayed))
        BY <2>3
      <3>2. Ordered(replayed \o outbound, Passed)
        BY <1>1, <2>2, <3>1, OrderedConcat
      <3> QED
        BY <1>1, <2>1, <2>2, <3>2, SetOfConcat
    <2>5. /\ Passed' = Passed /\ Held' = Held
          /\ Passed' \cup SetOf(yielded') = Passed
      BY <2>1, <2>2, <2>4, Elements DEF Passed, Held
    <2> QED
      BY <2>1, <2>4, <2>5, CutOrders, EmptyIsOrdered
  <1>3. CASE Stop
    <2>1. /\ outbound' = <<>> /\ backlog' = <<>> /\ yielded' = <<>> /\ hand' = None /\ Cut
          /\ chan' = "stopped" /\ UNCHANGED <<arrived, dropped>>
      BY <1>3 DEF Stop
    <2> QED
      BY <2>1, CutOrders, EmptyIsOrdered DEF Passed
  <1> QED
    BY <1>2, <1>3

LEMMA RefusalOrders ==
    ASSUME ChannelInv, OrderInv, RefusalSeen PROVE OrderInv'
  <1> USE DEF OrderInv, emitterVars
  <1> DEFINE offender == yielded[Len(yielded)]
             accepted == SubSeq(yielded, 1, Len(yielded) - 1)
             error == RunError(Script(made)[1])
             errors == IF offender[2] \in {Last, Last + 1} THEN <<>> ELSE <<error>>
             kept == accepted \o backlog
             replayed == kept \o errors
  <1>1. /\ dropped' = dropped \cup {offender}
        /\ backlog' = replayed \o outbound /\ yielded' = <<>> /\ outbound' = <<>> /\ wire' = <<>>
        /\ chan = "open" /\ rejected /\ chan' = "down" /\ UNCHANGED <<hand, arrived>>
    BY DEF RefusalSeen
  <1>2. /\ outbound \in Seq(Elem) /\ backlog \in Seq(Elem) /\ yielded \in Seq(Elem) /\ yielded # <<>>
        /\ made \in 1..Total
    BY <1>1, Elements DEF ChannelInv, Queues, Flags, Attempts
  <1>3. errors \in Seq(Elem) /\ \A A : Ordered(errors, A)
    <2>1. Script(made)[1] \in Posts /\ error \in Elem
      BY <1>2, ScriptIsFrames, RoutingAssumption DEF RunError, Frames, Elem
    <2>2. \A A : Ready(error, A)
      BY <2>1, OthersAreReady
    <2> HIDE DEF error
    <2> QED
      BY <2>1, <2>2, OrderedOne, EmptyIsOrdered
  <1>4. /\ offender \in Elem /\ accepted \in Seq(Elem) /\ Ordered(accepted, Passed)
        /\ SetOf(yielded) = SetOf(accepted) \cup {offender}
    <2>1. Len(yielded) - 1 \in 0..Len(yielded)
      BY <1>2, EmptySeq
    <2> QED
      BY <1>2, <2>1, SetOfFront, OrderedPrefix
  <1> HIDE DEF offender, accepted, error, errors
  <1>5. Passed' = Passed \cup {offender}
    BY <1>1 DEF Passed
  <1>6. /\ kept \in Seq(Elem) /\ SetOf(kept) = SetOf(accepted) \cup SetOf(backlog)
        /\ Ordered(kept, Passed')
    <2>1. Ordered(accepted, Passed')
      BY <1>4, <1>5, OrderedMonotone
    <2>2. Passed \cup SetOf(yielded) \subseteq Passed' \cup SetOf(accepted)
      BY <1>4, <1>5
    <2>3. Ordered(backlog, Passed' \cup SetOf(accepted))
      BY <2>2, OrderedMonotone
    <2> QED
      BY <1>2, <1>4, <2>1, <2>3, SetOfConcat, OrderedConcat
  <1> HIDE DEF kept
  <1>7. /\ replayed \in Seq(Elem) /\ SetOf(replayed) = SetOf(kept) \cup SetOf(errors)
        /\ Ordered(replayed, Passed')
    <2>1. Ordered(errors, Passed' \cup SetOf(kept))
      BY <1>3
    <2>2. Ordered(kept \o errors, Passed')
      BY <1>3, <1>6, <2>1, OrderedConcat
    <2> QED
      BY <1>3, <1>6, <2>2, SetOfConcat
  <1> HIDE DEF replayed
  <1>8. SetOf(backlog') = SetOf(replayed) \cup SetOf(outbound) /\ Ordered(backlog', Passed')
    <2>1. Passed \cup SetOf(yielded) \cup SetOf(backlog) \subseteq Passed' \cup SetOf(replayed)
      BY <1>4, <1>5, <1>6, <1>7
    <2>2. Ordered(outbound, Passed' \cup SetOf(replayed))
      BY <2>1, OrderedMonotone
    <2>3. outbound \in Seq(Elem) /\ replayed \in Seq(Elem) /\ Ordered(replayed, Passed')
      BY <1>2, <1>7
    <2> HIDE DEF OrderInv
    <2>4. Ordered(replayed \o outbound, Passed')
      BY ONLY <2>2, <2>3, OrderedConcat
    <2>5. SetOf(replayed \o outbound) = SetOf(replayed) \cup SetOf(outbound)
      BY ONLY <2>3, SetOfConcat
    <2> QED
      BY <1>1, <2>4, <2>5
  <1>9. Passed' \cup SetOf(yielded') = Passed' /\ Passed \cup Held \subseteq Passed' \cup Held'
    BY <1>1, <1>4, <1>5, <1>6, <1>7, <1>8, Elements DEF Held
  <1>10. hand' # None => Ready(hand', Passed' \cup Held')
    BY <1>1, <1>9, ReadyMonotone
  <1>11. \A f \in arrived' : Ready(f, Passed')
    BY <1>1, <1>5, ReadyMonotone
  <1> QED
    BY <1>1, <1>8, <1>9, <1>10, <1>11, EmptyIsOrdered

LEMMA ServerOrders ==
    ASSUME ChannelInv, OrderInv, ServerReads \/ ServerRejects PROVE OrderInv'
  <1> USE DEF OrderInv, emitterVars
  <1>1. CASE ServerReads
    <2> DEFINE f == Head(wire)
    <2>1. /\ wire # <<>> /\ wire' = Tail(wire) /\ arrived' = arrived \cup {f} /\ wire \in Seq(Elem)
          /\ UNCHANGED <<outbound, backlog, yielded, hand, rejected, chan, dropped>>
      BY <1>1 DEF ServerReads, ChannelInv, Queues
    <2>2. /\ SetOf(wire) = SetOf(Tail(wire)) \cup {f}
          /\ Ready(f, Passed) /\ Ordered(Tail(wire), Passed \cup {f})
      BY <2>1, SetOfTail, OrderedTail
    <2> HIDE DEF f
    <2>3. Passed' = Passed \cup {f} /\ Held' = Held
      BY <2>1 DEF Passed, Held
    <2>4. /\ Ordered(yielded, Passed') /\ Ordered(backlog, Passed' \cup SetOf(yielded))
          /\ Ordered(outbound, Passed' \cup SetOf(yielded) \cup SetOf(backlog))
      BY <2>3, OrderedMonotone
    <2>5. hand # None => Ready(hand, Passed' \cup Held)
      BY <2>3, ReadyMonotone
    <2>6. \A e \in arrived' : Ready(e, Passed')
      BY <2>1, <2>2, <2>3, ReadyMonotone
    <2> QED
      BY <2>1, <2>2, <2>3, <2>4, <2>5, <2>6
  <1>2. CASE ServerRejects
    <2>1. /\ wire' = <<>> /\ rejected' = (chan = "open")
          /\ UNCHANGED <<outbound, backlog, yielded, hand, chan, arrived, dropped>>
      BY <1>2 DEF ServerRejects
    <2> QED
      BY <2>1, EmptyIsOrdered DEF Passed, Held
  <1> QED
    BY <1>1, <1>2

LEMMA OrderStep ==
    ASSUME PromptsDiffer PROVE ChannelInv /\ OrderInv /\ [Next]_vars => OrderInv'
  <1> SUFFICES ASSUME ChannelInv, OrderInv, [Next]_vars PROVE OrderInv'
    OBVIOUS
  <1>1. CASE UNCHANGED vars
    BY <1>1 DEF vars, senderVars, emitterVars, faultVars, OrderInv, Passed, Held
  <1>2. CASE Next
    BY <1>2, EmitterOrders, SenderOrders, BreakOrders, RefusalOrders, ServerOrders DEF Next
  <1> QED
    BY <1>1, <1>2

-----------------------------------------------------------------------------
(* What follows. *)

\* The types of the channel's parts, the bound of the queue included.
THEOREM ChannelTyped == Spec => []ChannelTypeOK
  <1>1. ChannelInv => ChannelTypeOK
    BY DEF ChannelInv, Flags, Queues, ChannelTypeOK, Elem
  <1> QED
    BY <1>1, ChannelInvariant, PTL

\* Whatever breaks and is refused, a frame given to emit has arrived, was dropped with
\* a log entry, or is still in the channel's hands (_stream_outbound).
THEOREM FramesAreAccountedFor == Spec => []NothingLostSilently
  <1>1. ChannelInv => NothingLostSilently
    <2> SUFFICES ASSUME ChannelInv PROVE NothingLostSilently
      OBVIOUS
    <2> DEFINE line == outbound \o backlog
    <2>1. line \in Seq(Elem) /\ SetOf(line) = SetOf(outbound) \cup SetOf(backlog)
      BY SetOfConcat DEF ChannelInv, Queues
    <2> HIDE DEF line
    <2>2. SetOf(line \o yielded) = Held
      BY <2>1, SetOfConcat DEF ChannelInv, Queues, Held
    <2> QED
      BY <2>2 DEF line, ChannelInv, Accounted, Passed, NothingLostSilently
  <1> QED
    BY <1>1, ChannelInvariant, PTL

\* If no message is a prompt twice, replays keep the order of first arrivals: a frame
\* arrives only after all those before it that were not dropped (pending_after_break).
THEOREM ArrivalsInOrder ==
    ASSUME PromptsDiffer PROVE Spec => []FirstArrivalsInOrder
  <1>1. ChannelInv /\ OrderInv => FirstArrivalsInOrder
    <2> SUFFICES ASSUME ChannelInv, OrderInv, NEW i \in 1..made, NEW j \in 1..made,
                        i < j, Script(j) \in arrived
                 PROVE  Script(i) \in arrived \cup dropped
      BY DEF FirstArrivalsInOrder
    <2>1. j \in 1..Total /\ i \in 1..j - 1
      BY Elements DEF ChannelInv, Flags
    <2> QED
      BY <2>1 DEF OrderInv, Ready, Passed
  <1> QED
    BY <1>1, ChannelInvariant, OrderInit, OrderStep, PTL DEF Spec
-----------------------------------------------------------------------------
(* Replays stay in their run's ring. *)

\* A frame that goes to the active run; and one that leaves the run of p active, if it
\* is not the RUN_ERROR after which nothing is claimed any more.
Inner(f) == f[2] \in (1..Last - 1) \cup {Last + 2}
Quiet(f, p) == f = Beat \/ f[2] = Last + 1 \/ (Inner(f) /\ f[1] = p)

\* After the first n frames of s the run of p is under way.
LeavesOpen(s, n, p) == \E l \in 1..n : s[l] = <<p, 0>> /\ \A m \in l + 1..n : Quiet(s[m], p)

\* Every inner frame of s comes in its own run.
Fit(s) == \A k \in 1..Len(s) : Inner(s[k]) => LeavesOpen(s, k - 1, s[k][1])

\* The channel as one line, whose beginning is that of the script: every attempt starts there.
InHand == IF hand = None THEN <<>> ELSE <<hand>>
Body == (yielded \o backlog) \o outbound
Line == Body \o InHand

LineInv ==
    /\ Fit(Line)
    /\ chan # "stopped" /\ made # 0 /\ Script(made)[2] # Last =>
        LeavesOpen(Line, Len(Line), Script(made)[1])
    /\ offloaded \subseteq Oversize /\ (uploading => hand \in Oversize)

\* What the ingress has read of an attempt, and the wire, are what the attempt wrote; the
\* run that the part it has read leaves open is the active one.
Reading(read) ==
    /\ read \in Seq(Elem)
    /\ Fit(read \o wire)
    /\ \A p \in Posts : LeavesOpen(read, Len(read), p) => active = RunOf[p]
    /\ chan = "open" /\ ~rejected => yielded = read \o wire

IngressInv ==
    /\ active \in Runs \cup {None} /\ pending = <<>>
    /\ events \in [Runs -> Seq(Frames)]
    /\ \A r \in Runs : \A i \in 1..Len(events[r]) : RunOf[events[r][i][1]] = r

\* OwnRing's exceptions: for good once they are there.
Excused ==
    \/ \E p \in Posts : <<p, 0>> \in dropped
    \/ \E p \in Posts : RunError(p) \in arrived

OwnInv == Excused \/ (LineInv /\ (\E read \in Seq(Elem) : Reading(read)) /\ IngressInv)

(* Frames and lines of frames. *)

LEMMA ElemIs ==
    ASSUME NEW f \in Elem
    PROVE  /\ f = Beat \/ (f \in Frames /\ f[1] \in Posts /\ f[2] \in 0..Last + 2 /\ f = <<f[1], f[2]>>)
           /\ \A p \in Posts : f = <<p, 0>> => f # Beat /\ f[1] = p /\ f[2] = 0
           /\ Inner(f) => f # Beat /\ f[2] \notin {0, Last, Last + 1}
           /\ \A p \in Posts : Quiet(f, p) => f # <<p, 0>> /\ f[2] # Last
           /\ Last \in Nat \ {0}
  BY RoutingAssumption DEF Elem, Frames, Beat, Inner, Quiet

LEMMA OpenDepends ==
    ASSUME NEW s, NEW t, NEW n \in Nat, \A i \in 1..n : s[i] = t[i], NEW p, LeavesOpen(s, n, p)
    PROVE  LeavesOpen(t, n, p)
  <1>1. PICK l \in 1..n : s[l] = <<p, 0>> /\ \A m \in l + 1..n : Quiet(s[m], p)
    BY DEF LeavesOpen
  <1>2. \A m \in l + 1..n : m \in 1..n
    OBVIOUS
  <1>3. t[l] = <<p, 0>> /\ \A m \in l + 1..n : Quiet(t[m], p)
    BY <1>1, <1>2
  <1> QED
    BY <1>3 DEF LeavesOpen

LEMMA FitPrefix ==
    ASSUME NEW s \in Seq(Elem), NEW t \in Seq(Elem), Fit(s), Len(t) <= Len(s),
           \A i \in 1..Len(t) : t[i] = s[i]
    PROVE  Fit(t)
  <1> SUFFICES ASSUME NEW k \in 1..Len(t), Inner(t[k]) PROVE LeavesOpen(t, k - 1, t[k][1])
    BY DEF Fit
  <1>1. k \in 1..Len(s) /\ t[k] = s[k] /\ k - 1 \in Nat /\ \A i \in 1..k - 1 : s[i] = t[i]
    OBVIOUS
  <1>2. LeavesOpen(s, k - 1, t[k][1])
    BY <1>1 DEF Fit
  <1> QED
    BY <1>1, <1>2, OpenDepends

\* One frame more at the end.
LEMMA OneMore ==
    ASSUME NEW s \in Seq(Elem), NEW f \in Elem, NEW t, t = s \o <<f>>
    PROVE  /\ t \in Seq(Elem) /\ Len(s) \in Nat /\ Len(t) = Len(s) + 1
           /\ \A i \in 1..Len(s) : t[i] = s[i]
           /\ t[Len(t)] = f
  <1>1. <<f>> \in Seq(Elem) /\ Len(<<f>>) = 1 /\ <<f>>[1] = f
    OBVIOUS
  <1>2. /\ t \in Seq(Elem) /\ Len(t) = Len(s) + 1
        /\ \A i \in 1..Len(s) + 1 : t[i] = IF i <= Len(s) THEN s[i] ELSE <<f>>[i - Len(s)]
    BY <1>1, ConcatProperties
  <1> QED
    BY <1>1, <1>2

LEMMA FitOneMore ==
    ASSUME NEW s \in Seq(Elem), Fit(s), NEW f \in Elem, Inner(f) => LeavesOpen(s, Len(s), f[1])
    PROVE  Fit(s \o <<f>>)
  <1> DEFINE t == s \o <<f>>
  <1>1. /\ t \in Seq(Elem) /\ Len(s) \in Nat /\ Len(t) = Len(s) + 1
        /\ \A i \in 1..Len(s) : t[i] = s[i]
        /\ t[Len(t)] = f
    BY OneMore
  <1> HIDE DEF t
  <1>2. ASSUME NEW k \in 1..Len(t), Inner(t[k]) PROVE LeavesOpen(t, k - 1, t[k][1])
    <2>1. k - 1 \in Nat /\ \A i \in 1..k - 1 : s[i] = t[i]
      BY <1>1
    <2>2. LeavesOpen(s, k - 1, t[k][1])
      BY <1>1, <1>2 DEF Fit
    <2> QED
      BY <2>1, <2>2, OpenDepends
  <1>3. Fit(t)
    BY <1>2 DEF Fit
  <1> QED
    BY <1>3 DEF t

\* What is open after one frame more.
LEMMA OpenOneMore ==
    ASSUME NEW s \in Seq(Elem), NEW f \in Elem, NEW p \in Posts
    PROVE  LET t == s \o <<f>>
           IN  LeavesOpen(t, Len(t), p) <=> f = <<p, 0>> \/ (Quiet(f, p) /\ LeavesOpen(s, Len(s), p))
  <1> DEFINE t == s \o <<f>>
  <1>1. /\ t \in Seq(Elem) /\ Len(s) \in Nat /\ Len(t) = Len(s) + 1
        /\ \A i \in 1..Len(s) : t[i] = s[i]
        /\ t[Len(t)] = f
    BY OneMore
  <1> HIDE DEF t
  <1>2. ASSUME f = <<p, 0>> PROVE LeavesOpen(t, Len(t), p)
    BY <1>1, <1>2 DEF LeavesOpen
  <1>3. ASSUME Quiet(f, p), LeavesOpen(s, Len(s), p) PROVE LeavesOpen(t, Len(t), p)
    <2>1. PICK l \in 1..Len(s) : s[l] = <<p, 0>> /\ \A m \in l + 1..Len(s) : Quiet(s[m], p)
      BY <1>3 DEF LeavesOpen
    <2>2. l \in 1..Len(t) /\ t[l] = <<p, 0>>
      BY <1>1, <2>1
    <2>3. ASSUME NEW m \in l + 1..Len(t) PROVE Quiet(t[m], p)
      <3>1. CASE m = Len(t)
        BY <1>1, <1>3, <3>1
      <3>2. CASE m # Len(t)
        <4>1. m \in l + 1..Len(s) /\ m \in 1..Len(s)
          BY <1>1, <3>2
        <4> QED
          BY <1>1, <2>1, <4>1
      <3> QED
        BY <3>1, <3>2
    <2> QED
      BY <2>2, <2>3 DEF LeavesOpen
  <1>4. ASSUME LeavesOpen(t, Len(t), p), f # <<p, 0>> PROVE Quiet(f, p) /\ LeavesOpen(s, Len(s), p)
    <2>1. PICK l \in 1..Len(t) : t[l] = <<p, 0>> /\ \A m \in l + 1..Len(t) : Quiet(t[m], p)
      BY <1>4 DEF LeavesOpen
    <2>2. l # Len(t)
      BY <1>1, <1>4, <2>1
    <2>5. l \in 1..Len(s) /\ Len(t) \in l + 1..Len(t)
      BY <1>1, <2>1, <2>2
    <2>3. \A m \in l + 1..Len(s) : m \in l + 1..Len(t) /\ m \in 1..Len(s)
      BY <1>1
    <2>4. s[l] = <<p, 0>> /\ \A m \in l + 1..Len(s) : Quiet(s[m], p)
      BY <1>1, <2>1, <2>5, <2>3
    <2> QED
      BY <1>1, <2>1, <2>5, <2>4 DEF LeavesOpen
  <1>5. LeavesOpen(t, Len(t), p) <=> f = <<p, 0>> \/ (Quiet(f, p) /\ LeavesOpen(s, Len(s), p))
    BY <1>2, <1>3, <1>4
  <1> QED
    BY <1>5 DEF t

\* t is s with f put in after the first c frames.
Inserted(s, c, f, t) ==
    /\ c \in 0..Len(s) /\ Len(t) = Len(s) + 1
    /\ \A i \in 1..c : t[i] = s[i]
    /\ t[c + 1] = f
    /\ \A i \in c + 1..Len(s) : t[i + 1] = s[i]

\* A frame put in that opens and ends no run.
LEMMA OpenInserted ==
    ASSUME NEW s \in Seq(Elem), NEW t \in Seq(Elem), NEW c, NEW f, Inserted(s, c, f, t),
           f = Beat \/ f[2] = Last + 1, NEW n \in c..Len(s), NEW p, LeavesOpen(s, n, p)
    PROVE  LeavesOpen(t, n + 1, p)
  <1>1. Len(s) \in Nat /\ c \in Nat /\ n \in Nat
    BY DEF Inserted
  <1>2. PICK l \in 1..n : s[l] = <<p, 0>> /\ \A m \in l + 1..n : Quiet(s[m], p)
    BY DEF LeavesOpen
  <1>3. Quiet(f, p)
    BY DEF Quiet
  <1> DEFINE k == IF l <= c THEN l ELSE l + 1
  <1>4. k \in 1..n + 1 /\ t[k] = <<p, 0>>
    BY <1>1, <1>2 DEF Inserted
  <1>5. ASSUME NEW m \in k + 1..n + 1 PROVE Quiet(t[m], p)
    <2>1. CASE m <= c
      <3>1. m \in l + 1..n /\ m \in 1..c
        BY <1>1, <2>1
      <3> QED
        BY <1>2, <3>1 DEF Inserted
    <2>2. CASE m = c + 1
      BY <1>3, <2>2 DEF Inserted
    <2>3. CASE m > c + 1
      <3>1. m - 1 \in l + 1..n /\ m - 1 \in c + 1..Len(s) /\ (m - 1) + 1 = m
        BY <1>1, <2>3
      <3> QED
        BY <1>2, <3>1 DEF Inserted
    <2> QED
      BY <1>1, <2>1, <2>2, <2>3
  <1> QED
    BY <1>4, <1>5 DEF LeavesOpen

LEMMA FitInserted ==
    ASSUME NEW s \in Seq(Elem), NEW t \in Seq(Elem), NEW c, NEW f, Inserted(s, c, f, t),
           f = Beat \/ f[2] = Last + 1, Fit(s)
    PROVE  Fit(t)
  <1>1. Len(s) \in Nat /\ c \in Nat /\ c <= Len(s) /\ Len(t) = Len(s) + 1
    BY DEF Inserted
  <1>2. ~Inner(f)
    BY RoutingAssumption DEF Inner, Beat
  <1> SUFFICES ASSUME NEW k \in 1..Len(t), Inner(t[k]) PROVE LeavesOpen(t, k - 1, t[k][1])
    BY DEF Fit
  <1>3. CASE k <= c
    <2>1. k \in 1..c /\ k \in 1..Len(s) /\ k - 1 \in Nat /\ \A i \in 1..k - 1 : i \in 1..c
      BY <1>1, <1>3
    <2>2. t[k] = s[k] /\ \A i \in 1..k - 1 : s[i] = t[i]
      BY <2>1 DEF Inserted
    <2>3. LeavesOpen(s, k - 1, t[k][1])
      BY <2>1, <2>2 DEF Fit
    <2> QED
      BY <2>1, <2>2, <2>3, OpenDepends
  <1>4. CASE k = c + 1
    BY <1>2, <1>4 DEF Inserted
  <1>5. CASE k > c + 1
    <2>1. k - 1 \in c + 1..Len(s) /\ k - 1 \in 1..Len(s) /\ (k - 1) + 1 = k
      BY <1>1, <1>5
    <2>2. t[k] = s[k - 1]
      BY <2>1 DEF Inserted
    <2>3. LeavesOpen(s, (k - 1) - 1, t[k][1])
      BY <2>1, <2>2 DEF Fit
    <2>4. (k - 1) - 1 \in c..Len(s) /\ ((k - 1) - 1) + 1 = k - 1
      BY <1>1, <2>1
    <2> HIDE DEF Inserted
    <2>5. LeavesOpen(t, ((k - 1) - 1) + 1, t[k][1])
      BY <2>3, <2>4, OpenInserted
    <2> QED
      BY <2>4, <2>5
  <1> QED
    BY <1>1, <1>3, <1>4, <1>5

\* The same the other way round: a frame taken out that opens no run.
LEMMA OpenTakenOut ==
    ASSUME NEW s \in Seq(Elem), NEW t \in Seq(Elem), NEW c, NEW f, Inserted(s, c, f, t),
           NEW n \in c..Len(s), NEW p, f # <<p, 0>>, LeavesOpen(t, n + 1, p)
    PROVE  LeavesOpen(s, n, p)
  <1>1. Len(s) \in Nat /\ c \in Nat /\ n \in Nat
    BY DEF Inserted
  <1>2. PICK l \in 1..n + 1 : t[l] = <<p, 0>> /\ \A m \in l + 1..n + 1 : Quiet(t[m], p)
    BY DEF LeavesOpen
  <1>3. l # c + 1
    BY <1>2 DEF Inserted
  <1> DEFINE k == IF l <= c THEN l ELSE l - 1
  <1>4. k \in 1..n /\ s[k] = <<p, 0>>
    <2>1. CASE l <= c
      BY <1>1, <1>2, <2>1 DEF Inserted
    <2>2. CASE l > c + 1
      <3>1. l - 1 \in c + 1..Len(s) /\ (l - 1) + 1 = l /\ l - 1 \in 1..n
        BY <1>1, <1>2, <2>2
      <3> QED
        BY <1>1, <1>2, <2>2, <3>1 DEF Inserted
    <2> QED
      BY <1>1, <1>3, <2>1, <2>2
  <1>5. ASSUME NEW m \in k + 1..n PROVE Quiet(s[m], p)
    <2>1. CASE m <= c
      <3>1. m \in l + 1..n + 1 /\ m \in 1..c
        BY <1>1, <2>1
      <3> QED
        BY <1>2, <3>1 DEF Inserted
    <2>2. CASE m > c
      <3>1. m + 1 \in l + 1..n + 1 /\ m \in c + 1..Len(s)
        BY <1>1, <2>2
      <3> QED
        BY <1>2, <3>1 DEF Inserted
    <2> QED
      BY <1>1, <2>1, <2>2
  <1> QED
    BY <1>4, <1>5 DEF LeavesOpen

LEMMA FitTakenOut ==
    ASSUME NEW s \in Seq(Elem), NEW t \in Seq(Elem), NEW c, NEW f, Inserted(s, c, f, t),
           \A p \in Posts : f # <<p, 0>>, Fit(t)
    PROVE  Fit(s)
  <1>1. Len(s) \in Nat /\ c \in Nat /\ c <= Len(s) /\ Len(t) = Len(s) + 1
    BY DEF Inserted
  <1> SUFFICES ASSUME NEW k \in 1..Len(s), Inner(s[k]) PROVE LeavesOpen(s, k - 1, s[k][1])
    BY DEF Fit
  <1>2. s[k][1] \in Posts
    <2>1. s[k] \in Elem
      OBVIOUS
    <2> QED
      BY <2>1, ElemIs
  <1>3. CASE k <= c
    <2>1. k \in 1..c /\ k \in 1..Len(t) /\ k - 1 \in Nat /\ \A i \in 1..k - 1 : i \in 1..c
      BY <1>1, <1>3
    <2>2. t[k] = s[k] /\ \A i \in 1..k - 1 : t[i] = s[i]
      BY <2>1 DEF Inserted
    <2>3. LeavesOpen(t, k - 1, s[k][1])
      BY <2>1, <2>2 DEF Fit
    <2> QED
      BY <2>1, <2>2, <2>3, OpenDepends
  <1>4. CASE k > c
    <2>1. k \in c + 1..Len(s) /\ k + 1 \in 1..Len(t) /\ (k + 1) - 1 = k
          /\ k - 1 \in c..Len(s) /\ (k - 1) + 1 = k
      BY <1>1, <1>4
    <2>2. t[k + 1] = s[k]
      BY <2>1 DEF Inserted
    <2>3. LeavesOpen(t, (k - 1) + 1, s[k][1])
      BY <2>1, <2>2 DEF Fit
    <2> QED
      BY <1>2, <2>1, <2>3, OpenTakenOut
  <1> QED
    BY <1>1, <1>3, <1>4

\* Between two sequences.
LEMMA InsertedBetween ==
    ASSUME NEW a \in Seq(Elem), NEW b \in Seq(Elem), NEW f \in Elem
    PROVE  /\ a \o b \in Seq(Elem) /\ (a \o <<f>>) \o b \in Seq(Elem)
           /\ Inserted(a \o b, Len(a), f, (a \o <<f>>) \o b)
  <1> DEFINE c == a \o <<f>>  s == a \o b  t == c \o b
  <1>1. /\ c \in Seq(Elem) /\ Len(a) \in Nat /\ Len(c) = Len(a) + 1
        /\ \A i \in 1..Len(a) : c[i] = a[i]
        /\ c[Len(c)] = f
    BY OneMore
  <1>2. /\ s \in Seq(Elem) /\ Len(s) = Len(a) + Len(b) /\ Len(b) \in Nat
        /\ \A i \in 1..Len(a) + Len(b) : s[i] = IF i <= Len(a) THEN a[i] ELSE b[i - Len(a)]
    BY ConcatProperties
  <1> HIDE DEF c
  <1>3. /\ t \in Seq(Elem) /\ Len(t) = Len(c) + Len(b)
        /\ \A i \in 1..Len(c) + Len(b) : t[i] = IF i <= Len(c) THEN c[i] ELSE b[i - Len(c)]
    BY <1>1, ConcatProperties
  <1> HIDE DEF s, t
  <1>4. ASSUME NEW i \in 1..Len(a) PROVE t[i] = s[i]
    <2>1. i \in 1..Len(a) + Len(b) /\ i <= Len(a) /\ i \in 1..Len(c) + Len(b) /\ i <= Len(c)
      BY <1>1, <1>2
    <2> QED
      BY <1>1, <1>2, <1>3, <2>1
  <1>5. t[Len(a) + 1] = f
    BY <1>1, <1>2, <1>3
  <1>6. ASSUME NEW i \in Len(a) + 1..Len(s) PROVE t[i + 1] = s[i]
    <2>1. i \in 1..Len(a) + Len(b) /\ ~(i <= Len(a)) /\ i + 1 \in 1..Len(c) + Len(b) /\ ~(i + 1 <= Len(c))
          /\ (i + 1) - Len(c) = i - Len(a)
      BY <1>1, <1>2
    <2> QED
      BY <1>2, <1>3, <2>1
  <1>7. Inserted(s, Len(a), f, t) /\ s \in Seq(Elem) /\ t \in Seq(Elem)
    BY <1>1, <1>2, <1>3, <1>4, <1>5, <1>6 DEF Inserted
  <1> QED
    BY <1>7 DEF s, t, c

(* The line. *)

LEMMA Associative ==
    ASSUME NEW s \in Seq(Elem), NEW t \in Seq(Elem), NEW u \in Seq(Elem)
    PROVE  (s \o t) \o u = s \o (t \o u)
  BY ConcatAssociative

LEMMA LineIs ==
    ASSUME ChannelInv
    PROVE  /\ yielded \in Seq(Elem) /\ backlog \in Seq(Elem) /\ outbound \in Seq(Elem) /\ wire \in Seq(Elem)
           /\ InHand \in Seq(Elem) /\ <<>> \in Seq(Elem) /\ Line \in Seq(Elem)
           /\ yielded \o backlog \in Seq(Elem) /\ Body \in Seq(Elem)
  <1>1. /\ yielded \in Seq(Elem) /\ backlog \in Seq(Elem) /\ outbound \in Seq(Elem) /\ wire \in Seq(Elem)
        /\ hand \in Frames \cup {None}
    BY DEF ChannelInv, Flags, Queues
  <1>2. InHand \in Seq(Elem) /\ <<>> \in Seq(Elem)
    <2>1. CASE hand = None
      BY <2>1, Elements DEF InHand
    <2>2. CASE hand # None
      <3>1. hand \in Elem
        BY <1>1, <2>2 DEF Elem
      <3>2. <<hand>> \in Seq(Elem)
        BY <3>1
      <3> QED
        BY <2>2, <3>2, Elements DEF InHand
    <2> QED
      BY <2>1, <2>2
  <1> DEFINE a == yielded \o backlog  b == a \o outbound
  <1>3. a \in Seq(Elem)
    BY <1>1, ConcatProperties
  <1> HIDE DEF a
  <1>4. b \in Seq(Elem)
    BY <1>1, <1>3, ConcatProperties
  <1> HIDE DEF b
  <1>5. b \o InHand \in Seq(Elem)
    BY <1>2, <1>4, ConcatProperties
  <1> QED
    BY <1>1, <1>2, <1>3, <1>4, <1>5 DEF a, b, Body, Line

LEMMA HeadFirst ==
    ASSUME NEW S, NEW s \in Seq(S), s # <<>>
    PROVE  Head(s) \in S /\ Tail(s) \in Seq(S) /\ <<Head(s)>> \in Seq(S) /\ s = <<Head(s)>> \o Tail(s)
  <1>1. 1 \in 1..Len(s) /\ Len(s) \in 1..Len(s) /\ Head(s) = s[1] /\ Head(s) \in S
    BY HeadTailProperties, EmptySeq
  <1>2. SubSeq(s, 1, Len(s)) = <<s[1]>> \o SubSeq(s, 1 + 1, Len(s))
    BY <1>1, SubSeqRecursiveFirst
  <1>3. Tail(s) = SubSeq(s, 2, Len(s)) /\ Tail(s) \in Seq(S)
    BY TailIsSubSeq, HeadTailProperties
  <1>4. SubSeq(s, 1, Len(s)) = s
    BY SubSeqFull
  <1> QED
    BY <1>1, <1>2, <1>3, <1>4

\* An attempt that opens, hands over a frame or breaks, and a frame that enters the
\* queue, leave the line as it is.
LEMMA LineUnchanged ==
    ASSUME ChannelInv, Open \/ YieldBacklog \/ YieldQueued \/ ConnectionFails \/ Put
    PROVE  Line' = Line
  <1>0. /\ yielded \in Seq(Elem) /\ backlog \in Seq(Elem) /\ outbound \in Seq(Elem)
        /\ InHand \in Seq(Elem) /\ <<>> \in Seq(Elem)
        /\ yielded \o backlog \in Seq(Elem)
    BY LineIs
  <1>1. CASE Open
    BY <1>1 DEF Open, ChannelInv, Attempts, Body, Line, InHand, emitterVars
  <1>2. CASE YieldBacklog
    <2> DEFINE h == <<Head(backlog)>>  b == Tail(backlog)
    <2>1. Head(backlog) \in Elem /\ h \in Seq(Elem) /\ b \in Seq(Elem) /\ backlog = h \o b
      BY <1>0, <1>2, HeadFirst DEF YieldBacklog
    <2>2. yielded' = yielded \o h
      BY <1>0, <1>2, <2>1, AppendIsConcat DEF YieldBacklog, Hands
    <2>3. backlog' = b /\ outbound' = outbound /\ InHand' = InHand
      BY <1>2 DEF YieldBacklog, Hands, emitterVars, InHand
    <2> HIDE DEF h, b
    <2>4. (yielded \o h) \o b = yielded \o (h \o b)
      <3>1. yielded \in Seq(Elem) /\ h \in Seq(Elem) /\ b \in Seq(Elem)
        BY <1>0, <2>1
      <3> QED
        BY ONLY <3>1, Associative
    <2>5. yielded' \o backlog' = yielded \o backlog
      BY <2>1, <2>2, <2>3, <2>4
    <2> QED
      BY <2>3, <2>5 DEF Body, Line
  <1>3. CASE YieldQueued
    <2> DEFINE h == <<Head(outbound)>>  b == Tail(outbound)
    <2>1. Head(outbound) \in Elem /\ h \in Seq(Elem) /\ b \in Seq(Elem) /\ outbound = h \o b
      BY <1>0, <1>3, HeadFirst DEF YieldQueued
    <2>2. yielded' = yielded \o h
      BY <1>0, <1>3, <2>1, AppendIsConcat DEF YieldQueued, Hands
    <2>3. outbound' = b /\ backlog = <<>> /\ backlog' = <<>> /\ InHand' = InHand
      BY <1>3 DEF YieldQueued, Hands, emitterVars, InHand
    <2> HIDE DEF h, b
    <2>4. yielded \o h \in Seq(Elem)
      BY <1>0, <2>1, ConcatProperties
    <2>5. (yielded \o h) \o <<>> = yielded \o h /\ yielded \o <<>> = yielded
      BY <1>0, <2>4, ConcatEmptySeq
    <2>6. (yielded \o h) \o b = yielded \o (h \o b)
      <3>1. yielded \in Seq(Elem) /\ h \in Seq(Elem) /\ b \in Seq(Elem)
        BY <1>0, <2>1
      <3> QED
        BY ONLY <3>1, Associative
    <2>7. (yielded' \o backlog') \o outbound' = (yielded \o backlog) \o outbound
      BY <2>1, <2>2, <2>3, <2>5, <2>6
    <2> QED
      BY <2>3, <2>7 DEF Body, Line
  <1>4. CASE ConnectionFails
    <2> DEFINE b == (yielded \o backlog) \o outbound
    <2>1. backlog' = b /\ yielded' = <<>> /\ outbound' = <<>> /\ InHand' = InHand
      BY <1>4 DEF ConnectionFails, emitterVars, InHand
    <2>2. b \in Seq(Elem)
      BY LineIs DEF Body
    <2>3. <<>> \o b = b /\ b \o <<>> = b
      BY <2>2, ConcatEmptySeq
    <2> HIDE DEF b
    <2>4. (yielded' \o backlog') \o outbound' = b
      BY <2>1, <2>3
    <2> QED
      BY <2>1, <2>4 DEF b, Body, Line
  <1>5. CASE Put
    <2> DEFINE a == yielded \o backlog  h == <<hand>>
    <2>1. hand \in Elem /\ InHand = h /\ InHand' = <<>>
      BY <1>5 DEF Put, InHand, ChannelInv, Flags, Elem
    <2>2. outbound' = outbound \o h /\ a' = a
      BY <1>0, <1>5, <2>1, AppendIsConcat DEF Put, senderVars
    <2>3. a \in Seq(Elem) /\ h \in Seq(Elem)
      BY <1>0, <2>1
    <2> HIDE DEF a, h
    <2>4. (a \o outbound) \o h = a \o (outbound \o h)
      <3>1. a \in Seq(Elem) /\ outbound \in Seq(Elem) /\ h \in Seq(Elem)
        BY <1>0, <2>3
      <3> QED
        BY ONLY <3>1, Associative
    <2>5. outbound \o h \in Seq(Elem)
      BY <1>0, <2>3, ConcatProperties
    <2>6. a \o (outbound \o h) \in Seq(Elem)
      BY <2>3, <2>5, ConcatProperties
    <2>7. (a \o (outbound \o h)) \o <<>> = a \o (outbound \o h)
      BY <2>6, ConcatEmptySeq
    <2>8. Line' = (a' \o outbound') \o InHand' /\ Line = (a \o outbound) \o InHand
      BY DEF Body, Line, a
    <2> QED
      BY <2>1, <2>2, <2>4, <2>7, <2>8
  <1> QED
    BY <1>1, <1>2, <1>3, <1>4, <1>5

\* What the whole line leaves open.
LEMMA StillOpen ==
    ASSUME NEW s \in Seq(Elem), NEW t \in Seq(Elem), NEW c, NEW f, Inserted(s, c, f, t), NEW p
    PROVE  /\ (f = Beat \/ f[2] = Last + 1) /\ LeavesOpen(s, Len(s), p) => LeavesOpen(t, Len(t), p)
           /\ f # <<p, 0>> /\ LeavesOpen(t, Len(t), p) => LeavesOpen(s, Len(s), p)
  <1>1. Len(s) \in c..Len(s) /\ Len(t) = Len(s) + 1
    BY DEF Inserted
  <1> QED
    BY <1>1, OpenInserted, OpenTakenOut

LEMMA LastOfFit ==
    ASSUME NEW s \in Seq(Elem), NEW f \in Elem, Fit(s \o <<f>>)
    PROVE  Fit(s) /\ (Inner(f) => LeavesOpen(s, Len(s), f[1]))
  <1> DEFINE t == s \o <<f>>
  <1>1. /\ t \in Seq(Elem) /\ Len(s) \in Nat /\ Len(t) = Len(s) + 1
        /\ \A i \in 1..Len(s) : t[i] = s[i]
        /\ t[Len(t)] = f
    BY OneMore
  <1>2. Fit(t)
    OBVIOUS
  <1> HIDE DEF t
  <1>3. Fit(s)
    BY <1>1, <1>2, FitPrefix
  <1>4. ASSUME Inner(f) PROVE LeavesOpen(s, Len(s), f[1])
    <2>1. Len(t) \in 1..Len(t) /\ Len(t) - 1 = Len(s)
      BY <1>1
    <2>2. LeavesOpen(t, Len(s), f[1])
      BY <1>1, <1>2, <1>4, <2>1 DEF Fit
    <2> QED
      BY <1>1, <2>2, OpenDepends
  <1> QED
    BY <1>3, <1>4

\* The frame after one of the script starts a run or goes on with that frame's.
LEMMA ScriptGoesOn ==
    ASSUME NEW n \in Nat, n + 1 \in 1..Total
    PROVE  \/ Script(n + 1)[2] = 0
           \/ n \in 1..Total /\ Script(n)[1] = Script(n + 1)[1] /\ Script(n)[2] = Script(n + 1)[2] - 1
  <1> DEFINE k == Last + 1  q == n \div k  r == n % k  u == (n - 1) \div k  v == (n - 1) % k
  <1>1. k \in Nat \ {0} /\ Total \in Nat
    BY RoutingAssumption, Elements
  <1>2. q \in Nat /\ r \in 0..k - 1 /\ n = k * q + r
    BY <1>1, Quotient
  <1>3. (n + 1) - 1 = n /\ Script(n + 1) = <<Prompts[q + 1], r>> /\ Script(n) = <<Prompts[u + 1], v>>
    BY DEF Script
  <1>4. CASE r = 0
    BY <1>3, <1>4
  <1>5. CASE r # 0
    <2>1. n \in 1..Total /\ n - 1 \in Nat
      BY <1>1, <1>2, <1>5
    <2>2. u \in Nat /\ v \in 0..k - 1 /\ n - 1 = k * u + v
      BY <1>1, <2>1, Quotient
    <2> HIDE DEF k, q, r, u, v
    <2>3. k * q \in Int /\ k * u \in Int /\ k * q <= n - 1 /\ k * u <= n - 1
      BY <1>1, <1>2, <1>5, <2>2
    <2>4. (u + 1) * k = k * u + k /\ (q + 1) * k = k * q + k
      BY <1>1, <1>2, <2>2
    <2>5. n - 1 < (u + 1) * k /\ n - 1 < (q + 1) * k
      BY <1>1, <1>2, <2>2, <2>3, <2>4
    <2>6. q < u + 1 /\ u < q + 1
      BY <1>1, <1>2, <2>1, <2>2, <2>3, <2>5, Smaller
    <2>7. q = u
      BY <1>2, <2>2, <2>6
    <2>8. v = r - 1
      BY <1>1, <1>2, <2>2, <2>3, <2>7
    <2> QED
      BY <1>3, <2>1, <2>7, <2>8
  <1> QED
    BY <1>4, <1>5

\* What the emitter adds to the line, and takes from it.
LEMMA EmitterLines ==
    ASSUME ChannelInv, LineInv, Emit \/ OffloadSucceeds \/ OffloadFails \/ HeartbeatEmitted
    PROVE  LineInv'
  <1>0. /\ Body \in Seq(Elem) /\ InHand \in Seq(Elem) /\ <<>> \in Seq(Elem) /\ Line = Body \o InHand
        /\ yielded \o backlog \in Seq(Elem) /\ outbound \in Seq(Elem) /\ Line \in Seq(Elem)
        /\ Body \o <<>> = Body
    BY LineIs, ConcatEmptySeq DEF Line
  <1>1. /\ made \in 0..Total /\ Total \in Nat /\ hand \in Frames \cup {None}
        /\ Frames \subseteq Elem /\ Beat \in Elem /\ None \notin Frames
    BY Elements DEF ChannelInv, Flags
  <1>2. Oversize \subseteq Frames /\ \A f \in Oversize : Inner(f) /\ f[1] \in Posts
    BY RoutingAssumption, ChannelAssumption DEF Inner, Frames
  <1>3. CASE Emit
    <2> DEFINE f == Script(made + 1)
    <2>1. /\ made + 1 \in 1..Total /\ made' = made + 1 /\ hand = None /\ hand' = f
          /\ chan # "stopped" /\ offloaded' = offloaded /\ Body' = Body /\ (uploading' => hand' \in Oversize)
      <3>1. made + 1 \in 1..Total /\ made' = made + 1 /\ hand = None /\ hand' = f
        BY <1>1, <1>3 DEF Emit
      <3>2. chan # "stopped" /\ offloaded' = offloaded /\ (uploading' => hand' \in Oversize)
        BY <1>3 DEF Emit
      <3>3. Body' = Body
        BY <1>3 DEF Emit, Body, senderVars
      <3> QED
        BY <3>1, <3>2, <3>3
    <2>2. f \in Frames /\ f \in Elem /\ f[1] \in Posts /\ f # None
      BY <1>1, <2>1, ScriptIsFrames
    <2>3. Line = Body /\ Line' = Body \o <<f>>
      BY <1>0, <2>1, <2>2 DEF Line, InHand
    <2>4. /\ f[2] = 0 => f = <<f[1], 0>>
          /\ f[2] # 0 => LeavesOpen(Body, Len(Body), f[1]) \/ f[2] = Last + 1
      <3>1. f[2] = 0 => f = <<f[1], 0>>
        BY <2>2, ElemIs DEF Frames
      <3>2. CASE f[2] # 0
        <4>1. made \in 1..Total /\ Script(made)[1] = f[1] /\ Script(made)[2] = f[2] - 1
          BY <1>1, <2>1, <3>2, ScriptGoesOn
        <4>2. f[2] \in 0..Last
          BY <2>1, ScriptIsFrames
        <4>3. Script(made)[2] # Last
          BY <4>1, <4>2, RoutingAssumption
        <4>4. made # 0 /\ chan # "stopped"
          BY <2>1, <4>1
        <4>5. LeavesOpen(Line, Len(Line), Script(made)[1])
          BY <4>3, <4>4 DEF LineInv
        <4>6. LeavesOpen(Body, Len(Body), Script(made)[1])
          BY <2>3, <4>5
        <4> HIDE DEF f
        <4> QED
          BY <3>1, <4>1, <4>6
      <3> QED
        BY <3>1, <3>2
    <2>5. f[2] \in 0..Last
      BY <2>1, ScriptIsFrames
    <2>6. Inner(f) => LeavesOpen(Body, Len(Body), f[1])
      BY <2>4, <2>5, RoutingAssumption DEF Inner
    <2> HIDE DEF f
    <2>7. Fit(Line')
      BY <1>0, <2>2, <2>3, <2>6, FitOneMore DEF LineInv
    <2>8. ASSUME f[2] # Last PROVE LeavesOpen(Line', Len(Line'), f[1])
      <3>1. f = <<f[1], 0>> \/ (Quiet(f, f[1]) /\ LeavesOpen(Body, Len(Body), f[1]))
        BY <2>4, <2>5, <2>8, RoutingAssumption DEF Quiet, Inner
      <3> QED
        BY <1>0, <2>2, <2>3, <3>1, OpenOneMore
    <2>9. (offloaded \subseteq Oversize /\ (uploading => hand \in Oversize))'
      BY <2>1 DEF LineInv
    <2> QED
      BY <2>1, <2>7, <2>8, <2>9 DEF LineInv, f
  <1>4. ASSUME uploading
        PROVE  /\ hand \in Elem /\ hand \in Oversize /\ Inner(hand) /\ hand[1] \in Posts
               /\ InHand = <<hand>> /\ Line = Body \o <<hand>>
               /\ Fit(Body) /\ LeavesOpen(Body, Len(Body), hand[1])
    <2>1. hand \in Oversize /\ hand \in Elem /\ Inner(hand) /\ hand[1] \in Posts /\ hand # None
      BY <1>1, <1>2, <1>4 DEF LineInv
    <2>2. InHand = <<hand>> /\ Line = Body \o <<hand>>
      BY <2>1 DEF InHand, Line
    <2>3. Fit(Body \o <<hand>>)
      BY <2>2 DEF LineInv
    <2>4. Fit(Body) /\ LeavesOpen(Body, Len(Body), hand[1])
      BY <1>0, <2>1, <2>3, LastOfFit
    <2> QED
      BY <2>1, <2>2, <2>4
  <1>5. CASE OffloadFails
    <2>1. uploading /\ hand' = None /\ UNCHANGED <<made, offloaded, chan, Body>> /\ uploading' = FALSE
      BY <1>5 DEF OffloadFails, Body, senderVars
    <2>2. Line' = Body
      BY <1>0, <2>1 DEF Line, InHand
    <2>3. \A p \in Posts : LeavesOpen(Line, Len(Line), p) => LeavesOpen(Body, Len(Body), p)
      <3>1. \A p \in Posts : hand # <<p, 0>>
        BY <1>4, <2>1, ElemIs
      <3> QED
        BY <1>0, <1>4, <2>1, <3>1, OpenOneMore
    <2>4. made # 0 => Script(made)[1] \in Posts
      BY <1>1, ScriptIsFrames
    <2> QED
      BY <1>4, <2>1, <2>2, <2>3, <2>4 DEF LineInv
  <1>6. CASE OffloadSucceeds
    <2> DEFINE a == Attached(hand[1])  t == Body \o <<a>>
    <2>1. /\ uploading /\ uploading' = FALSE /\ offloaded' = offloaded \cup {hand}
          /\ outbound' = Append(outbound, a) /\ UNCHANGED <<made, hand, chan, yielded, backlog>>
      BY <1>6 DEF OffloadSucceeds, senderVars
    <2>2. a \in Elem /\ Inner(a) /\ a[1] = hand[1]
      BY <1>4, <2>1, RoutingAssumption DEF Attached, Elem, Frames, Inner
    <2>3. Fit(t) /\ t \in Seq(Elem)
      BY <1>0, <1>4, <2>1, <2>2, FitOneMore, OneMore
    <2>4. \A p \in Posts : LeavesOpen(Body, Len(Body), p) /\ hand[1] = p => LeavesOpen(t, Len(t), p)
      BY <1>0, <2>2, OpenOneMore DEF Quiet
    <2>5. Line' = t \o <<hand>>
      <3> DEFINE h == <<a>>  yb == yielded \o backlog
      <3>1. h \in Seq(Elem)
        BY <2>2
      <3>2. outbound' = outbound \o h
        BY <1>0, <2>1, <2>2, AppendIsConcat
      <3>3. t = (yb \o outbound) \o h /\ Body' = yb \o outbound'
        BY <2>1 DEF Body
      <3>4. InHand' = <<hand>>
        BY <1>4, <2>1, <1>1 DEF InHand
      <3>5. yb \in Seq(Elem)
        BY <1>0
      <3> HIDE DEF h, yb
      <3>6. (yb \o outbound) \o h = yb \o (outbound \o h)
        <4>1. yb \in Seq(Elem) /\ outbound \in Seq(Elem) /\ h \in Seq(Elem)
          BY <1>0, <3>1, <3>5
        <4> QED
          BY ONLY <4>1, Associative
      <3>7. Body' = t
        BY <3>2, <3>3, <3>6
      <3> QED
        BY <3>4, <3>7 DEF Line
    <2> HIDE DEF t, a
    <2>6. Fit(Line')
      <3>1. LeavesOpen(t, Len(t), hand[1])
        BY <1>4, <2>1, <2>4
      <3> QED
        BY <1>4, <2>1, <2>3, <2>5, <3>1, FitOneMore
    <2>7. ASSUME NEW p \in Posts, LeavesOpen(Line, Len(Line), p) PROVE LeavesOpen(Line', Len(Line'), p)
      <3>1. hand # <<p, 0>>
        BY <1>4, <2>1, ElemIs
      <3>2. Quiet(hand, p) /\ LeavesOpen(Body, Len(Body), p)
        BY <1>0, <1>4, <2>1, <2>7, <3>1, OpenOneMore
      <3>3. hand[1] = p
        BY <1>4, <2>1, <3>2, ElemIs DEF Quiet
      <3>4. LeavesOpen(t, Len(t), p)
        BY <2>4, <3>2, <3>3
      <3> QED
        BY <1>4, <2>1, <2>3, <2>5, <3>2, <3>4, OpenOneMore
    <2>8. made # 0 => Script(made)[1] \in Posts
      BY <1>1, ScriptIsFrames
    <2> QED
      BY <1>4, <2>1, <2>6, <2>7, <2>8 DEF LineInv
  <1>7. CASE HeartbeatEmitted
    <2>1. outbound' = Append(outbound, Beat) /\ UNCHANGED <<made, hand, uploading, offloaded, chan, yielded, backlog>>
      BY <1>7 DEF HeartbeatEmitted, senderVars, emitterVars
    <2> DEFINE f == Beat  h == <<f>>  yb == yielded \o backlog  t == Body \o h
    <2>2. f \in Elem /\ f = Beat
      BY <1>1
    <2> HIDE DEF f
    <2>9. h \in Seq(Elem) /\ outbound' = outbound \o h /\ yb \in Seq(Elem)
      BY <1>0, <2>1, <2>2, AppendIsConcat
    <2>3. t = (yb \o outbound) \o h /\ Body' = yb \o outbound' /\ InHand' = InHand
      BY <2>1 DEF Body, InHand
    <2> HIDE DEF yb
    <2>4. Body' = t
      <3> HIDE DEF h, t
      <3>1. yb \in Seq(Elem) /\ outbound \in Seq(Elem) /\ h \in Seq(Elem)
        BY <1>0, <2>9
      <3>2. (yb \o outbound) \o h = yb \o (outbound \o h)
        BY ONLY <3>1, Associative
      <3> QED
        BY <2>9, <2>3, <3>2
    <2>5. Line' = (Body \o <<f>>) \o InHand
      BY <2>3, <2>4 DEF Line
    <2>6. Fit(Line) /\ Line = Body \o InHand
      BY DEF LineInv, Line
    <2>7. Line' \in Seq(Elem) /\ Inserted(Line, Len(Body), f, Line')
      <3> HIDE DEF h, t
      <3>1. Body \in Seq(Elem) /\ InHand \in Seq(Elem)
        BY <1>0
      <3> QED
        BY ONLY <2>2, <2>5, <2>6, <3>1, InsertedBetween
    <2>10. Fit(Line')
      BY <1>0, <2>2, <2>6, <2>7, FitInserted
    <2>11. ASSUME NEW p, LeavesOpen(Line, Len(Line), p) PROVE LeavesOpen(Line', Len(Line'), p)
      BY <1>0, <2>2, <2>7, <2>11, StillOpen
    <2> QED
      BY <2>1, <2>10, <2>11 DEF LineInv
  <1> QED
    BY <1>3, <1>5, <1>6, <1>7

\* A rejected frame that started no run leaves the line, and the channel's RUN_ERROR enters it.
LEMMA RefusalLines ==
    ASSUME ChannelInv, LineInv, RefusalSeen, ~Excused' PROVE LineInv'
  <1> DEFINE off == yielded[Len(yielded)]
             acc == SubSeq(yielded, 1, Len(yielded) - 1)
             error == RunError(Script(made)[1])
             errors == IF off[2] \in {Last, Last + 1} THEN <<>> ELSE <<error>>
             kept == acc \o backlog
             s == (kept \o outbound) \o InHand
  <1>1. /\ yielded # <<>> /\ made \in 1..Total
        /\ backlog' = (kept \o errors) \o outbound /\ yielded' = <<>> /\ outbound' = <<>>
        /\ InHand' = InHand /\ dropped' = dropped \cup {off} /\ chan = "open"
        /\ UNCHANGED <<made, offloaded, uploading, hand>>
    <2>1. /\ backlog' = (kept \o errors) \o outbound /\ yielded' = <<>> /\ outbound' = <<>>
          /\ dropped' = dropped \cup {off} /\ chan = "open" /\ rejected
          /\ UNCHANGED <<made, offloaded, uploading, hand>>
      BY DEF RefusalSeen, emitterVars
    <2>2. yielded # <<>> /\ made \in 1..Total
      BY <2>1, Elements DEF ChannelInv, Queues, Flags, Attempts
    <2> QED
      BY <2>1, <2>2 DEF InHand
  <1>2. /\ yielded \in Seq(Elem) /\ backlog \in Seq(Elem) /\ outbound \in Seq(Elem) /\ InHand \in Seq(Elem)
        /\ Line \in Seq(Elem) /\ <<>> \in Seq(Elem)
    BY LineIs
  <1>3. Script(made)[1] \in Posts /\ error \in Elem /\ error[2] = Last + 1
    BY <1>1, ScriptIsFrames, RoutingAssumption DEF RunError, Frames, Elem
  <1>4. off \in Elem /\ acc \in Seq(Elem) /\ yielded = acc \o <<off>>
    <2>1. Len(yielded) \in 1..Len(yielded) /\ 1 \in 1..Len(yielded) /\ Len(yielded) \in Nat
      BY <1>1, <1>2, EmptySeq
    <2>2. SubSeq(yielded, 1, Len(yielded)) = yielded /\ off \in Elem
      BY <1>2, <2>1, SubSeqFull
    <2>3. SubSeq(yielded, 1, Len(yielded)) = acc \o <<off>>
      BY <1>2, <2>1, SubSeqRecursiveSecond
    <2>4. acc \in Seq(Elem)
      BY <1>2, <2>1, SetOfPrefix
    <2> QED
      BY <2>2, <2>3, <2>4
  <1>5. \A p \in Posts : off # <<p, 0>>
    BY <1>1 DEF Excused
  <1> HIDE DEF acc, off, error
  <1>6. /\ s = acc \o ((backlog \o outbound) \o InHand) /\ s = kept \o (outbound \o InHand)
        /\ s \in Seq(Elem) /\ kept \in Seq(Elem) /\ outbound \o InHand \in Seq(Elem)
        /\ (backlog \o outbound) \o InHand \in Seq(Elem)
    <2>1. acc \in Seq(Elem) /\ backlog \in Seq(Elem) /\ outbound \in Seq(Elem) /\ InHand \in Seq(Elem)
      BY <1>2, <1>4
    <2>2. kept \in Seq(Elem) /\ outbound \o InHand \in Seq(Elem) /\ backlog \o outbound \in Seq(Elem)
      BY <2>1, ConcatProperties
    <2>3. (backlog \o outbound) \o InHand \in Seq(Elem)
      BY <2>1, <2>2, ConcatProperties
    <2>4. s = acc \o ((backlog \o outbound) \o InHand)
      <3> DEFINE bo == backlog \o outbound
      <3>1. kept \o outbound = acc \o bo
        BY ONLY <2>1, Associative DEF kept, bo
      <3>2. bo \in Seq(Elem)
        BY <2>2
      <3> HIDE DEF bo
      <3>3. (acc \o bo) \o InHand = acc \o (bo \o InHand)
        <4>1. acc \in Seq(Elem) /\ bo \in Seq(Elem) /\ InHand \in Seq(Elem)
          BY <2>1, <3>2
        <4> QED
          BY ONLY <4>1, Associative
      <3>4. s = (acc \o bo) \o InHand
        BY <3>1
      <3> QED
        BY <3>3, <3>4 DEF bo
    <2> HIDE DEF kept
    <2>5. (kept \o outbound) \o InHand = kept \o (outbound \o InHand)
      <3>1. kept \in Seq(Elem) /\ outbound \in Seq(Elem) /\ InHand \in Seq(Elem)
        BY <2>1, <2>2
      <3> QED
        BY ONLY <3>1, Associative
    <2>6. kept \o outbound \in Seq(Elem)
      BY <2>1, <2>2, ConcatProperties
    <2>7. s \in Seq(Elem)
      BY <2>1, <2>6, ConcatProperties
    <2> QED
      BY <2>2, <2>3, <2>4, <2>5, <2>7
  <1> DEFINE rest == (backlog \o outbound) \o InHand
  <1>7. Line = (acc \o <<off>>) \o rest
    <2> DEFINE w == <<off>>  aw == acc \o w
    <2>1. w \in Seq(Elem) /\ yielded = aw
      BY <1>4
    <2>2. Line = ((aw \o backlog) \o outbound) \o InHand
      BY <2>1 DEF Line, Body
    <2> HIDE DEF w
    <2>3. aw \in Seq(Elem)
      BY <1>4, <2>1, ConcatProperties
    <2> HIDE DEF aw
    <2>4. aw \in Seq(Elem) /\ backlog \in Seq(Elem) /\ outbound \in Seq(Elem) /\ InHand \in Seq(Elem)
      BY <1>2, <2>3
    <2>5. ((aw \o backlog) \o outbound) \o InHand = aw \o ((backlog \o outbound) \o InHand)
      <3> DEFINE bo == backlog \o outbound
      <3>1. (aw \o backlog) \o outbound = aw \o bo
        BY ONLY <2>4, Associative DEF bo
      <3>2. bo \in Seq(Elem)
        BY <2>4, ConcatProperties
      <3> HIDE DEF bo
      <3>3. (aw \o bo) \o InHand = aw \o (bo \o InHand)
        <4>1. aw \in Seq(Elem) /\ bo \in Seq(Elem) /\ InHand \in Seq(Elem)
          BY <2>4, <3>2
        <4> QED
          BY ONLY <4>1, Associative
      <3>4. ((aw \o backlog) \o outbound) \o InHand = (aw \o bo) \o InHand
        BY <3>1
      <3> QED
        BY <3>3, <3>4 DEF bo
    <2> QED
      BY <2>2, <2>5 DEF aw, w, rest
  <1> HIDE DEF rest
  <1>8. Inserted(s, Len(acc), off, Line)
    <2>1. s = acc \o rest /\ rest \in Seq(Elem)
      BY <1>6 DEF rest
    <2> HIDE DEF s
    <2> QED
      BY ONLY <1>4, <1>7, <2>1, InsertedBetween
  <1> HIDE DEF s
  <1>9. Fit(s)
    BY <1>2, <1>5, <1>6, <1>8, FitTakenOut DEF LineInv
  <1>10. ASSUME NEW p \in Posts, LeavesOpen(Line, Len(Line), p) PROVE LeavesOpen(s, Len(s), p)
    BY <1>2, <1>5, <1>6, <1>8, <1>10, StillOpen
  <1>11. backlog' \in Seq(Elem) => Line' = ((kept \o errors) \o outbound) \o InHand
    <2> DEFINE b == (kept \o errors) \o outbound
    <2>1. Line' = ((<<>> \o b) \o <<>>) \o InHand /\ backlog' = b
      BY <1>1 DEF Line, Body
    <2> HIDE DEF b
    <2>2. b \in Seq(Elem) => <<>> \o b = b /\ b \o <<>> = b
      BY ConcatEmptySeq
    <2>3. b \in Seq(Elem) => Line' = b \o InHand
      BY <2>1, <2>2
    <2> QED
      BY <2>1, <2>3 DEF b
  <1> HIDE DEF kept
  <1>12. Fit(Line') /\ \A p \in Posts : LeavesOpen(s, Len(s), p) => LeavesOpen(Line', Len(Line'), p)
    <2>1. CASE errors = <<>>
      <3>1. kept \o errors = kept
        BY <1>6, <2>1, ConcatEmptySeq
      <3>2. backlog' = kept \o outbound
        BY <1>1, <3>1
      <3>3. backlog' \in Seq(Elem)
        BY <1>2, <1>6, <3>2, ConcatProperties
      <3>4. Line' = (kept \o outbound) \o InHand
        BY <1>11, <3>1, <3>3
      <3>5. Line' = s
        BY <3>4 DEF s
      <3> QED
        BY <1>9, <3>5
    <2>2. CASE errors = <<error>>
      <3> DEFINE h == <<error>>  end == outbound \o InHand
      <3>1. h \in Seq(Elem) /\ errors = h
        BY <1>3, <2>2
      <3> HIDE DEF h, errors
      <3>2. kept \o h \in Seq(Elem)
        BY <1>6, <3>1, ConcatProperties
      <3>3. backlog' \in Seq(Elem)
        BY <1>1, <1>2, <3>1, <3>2, ConcatProperties
      <3>4. ((kept \o h) \o outbound) \o InHand = (kept \o h) \o end
        <4> DEFINE kh == kept \o h
        <4>1. kh \in Seq(Elem) /\ outbound \in Seq(Elem) /\ InHand \in Seq(Elem)
          BY <1>2, <3>2
        <4> HIDE DEF kh
        <4>2. (kh \o outbound) \o InHand = kh \o (outbound \o InHand)
          BY ONLY <4>1, Associative
        <4> QED
          BY <4>2 DEF kh
      <3>5. Line' = (kept \o h) \o end
        BY <1>11, <3>1, <3>3, <3>4
      <3>6. s = kept \o end /\ end \in Seq(Elem)
        BY <1>6
      <3> HIDE DEF end
      <3>7. Line' = (kept \o <<error>>) \o end
        BY <3>5 DEF h
      <3>8. Line' \in Seq(Elem) /\ Inserted(s, Len(kept), error, Line')
        BY ONLY <1>3, <1>6, <3>6, <3>7, InsertedBetween
      <3>9. Fit(Line')
        BY <1>3, <1>6, <1>9, <3>8, FitInserted
      <3>10. ASSUME NEW p \in Posts, LeavesOpen(s, Len(s), p) PROVE LeavesOpen(Line', Len(Line'), p)
        BY <1>3, <1>6, <3>8, <3>10, StillOpen
      <3> QED
        BY <3>9, <3>10
    <2> QED
      BY <2>1, <2>2
  <1> QED
    BY <1>1, <1>3, <1>10, <1>12 DEF LineInv

LEMMA LineStep ==
    ASSUME ChannelInv, LineInv, Next, ~Excused' PROVE LineInv'
  <1>1. CASE Open \/ YieldBacklog \/ YieldQueued \/ ConnectionFails \/ Put
    <2>1. Line' = Line
      BY <1>1, LineUnchanged
    <2>2. /\ UNCHANGED <<made, offloaded, uploading>> /\ (uploading => hand' = hand)
          /\ chan = "stopped" => chan' = "stopped"
      BY <1>1 DEF Open, YieldBacklog, YieldQueued, Hands, ConnectionFails, Put, emitterVars, senderVars
    <2> QED
      BY <2>1, <2>2 DEF LineInv
  <1>2. CASE Emit \/ OffloadSucceeds \/ OffloadFails \/ HeartbeatEmitted
    BY <1>2, EmitterLines
  <1>3. CASE RefusalSeen
    BY <1>3, RefusalLines
  <1>4. CASE Stop
    <2>1. /\ yielded' = <<>> /\ backlog' = <<>> /\ outbound' = <<>> /\ hand' = None
          /\ chan' = "stopped" /\ offloaded' = offloaded /\ uploading' = FALSE
      BY <1>4 DEF Stop
    <2>2. <<>> \o <<>> = <<>>
      BY ConcatEmptySeq, Elements
    <2>3. Line' = <<>>
      BY <2>1, <2>2 DEF Line, Body, InHand
    <2>4. Fit(<<>>)
      BY DEF Fit
    <2> QED
      BY <2>1, <2>3, <2>4 DEF LineInv
  <1>5. CASE ServerReads \/ ServerRejects
    BY <1>5 DEF ServerReads, ServerRejects, LineInv, Line, Body, InHand, emitterVars
  <1> QED
    BY <1>1, <1>2, <1>3, <1>4, <1>5 DEF Next

(* The ingress. *)

\* A frame that is read is filed in its own run, and leaves the next ones to be.
LEMMA ReadingStep ==
    ASSUME ChannelInv, LineInv, IngressInv, NEW read \in Seq(Elem), Reading(read), ServerReads, ~Excused'
    PROVE  /\ IngressInv'
           /\ \E t \in Seq(Elem) : Reading(t)'
  <1> DEFINE f == Head(wire)  rest == Tail(wire)  past == read \o <<f>>
  <1>1. wire \in Seq(Elem) /\ wire # <<>> /\ Dispatched(f) /\ arrived' = arrived \cup {f} /\ wire' = rest
        /\ UNCHANGED <<yielded, chan, rejected>>
    BY DEF ServerReads, ChannelInv, Queues
  <1>2. f \in Elem /\ rest \in Seq(Elem) /\ <<f>> \in Seq(Elem) /\ wire = <<f>> \o rest
    BY <1>1, HeadFirst
  <1> HIDE DEF f, rest
  <1>3. past \in Seq(Elem) /\ past \o rest = read \o wire
    <2> DEFINE h == <<f>>
    <2>1. read \in Seq(Elem) /\ h \in Seq(Elem) /\ rest \in Seq(Elem)
      BY <1>2
    <2>2. wire = h \o rest /\ past = read \o h
      BY <1>2
    <2> HIDE DEF h, past
    <2>3. (read \o h) \o rest = read \o (h \o rest)
      BY ONLY <2>1, Associative
    <2>4. read \o h \in Seq(Elem)
      BY ONLY <2>1, ConcatProperties
    <2> QED
      BY <2>2, <2>3, <2>4
  <1>4. Fit(past) /\ (Inner(f) => LeavesOpen(read, Len(read), f[1]))
    <2>1. Fit(past \o rest)
      BY <1>3 DEF Reading
    <2> DEFINE all == past \o rest
    <2>2. /\ all \in Seq(Elem) /\ Len(all) = Len(past) + Len(rest) /\ Len(past) \in Nat /\ Len(rest) \in Nat
          /\ \A i \in 1..Len(past) + Len(rest) : all[i] = IF i <= Len(past) THEN past[i] ELSE rest[i - Len(past)]
      BY <1>2, <1>3, ConcatProperties
    <2> HIDE DEF all, past
    <2>3. Len(past) <= Len(all) /\ \A i \in 1..Len(past) : past[i] = all[i]
      BY <2>2
    <2>4. Fit(past)
      BY <1>3, <2>1, <2>2, <2>3, FitPrefix DEF all
    <2> QED
      BY <1>2, <2>4, LastOfFit DEF past
  <1>5. Inner(f) => f[1] \in Posts /\ active = RunOf[f[1]] /\ active # None /\ active \in Runs
    BY <1>2, <1>4, ElemIs, RoutingAssumption DEF Reading
  <1>6. f = Beat \/ (f \in Frames /\ f[1] \in Posts /\ RunOf[f[1]] \in Runs /\ f = <<f[1], f[2]>>)
    BY <1>2, ElemIs, RoutingAssumption
  <1>7. f[2] # Last + 1
    <2>1. f[2] = Last + 1 => f # Beat
      BY RoutingAssumption DEF Beat
    <2> QED
      BY <1>1, <1>6, <2>1 DEF Excused, RunError
  <1>8. Beat[2] = 0 /\ Beat[1] = None /\ Last \in Nat \ {0}
    BY RoutingAssumption DEF Beat
  <1>9. f \in offloaded => Inner(f)
    BY RoutingAssumption, ChannelAssumption DEF LineInv, Inner
  <1>10. pending = <<>>
    BY DEF IngressInv
  \* What becomes of the run that the frames read so far leave open.
  <1>11. ASSUME \A p \in Posts : f = <<p, 0>> => active' = RunOf[p],
                f[2] = Last \/ (f \in Frames /\ f[2] = 0) \/ active' = active
         PROVE  \A p \in Posts : LeavesOpen(past, Len(past), p) => active' = RunOf[p]
    <2> SUFFICES ASSUME NEW p \in Posts, LeavesOpen(past, Len(past), p), f # <<p, 0>> PROVE active' = RunOf[p]
      BY <1>11
    <2>1. Quiet(f, p) /\ LeavesOpen(read, Len(read), p)
      BY <1>2, OpenOneMore
    <2>2. f[2] # Last /\ ~(f \in Frames /\ f[2] = 0)
      <3>1. f[2] # Last
        BY <1>2, <2>1, ElemIs
      <3>2. f[2] = 0 => f = Beat
        BY <1>8, <2>1 DEF Quiet, Inner
      <3>3. Beat \notin Frames
        BY RoutingAssumption DEF Beat, Frames
      <3> QED
        BY <3>1, <3>2, <3>3
    <2> QED
      BY <1>11, <2>1, <2>2 DEF Reading
  <1>12. ASSUME NEW r \in Runs, f # Beat, RunOf[f[1]] = r, Stamp(r, <<f>>)
         PROVE  /\ events' \in [Runs -> Seq(Frames)]
                /\ \A q \in Runs : \A i \in 1..Len(events'[q]) : RunOf[events'[q][i][1]] = q
    <2> DEFINE ring == events[r] \o <<f>>
    <2>1. events[r] \in Seq(Frames) /\ f \in Frames
      BY <1>6, <1>12 DEF IngressInv
    <2>2. <<f>> \in Seq(Frames) /\ Len(<<f>>) = 1 /\ <<f>>[1] = f
      BY <2>1
    <2>3. /\ ring \in Seq(Frames) /\ Len(ring) = Len(events[r]) + 1 /\ Len(events[r]) \in Nat
          /\ \A i \in 1..Len(events[r]) + 1 : ring[i] = IF i <= Len(events[r]) THEN events[r][i] ELSE <<f>>[i - Len(events[r])]
      BY <2>1, <2>2, ConcatProperties
    <2> HIDE DEF ring
    <2>4. ring[Len(events[r]) + 1] = f
      BY <2>2, <2>3
    <2>5. \A i \in 1..Len(ring) : RunOf[ring[i][1]] = r
      BY <1>12, <2>3, <2>4 DEF IngressInv
    <2>6. events' = [events EXCEPT ![r] = ring]
      BY <1>12 DEF Stamp, ring
    <2> QED
      BY <2>3, <2>5, <2>6 DEF IngressInv
  <1>13. IngressInv' /\ \A p \in Posts : LeavesOpen(past, Len(past), p) => active' = RunOf[p]
    <2>1. CASE f = Beat /\ UNCHANGED ingressVars
      <3>1. active' = active /\ pending' = pending /\ events' = events
        BY <2>1 DEF ingressVars
      <3>2. \A p \in Posts : f # <<p, 0>>
        BY <1>2, <2>1, ElemIs
      <3> QED
        BY <1>11, <3>1, <3>2 DEF IngressInv
    <2>2. CASE f # Beat /\ f[2] = 0 /\ StartedArrives(f[1])
      <3>1. f = <<f[1], 0>> /\ f[1] \in Posts /\ RunOf[f[1]] \in Runs /\ f \in Frames
        BY <1>6, <2>2
      <3>2. active' = RunOf[f[1]] /\ pending' = <<>> /\ Stamp(RunOf[f[1]], <<f>> \o pending)
        BY <2>2, <3>1 DEF StartedArrives
      <3>3. <<f>> \o pending = <<f>>
        BY <1>2, <1>10, ConcatEmptySeq
      <3>4. \A p \in Posts : f = <<p, 0>> => active' = RunOf[p]
        BY <1>2, <3>2, ElemIs
      <3> QED
        BY <1>11, <1>12, <2>2, <3>1, <3>2, <3>3, <3>4 DEF IngressInv
    <2>3. CASE f[2] \in {Last, Last + 1} /\ EndedArrives(f[1], f)
      <3>1. f[2] = Last /\ f # Beat
        BY <1>7, <1>8, <2>3
      <3>2. /\ active' = IF active = RunOf[f[1]] THEN None ELSE active
            /\ pending' = pending /\ Stamp(RunOf[f[1]], <<f>>)
        BY <2>3 DEF EndedArrives
      <3>3. \A p \in Posts : f # <<p, 0>>
        BY <1>2, <1>8, <3>1, ElemIs
      <3> QED
        BY <1>6, <1>11, <1>12, <3>1, <3>2, <3>3 DEF IngressInv
    <2>4. CASE f \in offloaded /\ Stamp(RunOf[f[1]], <<f>>) /\ UNCHANGED <<active, pending>>
      <3>1. f # Beat /\ \A p \in Posts : f # <<p, 0>>
        BY <1>2, <1>9, <2>4, ElemIs
      <3> QED
        BY <1>6, <1>11, <1>12, <2>4, <3>1 DEF IngressInv
    <2>5. CASE f[2] \in (1..Last - 1) \cup {Last + 2} /\ f \notin offloaded /\ (GoesToActive(f) \/ Waits(f))
      <3>1. Inner(f)
        BY <2>5 DEF Inner
      <3>2. f # Beat /\ \A p \in Posts : f # <<p, 0>>
        BY <1>2, <3>1, ElemIs
      <3>3. Stamp(active, <<f>>) /\ active' = active /\ pending' = pending
        BY <1>5, <2>5, <3>1 DEF GoesToActive, Waits
      <3> QED
        BY <1>5, <1>6, <1>11, <1>12, <3>1, <3>2, <3>3 DEF IngressInv
    <2> QED
      BY <1>1, <2>1, <2>2, <2>3, <2>4, <2>5 DEF Dispatched
  <1>14. Fit(past \o wire') /\ (chan' = "open" /\ ~rejected' => yielded' = past \o wire')
    BY <1>1, <1>3 DEF Reading
  <1> HIDE DEF past
  <1>15. ASSUME NEW t, t = past PROVE Reading(t)'
    BY <1>3, <1>13, <1>14, <1>15 DEF Reading
  <1> QED
    BY <1>3, <1>13, <1>15

\* A shorter wire, and the part of the line that was handed over, fit as well.
LEMMA FitCut ==
    ASSUME NEW s \in Seq(Elem), NEW w \in Seq(Elem), NEW v \in Seq(Elem), Fit(s \o w),
           Len(v) <= Len(w), \A i \in 1..Len(v) : v[i] = w[i]
    PROVE  Fit(s \o v)
  <1> DEFINE a == s \o w  b == s \o v
  <1>1. /\ a \in Seq(Elem) /\ Len(a) = Len(s) + Len(w) /\ Len(s) \in Nat /\ Len(w) \in Nat
        /\ \A i \in 1..Len(s) + Len(w) : a[i] = IF i <= Len(s) THEN s[i] ELSE w[i - Len(s)]
    BY ConcatProperties
  <1>2. /\ b \in Seq(Elem) /\ Len(b) = Len(s) + Len(v) /\ Len(v) \in Nat
        /\ \A i \in 1..Len(s) + Len(v) : b[i] = IF i <= Len(s) THEN s[i] ELSE v[i - Len(s)]
    BY ConcatProperties
  <1>3. Fit(a)
    OBVIOUS
  <1> HIDE DEF a, b
  <1>4. Len(b) <= Len(a)
    BY <1>1, <1>2
  <1>5. ASSUME NEW i \in 1..Len(b) PROVE b[i] = a[i]
    <2>1. i \in 1..Len(s) + Len(v) /\ i \in 1..Len(s) + Len(w)
      BY <1>1, <1>2
    <2>2. CASE i <= Len(s)
      BY <1>1, <1>2, <2>1, <2>2
    <2>3. CASE ~(i <= Len(s))
      <3>1. i - Len(s) \in 1..Len(v)
        BY <1>1, <1>2, <2>1, <2>3
      <3>2. v[i - Len(s)] = w[i - Len(s)]
        BY <3>1
      <3> QED
        BY <1>1, <1>2, <2>1, <2>3, <3>2
    <2> QED
      BY <2>2, <2>3
  <1>6. Fit(b)
    BY <1>1, <1>2, <1>3, <1>4, <1>5, FitPrefix
  <1> QED
    BY <1>6 DEF b

LEMMA FitFirst ==
    ASSUME NEW s \in Seq(Elem), NEW t \in Seq(Elem), Fit(s \o t)
    PROVE  Fit(s)
  <1> DEFINE e == <<>>
  <1>1. e \in Seq(Elem) /\ Len(e) = 0 /\ Len(t) \in Nat /\ s \o e = s
    BY Elements, ConcatEmptySeq
  <1> HIDE DEF e
  <1>2. Len(e) <= Len(t) /\ \A i \in 1..Len(e) : e[i] = t[i]
    BY <1>1
  <1>3. Fit(s \o e)
    BY <1>1, <1>2, FitCut
  <1> QED
    BY <1>1, <1>3

LEMMA CutShortens ==
    ASSUME ChannelInv, Cut
    PROVE  wire' \in Seq(Elem) /\ Len(wire') <= Len(wire) /\ \A i \in 1..Len(wire') : wire'[i] = wire[i]
  <1>1. wire \in Seq(Elem)
    BY DEF ChannelInv, Queues
  <1>2. PICK n \in 0..Len(wire) : wire' = SubSeq(wire, 1, n)
    BY DEF Cut
  <1> QED
    BY <1>1, <1>2

\* A frame that is handed over goes on the wire, unless the server reads no more.
LEMMA HandOverReading ==
    ASSUME ChannelInv, LineInv, NEW read \in Seq(Elem), Reading(read), YieldBacklog \/ YieldQueued
    PROVE  Reading(read)'
  <1>1. PICK f \in Elem : Hands(f)
    <2>1. backlog \in Seq(Elem) /\ outbound \in Seq(Elem)
      BY LineIs
    <2> QED
      BY <2>1, HeadFirst DEF YieldBacklog, YieldQueued
  <1>2. /\ chan = "open" /\ chan' = chan /\ rejected' = rejected /\ active' = active
        /\ yielded' = Append(yielded, f) /\ wire' = IF rejected THEN wire ELSE Append(wire, f)
    BY <1>1 DEF Hands, ingressVars
  <1>3. CASE rejected
    BY <1>2, <1>3 DEF Reading
  <1>4. CASE ~rejected
    <2> DEFINE h == <<f>>
    <2>1. h \in Seq(Elem) /\ wire \in Seq(Elem) /\ yielded \in Seq(Elem) /\ read \in Seq(Elem)
      BY LineIs
    <2>2. wire' = wire \o h /\ yielded' = yielded \o h /\ yielded = read \o wire
      BY <1>2, <1>4, <2>1, AppendIsConcat DEF Reading
    <2> HIDE DEF h
    <2>3. (read \o wire) \o h = read \o (wire \o h)
      BY ONLY <2>1, Associative
    <2>4. yielded' = read \o wire'
      BY <2>2, <2>3
    <2>5. Fit(yielded')
      <3> DEFINE t == (backlog' \o outbound') \o InHand'
      <3>1. backlog' \in Seq(Elem) /\ outbound' \in Seq(Elem) /\ InHand' \in Seq(Elem) /\ yielded' \in Seq(Elem)
        <4>1. backlog \in Seq(Elem) /\ outbound \in Seq(Elem) /\ InHand \in Seq(Elem) /\ InHand' = InHand
          BY LineIs, <1>1 DEF Hands, emitterVars, InHand
        <4>2. backlog' \in Seq(Elem) /\ outbound' \in Seq(Elem)
          BY <4>1, HeadFirst DEF YieldBacklog, YieldQueued
        <4> QED
          BY <2>1, <2>2, <4>1, <4>2, ConcatProperties
      <3> DEFINE y == yielded'  b == backlog'  o == outbound'  i == InHand'
      <3>2. Line' = ((y \o b) \o o) \o i /\ Fit(Line')
        <4>1. Line' = Line
          BY LineUnchanged
        <4> QED
          BY <4>1 DEF LineInv, Body, Line
      <3>3. y \in Seq(Elem) /\ b \in Seq(Elem) /\ o \in Seq(Elem) /\ i \in Seq(Elem)
        BY <3>1
      <3> HIDE DEF y, b, o, i
      <3>4. y \o b \in Seq(Elem)
        BY <3>3, ConcatProperties
      <3>5. (y \o b) \o o \in Seq(Elem)
        BY <3>3, <3>4, ConcatProperties
      <3>6. Fit((y \o b) \o o)
        BY <3>2, <3>3, <3>5, FitFirst
      <3>7. Fit(y \o b)
        BY <3>3, <3>4, <3>6, FitFirst
      <3>8. Fit(y)
        BY <3>3, <3>7, FitFirst
      <3> QED
        BY <3>8 DEF y
    <2> QED
      BY <1>2, <2>4, <2>5 DEF Reading
  <1> QED
    BY <1>3, <1>4

LEMMA OtherReading ==
    ASSUME ChannelInv, LineInv, NEW read \in Seq(Elem), Reading(read), Next, ~ServerReads
    PROVE  /\ \E t \in Seq(Elem) : Reading(t)'
           /\ UNCHANGED ingressVars
  <1>1. UNCHANGED ingressVars
    BY DEF Next, Emit, OffloadSucceeds, OffloadFails, Put, HeartbeatEmitted, Open, YieldBacklog, YieldQueued,
           Hands, ConnectionFails, RefusalSeen, Stop, ServerRejects
  <1>2. active' = active
    BY <1>1 DEF ingressVars
  <1>3. CASE Emit \/ OffloadSucceeds \/ OffloadFails \/ Put \/ HeartbeatEmitted
    <2>1. UNCHANGED <<wire, chan, rejected, yielded>>
      BY <1>3 DEF Emit, OffloadSucceeds, OffloadFails, Put, HeartbeatEmitted, senderVars
    <2>2. Reading(read)'
      BY <1>2, <2>1 DEF Reading
    <2> QED
      BY <1>1, <2>2
  <1>4. CASE Open
    <2>1. wire = <<>> /\ wire' = <<>> /\ yielded' = <<>>
      BY <1>4 DEF Open
    <2>2. <<>> \in Seq(Elem) /\ <<>> \o <<>> = <<>> /\ Len(<<>>) = 0
      BY Elements, ConcatEmptySeq
    <2>3. Fit(<<>>) /\ \A p : ~LeavesOpen(<<>>, Len(<<>>), p)
      BY DEF Fit, LeavesOpen
    <2>4. Reading(<<>>)'
      BY <2>1, <2>2, <2>3 DEF Reading
    <2> QED
      BY <1>1, <2>2, <2>4
  <1>5. CASE YieldBacklog \/ YieldQueued
    <2>1. Reading(read)'
      BY <1>5, HandOverReading
    <2> QED
      BY <1>1, <2>1
  <1>6. ASSUME wire' \in Seq(Elem), Len(wire') <= Len(wire), \A i \in 1..Len(wire') : wire'[i] = wire[i],
               chan' = "open" => rejected'
        PROVE  Reading(read)'
    <2>1. wire \in Seq(Elem) /\ Fit(read \o wire)
      BY LineIs DEF Reading
    <2> DEFINE w == wire'
    <2>2. w \in Seq(Elem) /\ Len(w) <= Len(wire) /\ \A i \in 1..Len(w) : w[i] = wire[i]
      BY <1>6
    <2> HIDE DEF w
    <2>3. Fit(read \o w)
      BY <2>1, <2>2, FitCut
    <2> QED
      BY <1>2, <1>6, <2>3 DEF Reading, w
  <1>7. CASE ConnectionFails \/ Stop
    <2>1. Cut /\ chan' # "open"
      BY <1>7 DEF ConnectionFails, Stop
    <2> QED
      BY <1>1, <1>6, <2>1, CutShortens
  <1>8. CASE RefusalSeen \/ ServerRejects
    <2>1. wire' = <<>> /\ (chan' = "open" => rejected')
      BY <1>8 DEF RefusalSeen, ServerRejects
    <2>2. <<>> \in Seq(Elem) /\ Len(<<>>) = 0 /\ Len(wire) \in Nat
      BY Elements, LineIs
    <2>3. wire' \in Seq(Elem) /\ Len(wire') <= Len(wire) /\ \A i \in 1..Len(wire') : wire'[i] = wire[i]
      BY <2>1, <2>2
    <2> QED
      BY <1>1, <1>6, <2>1, <2>3
  <1> QED
    BY <1>1, <1>3, <1>4, <1>5, <1>7, <1>8 DEF Next

LEMMA OwnInit == Init => OwnInv
  <1> SUFFICES ASSUME Init PROVE OwnInv
    OBVIOUS
  <1>1. /\ yielded = <<>> /\ backlog = <<>> /\ outbound = <<>> /\ wire = <<>> /\ hand = None
        /\ made = 0 /\ offloaded = {} /\ uploading = FALSE /\ chan = "down"
        /\ active = None /\ pending = <<>> /\ events = [r \in Runs |-> <<>>]
    BY DEF Init, InitIngress
  <1>2. <<>> \in Seq(Elem) /\ <<>> \o <<>> = <<>> /\ Len(<<>>) = 0
    BY Elements, ConcatEmptySeq
  <1>3. Fit(<<>>) /\ \A p : ~LeavesOpen(<<>>, Len(<<>>), p)
    BY DEF Fit, LeavesOpen
  <1>4. LineInv
    BY <1>1, <1>2, <1>3 DEF LineInv, Line, Body, InHand
  <1>5. Reading(<<>>)
    BY <1>1, <1>2, <1>3 DEF Reading
  <1>6. IngressInv
    <2>1. events \in [Runs -> Seq(Frames)] /\ \A r \in Runs : Len(events[r]) = 0
      BY <1>1
    <2> QED
      BY <1>1, <2>1 DEF IngressInv
  <1> QED
    BY <1>2, <1>4, <1>5, <1>6 DEF OwnInv

LEMMA OwnStep == ChannelInv /\ OwnInv /\ [Next]_vars => OwnInv'
  <1> SUFFICES ASSUME ChannelInv, OwnInv, [Next]_vars PROVE OwnInv'
    OBVIOUS
  <1>1. CASE UNCHANGED vars
    BY <1>1 DEF vars, senderVars, emitterVars, faultVars, ingressVars, OwnInv, Excused, LineInv, Line, Body,
                InHand, Reading, IngressInv
  <1>2. CASE Next
    <2>1. Excused => Excused'
      <3>1. dropped \subseteq dropped' /\ arrived \subseteq arrived'
        BY <1>2 DEF Next, Emit, OffloadSucceeds, OffloadFails, Put, HeartbeatEmitted, Open, YieldBacklog,
                    YieldQueued, Hands, ConnectionFails, RefusalSeen, Stop, ServerReads, ServerRejects
      <3> QED
        BY <3>1 DEF Excused
    <2>2. ASSUME ~Excused' PROVE LineInv' /\ (\E t \in Seq(Elem) : Reading(t)') /\ IngressInv'
      <3>1. LineInv /\ IngressInv /\ \E read \in Seq(Elem) : Reading(read)
        BY <2>1, <2>2 DEF OwnInv
      <3>2. PICK read \in Seq(Elem) : Reading(read)
        BY <3>1
      <3>3. LineInv'
        BY <1>2, <2>2, <3>1, LineStep
      <3>4. CASE ServerReads
        BY <2>2, <3>1, <3>2, <3>3, <3>4, ReadingStep
      <3>5. CASE ~ServerReads
        <4>1. (\E t \in Seq(Elem) : Reading(t)') /\ UNCHANGED ingressVars
          BY <1>2, <3>1, <3>2, <3>5, OtherReading
        <4>2. IngressInv'
          BY <3>1, <4>1 DEF IngressInv, ingressVars
        <4> QED
          BY <3>3, <4>1, <4>2
      <3> QED
        BY <3>4, <3>5
    <2> QED
      BY <2>2 DEF OwnInv
  <1> QED
    BY <1>1, <1>2

\* As long as no RUN_STARTED was dropped and no RUN_ERROR of the channel arrived, every
\* frame is filed under its own run, however often it is replayed (_dispatch_frame).
THEOREM ReplaysKeepTheirRing == Spec => []OwnRing
  <1>1. OwnInv => OwnRing
    <2> SUFFICES ASSUME ~Excused, OwnInv, NEW r \in Runs, NEW i \in DOMAIN events[r]
                 PROVE  RunOf[events[r][i][1]] = r
      BY DEF OwnRing, Excused
    <2>1. IngressInv
      BY DEF OwnInv
    <2>2. i \in 1..Len(events[r])
      BY <2>1 DEF IngressInv
    <2> QED
      BY <2>1, <2>2 DEF IngressInv
  <1> QED
    BY <1>1, ChannelInvariant, OwnInit, OwnStep, PTL DEF Spec
=============================================================================
