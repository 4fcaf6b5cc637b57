---------------------------- MODULE ToolGateProofs ----------------------------
(***************************************************************************)
(* Proofs about ToolGate, for any calls, any shapes of calls and any size  *)
(* of the queue of after-hooks.                                            *)
(***************************************************************************)
EXTENDS ToolGate, TLAPS

GateTypeOK ==
    /\ shape \in [Calls -> Shape]
    /\ call \in [Calls -> {"idle", "asking", "running", "cancelled", "over"}]
    /\ asked \in [Calls -> {"none", "posted", "deciding", "recorded", "answered", "refused"}]
    /\ told \in [Calls -> {"none", "posted", "recorded", "done", "refused"}]
    /\ afterQueue \in Seq(Calls)
    /\ posting \in Calls \cup {None}
    /\ allowed \in SUBSET Calls /\ inFlight \in SUBSET Calls
    /\ late \in SUBSET Calls /\ lost \in SUBSET Calls

\* An answered request has a row that says how it was decided.
AnswersAreRecorded == \A c \in Calls : asked[c] = "answered" => <<Decision(c), c>> \in audit

\* A call gets past its first hook only by the end of that hook's request, or by
\* giving it up: no decision about it is still to come.
DecidedBefore ==
    \A c \in Calls :
        call[c] \in {"running", "cancelled", "over"} => c \in late \/ asked[c] \in {"answered", "refused"}

Waiting(c) == \E i \in DOMAIN afterQueue : afterQueue[i] = c

\* What keeps the record of a call that is over, the worker's own variable aside.
RecordIsTracked ==
    \A c \in inFlight : call[c] = "over" => c \in late \cup lost \/ Waiting(c) \/ told[c] = "posted"

GateInv ==
    /\ GateTypeOK
    /\ AnswersAreRecorded
    /\ RunsOnlyRecorded
    /\ DecidedBefore
    /\ RecordIsTracked

LEMMA GateInit == Init => GateInv
  BY GateAssumption
     DEF Init, GateInv, GateTypeOK, AnswersAreRecorded, RunsOnlyRecorded, DecidedBefore, RecordIsTracked

-----------------------------------------------------------------------------
(* The invariant is preserved: requests before a call, the call itself, the hooks *)
(* after it. *)

LEMMA BeforeKeeps ==
    ASSUME GateInv, NEW c \in Calls,
           Asks(c) \/ Authenticates(c) \/ Decides(c) \/ Answers(c) \/ AnswerFails(c) \/ BeforeLost(c)
    PROVE  GateInv'
  <1> USE DEF GateInv, GateTypeOK, AnswersAreRecorded, RunsOnlyRecorded, DecidedBefore,
             RecordIsTracked, Waiting, Decision, Handler, runnerVars
  <1>1. CASE Asks(c)
    BY <1>1 DEF Asks
  <1>2. CASE Authenticates(c)
    BY <1>2 DEF Authenticates
  <1>3. CASE Decides(c)
    BY <1>3 DEF Decides, Allows, Denies
  <1>4. CASE Answers(c)
    BY <1>4 DEF Answers
  <1>5. CASE AnswerFails(c)
    BY <1>5 DEF AnswerFails
  <1>6. CASE BeforeLost(c)
    BY <1>6 DEF BeforeLost
  <1> QED
    BY <1>1, <1>2, <1>3, <1>4, <1>5, <1>6

LEMMA ToolReturnsKeeps ==
    ASSUME GateInv, NEW c \in Calls, ToolReturns(c) PROVE GateInv'
  <1> USE DEF GateInv, GateTypeOK
  <1>1. /\ call[c] \in {"running", "cancelled"} /\ call' = [call EXCEPT ![c] = "over"]
        /\ UNCHANGED <<shape, posting, stopped, late, backendVars>>
    BY DEF ToolReturns
  <1>2. \/ afterQueue' = Append(afterQueue, c) /\ lost' = lost
        \/ afterQueue' = afterQueue /\ lost' = lost \cup {c}
    BY DEF ToolReturns
  <1>3. /\ afterQueue' \in Seq(Calls) /\ lost \subseteq lost' /\ lost' \in SUBSET Calls
        /\ \A d \in Calls : Waiting(d) => Waiting(d)'
        /\ c \in lost' \/ Waiting(c)'
    <2>1. CASE afterQueue' = Append(afterQueue, c) /\ lost' = lost
      <3>1. /\ Append(afterQueue, c) \in Seq(Calls)
            /\ DOMAIN Append(afterQueue, c) = 1..Len(afterQueue) + 1
            /\ \A i \in DOMAIN afterQueue : Append(afterQueue, c)[i] = afterQueue[i]
            /\ Append(afterQueue, c)[Len(afterQueue) + 1] = c
            /\ DOMAIN afterQueue = 1..Len(afterQueue) /\ Len(afterQueue) \in Nat
        OBVIOUS
      <3> QED
        BY <2>1, <3>1, SMTT(30) DEF Waiting
    <2>2. CASE afterQueue' = afterQueue /\ lost' = lost \cup {c}
      BY <2>2 DEF Waiting
    <2> QED
      BY <1>2, <2>1, <2>2
  <1>4. GateTypeOK'
    BY <1>1, <1>3 DEF backendVars
  <1>5. (AnswersAreRecorded /\ RunsOnlyRecorded /\ DecidedBefore)'
    BY <1>1 DEF backendVars, AnswersAreRecorded, RunsOnlyRecorded, DecidedBefore, Decision
  <1>6. RecordIsTracked'
    BY <1>1, <1>3 DEF backendVars, RecordIsTracked
  <1> QED
    BY <1>4, <1>5, <1>6

LEMMA CallKeeps ==
    ASSUME GateInv, NEW c \in Calls, Answered(c) \/ Deadline(c) \/ ToolReturns(c)
    PROVE  GateInv'
  <1> USE DEF GateInv, GateTypeOK, AnswersAreRecorded, RunsOnlyRecorded, DecidedBefore,
             RecordIsTracked, Waiting, Decision, backendVars
  <1>1. CASE Answered(c)
    BY <1>1 DEF Answered
  <1>2. CASE Deadline(c)
    BY <1>2 DEF Deadline
  <1> QED
    BY <1>1, <1>2, ToolReturnsKeeps

LEMMA WorkerTakesKeeps ==
    ASSUME GateInv, WorkerTakes PROVE GateInv'
  <1> USE DEF GateInv, GateTypeOK
  <1>1. /\ afterQueue # <<>> /\ afterQueue' = Tail(afterQueue)
        /\ posting' = Head(afterQueue)
        /\ told' = [told EXCEPT ![Head(afterQueue)] = "posted"]
        /\ UNCHANGED <<shape, call, stopped, late, asked, allowed, known, inFlight, audit, lost>>
    BY DEF WorkerTakes
  <1>2. /\ Head(afterQueue) \in Calls /\ Head(afterQueue) = afterQueue[1]
        /\ Tail(afterQueue) \in Seq(Calls)
        /\ Len(Tail(afterQueue)) = Len(afterQueue) - 1 /\ Len(afterQueue) \in Nat
        /\ \A i \in 1..Len(afterQueue) - 1 : Tail(afterQueue)[i] = afterQueue[i + 1]
    BY <1>1
  <1>3. ASSUME NEW d \in Calls, Waiting(d), d # Head(afterQueue) PROVE Waiting(d)'
    <2>1. PICK i \in 1..Len(afterQueue) : afterQueue[i] = d
      BY <1>3 DEF Waiting
    <2>2. i - 1 \in DOMAIN Tail(afterQueue) /\ Tail(afterQueue)[i - 1] = d
      BY <1>2, <1>3, <2>1
    <2> QED
      BY <1>1, <2>2 DEF Waiting
  <1>4. GateTypeOK'
    BY <1>1, <1>2
  <1>5. (AnswersAreRecorded /\ RunsOnlyRecorded /\ DecidedBefore)'
    BY <1>1 DEF AnswersAreRecorded, RunsOnlyRecorded, DecidedBefore, Decision
  <1>6. RecordIsTracked'
    BY <1>1, <1>2, <1>3 DEF RecordIsTracked
  <1> QED
    BY <1>4, <1>5, <1>6

LEMMA AfterKeeps ==
    ASSUME GateInv, NEW c \in Calls,
           AfterRefused(c) \/ AfterRecords(c) \/ AfterCommits(c) \/ AfterCommitFails(c)
    PROVE  GateInv'
  <1> USE DEF GateInv, GateTypeOK, AnswersAreRecorded, RunsOnlyRecorded, DecidedBefore,
             RecordIsTracked, Waiting, Decision, AfterHandler, runnerVars
  <1>1. CASE AfterRefused(c)
    BY <1>1 DEF AfterRefused
  <1>2. CASE AfterRecords(c)
    BY <1>2 DEF AfterRecords
  <1>3. CASE AfterCommits(c)
    BY <1>3 DEF AfterCommits
  <1>4. CASE AfterCommitFails(c)
    BY <1>4 DEF AfterCommitFails
  <1> QED
    BY <1>1, <1>2, <1>3, <1>4

LEMMA GateStep == GateInv /\ [Next]_vars => GateInv'
  <1> SUFFICES ASSUME GateInv, [Next]_vars PROVE GateInv'
    OBVIOUS
  <1>1. CASE WorkerGoesOn \/ Stop \/ EntryRemoved \/ UNCHANGED vars
    BY <1>1 DEF WorkerGoesOn, Stop, EntryRemoved, vars, runnerVars, backendVars, GateInv, GateTypeOK,
       AnswersAreRecorded, RunsOnlyRecorded, DecidedBefore, RecordIsTracked, Waiting, Decision
  <1> QED
    BY <1>1, BeforeKeeps, CallKeeps, WorkerTakesKeeps, AfterKeeps DEF Next, BeforeStep, AfterStep

LEMMA GateInvariant == Spec => []GateInv
  BY GateInit, GateStep, PTL DEF Spec

-----------------------------------------------------------------------------
(* The theorems. *)

\* Default deny (before_tool_call): no tool runs before the backend has committed
\* that it was allowed to, whatever times out, fails or comes late.
THEOREM OnlyRecordedCallsRun == Spec => []RunsOnlyRecorded
  <1>1. GateInv => RunsOnlyRecorded
    BY DEF GateInv
  <1> QED
    BY <1>1, GateInvariant, PTL

\* The record of an ended call goes away, except where a hook was lost or the first
\* one was given up (on_tool_call_completed).
THEOREM RecordsEnd == Spec => []RecordEndsWithCall
  <1>1. GateInv => RecordEndsWithCall
    BY DEF GateInv, GateTypeOK, RecordIsTracked, RecordEndsWithCall, Waiting
  <1> QED
    BY <1>1, GateInvariant, PTL
=============================================================================
