------------------------------- MODULE RunRecord -------------------------------
(***************************************************************************)
(* What is left of a run: the agent's events as the wrapper of             *)
(* src/runner/agent_factory.py lets them out, the bubble the browser makes *)
(* of them (src/frontend/src/lib/reducer.ts), and the rows the persister   *)
(* writes (_persist_events in src/src/api/stream.py) through its debouncer *)
(* (src/src/streaming/debounce.py) and the repositories (src/src/repos).   *)
(*                                                                         *)
(* One run, whose assistant message every frame belongs to: the wrapper    *)
(* puts one id on all of them.  Modules RunnerChannel and EventStream are  *)
(* about the way in between, so a frame leaves the wrapper and reaches     *)
(* browser and persister in one step here.  The persister and the          *)
(* debouncer's timer are two tasks on one database session: their          *)
(* operations may overlap, and any operation may raise.  Other requests    *)
(* append user messages to the same session.                               *)
(***************************************************************************)
EXTENDS Integers, Sequences, FiniteSets, SequencesExt

CONSTANTS
    Calls,          \* tool calls of the run
    Users,          \* requests that append a user message meanwhile
    None,
    MaxSeqRetries,  \* _MAX_SEQ_RETRIES
    MaxText         \* bound: text deltas

ASSUME RecordAssumption ==
    /\ MaxSeqRetries \in Nat \ {0} /\ MaxText \in Nat
    /\ {"persister", "timer"} \cap Users = {} /\ None \notin Nat

Tasks == {"persister", "timer"}
Writers == Users \cup Tasks

VARIABLES
    run,        \* how far the wrapper is
    emitted,    \* the kinds of frame a tool call has had
    early,      \* history: the calls whose denial came before their start
    view,       \* the browser's bubble
    persister,  \* "ready", "busy", "over", or "dead"
    job,        \* the frame the persister is busy with
    buffer,     \* deltas in _MsgBuf
    timer,      \* flush_task is not done
    op,         \* the database operation of each writer
    chunk,      \* the deltas a task is flushing
    rowOf,      \* message_uuid of the run's message
    rows,       \* the run's rows in messages
    calls,      \* its rows in tool_calls
    numbers,    \* the seqs of the session's messages
    holed       \* history: a flush of the timer raised

agentVars == <<run, emitted, early>>
debounceVars == <<buffer, timer, chunk, holed>>
tableVars == <<rowOf, rows, calls, numbers>>
vars == <<agentVars, view, persister, job, op, debounceVars, tableVars>>

Absent == [state |-> "none", args |-> 0, result |-> FALSE]
Running == [Absent EXCEPT !.state = "running"]
Idle == [stage |-> "none", seq |-> 0, tries |-> 0, row |-> None]

Init ==
    /\ run = "idle"
    /\ emitted = [t \in Calls |-> {}] /\ early = {}
    /\ view = [shown |-> FALSE, text |-> <<>>, finalized |-> FALSE, calls |-> [t \in Calls |-> Absent]]
    /\ persister = "ready" /\ job = None
    /\ buffer = <<>> /\ timer = FALSE
    /\ op = [w \in Writers |-> IF w \in Users THEN [Idle EXCEPT !.stage = "read"] ELSE Idle]
    /\ chunk = [w \in Tasks |-> <<>>]
    /\ rowOf = None /\ rows = <<>>
    /\ calls = [t \in Calls |-> Absent]
    /\ numbers = {} /\ holed = FALSE

-----------------------------------------------------------------------------
(* Tool calls, as the browser and as the table keep them. *)

\* A second TOOL_CALL_START changes nothing.
CallStarted(call) == IF call = Absent THEN Running ELSE call

\* Without a row, or a card, the delta is lost.
ArgsAdded(call) == IF call = Absent THEN call ELSE [call EXCEPT !.args = @ + 1]

\* Mutant: a late end hides the denial.
CallDoneAnyway(call) == IF call # Absent THEN [call EXCEPT !.state = "done"] ELSE call

\* mark_done: only a running call is done.
CallDone(call) == IF call.state = "running" THEN [call EXCEPT !.state = "done"] ELSE call

ResultSet(call) == IF call = Absent THEN call ELSE [call EXCEPT !.result = TRUE]

\* mark_denied, whatever the state.
CallDenied(call) == IF call = Absent THEN call ELSE [call EXCEPT !.state = "denied"]

Updated(call, kind) ==
    CASE kind = "call" -> CallStarted(call)
      [] kind = "args" -> ArgsAdded(call)
      [] kind = "end" -> CallDone(call)
      [] kind = "result" -> ResultSet(call)
      [] kind = "denied" -> CallDenied(call)

\* ToolCallDenied in the browser: a card is added when there is none, and the
\* denial's reason takes the result's place.
CardDenied(card) == [card EXCEPT !.state = "denied", !.result = FALSE]

\* The reducer's cases; a card that shows a denial is never done.
CardUpdated(card, kind) ==
    CASE kind = "call" -> IF card = Absent THEN Running ELSE card
      [] kind = "args" -> IF card = Absent THEN card ELSE [card EXCEPT !.args = @ + 1]
      [] kind = "end" -> IF card = Absent \/ card.state = "denied" THEN card ELSE [card EXCEPT !.state = "done"]
      [] kind = "result" -> IF card = Absent THEN card ELSE [card EXCEPT !.result = TRUE]
      [] kind = "denied" -> CardDenied(card)

-----------------------------------------------------------------------------
(* The operations on the database session. *)

\* Mutant: the number is reserved, as a database sequence would.
NextSeqReserved ==
    LET held == numbers \cup {op[w].seq : w \in Writers}
    IN  1 + (IF held = {} THEN 0 ELSE Max(held))

NextSeq == 1 + (IF numbers = {} THEN 0 ELSE Max(numbers))

\* An operation on the message; without a row it begins with an INSERT.
OnRow == [stage |-> IF rowOf = None THEN "read" ELSE "write", seq |-> 0, tries |-> 0, row |-> rowOf]
Write == [Idle EXCEPT !.stage = "write"]

Raised(w) ==
    /\ op' = [op EXCEPT ![w] = Idle]
    /\ chunk' = IF w \in Tasks THEN [chunk EXCEPT ![w] = <<>>] ELSE chunk
    /\ persister' = IF w = "persister" THEN "dead" ELSE persister
    /\ timer' = (timer /\ w # "timer")
    /\ holed' = (holed \/ w = "timer")
    /\ UNCHANGED <<agentVars, view, job, buffer, tableVars>>

\* _next_seq
Reads(w) ==
    /\ op[w].stage = "read"
    /\ op' = [op EXCEPT ![w].stage = "insert", ![w].seq = NextSeq, ![w].tries = @ + 1]
    /\ UNCHANGED <<agentVars, view, persister, job, debounceVars, tableVars>>

\* The INSERT is committed; a task goes on with the row it has made.
Inserts(w) ==
    /\ op[w].stage = "insert" /\ op[w].seq \notin numbers
    /\ numbers' = numbers \cup {op[w].seq}
    /\ IF w \in Tasks
       THEN /\ rows' = Append(rows, [text |-> <<>>, finalized |-> FALSE])
            /\ rowOf' = Len(rows')
            /\ op' = [op EXCEPT ![w] = [Write EXCEPT !.row = Len(rows')]]
       ELSE op' = [op EXCEPT ![w] = Idle] /\ UNCHANGED <<rows, rowOf>>
    /\ UNCHANGED <<agentVars, view, persister, job, debounceVars, calls>>

\* Another writer has taken the number: a fresh read, or IntegrityError.
Collides(w) ==
    /\ op[w].stage = "insert" /\ op[w].seq \in numbers
    /\ IF op[w].tries < MaxSeqRetries
       THEN /\ op' = [op EXCEPT ![w].stage = "read"]
            /\ UNCHANGED <<agentVars, view, persister, job, debounceVars, tableVars>>
       ELSE Raised(w)

\* The database fails, or the session refuses two operations at once.
Fails(w) == op[w].stage # "none" /\ Raised(w)

Stored(w) == rows' = [rows EXCEPT ![op[w].row].text = @ \o chunk[w]]

-----------------------------------------------------------------------------
(* Frames: run() of the wrapper, then browser and persister. *)

\* The persister, if it still listens and is not busy, begins the operation.
Begins(kind, t, operation) ==
    IF persister = "ready"
    THEN /\ persister' = "busy" /\ job' = <<kind, t>>
         /\ op' = [op EXCEPT !["persister"] = operation]
    ELSE UNCHANGED <<persister, job, op>>

LockFree == op["timer"].stage = "none"

\* RUN_STARTED, and the bubble the wrapper opens itself.
RunStarts ==
    /\ run = "idle"
    /\ run' = "started"
    /\ UNCHANGED <<emitted, early, view, persister, job, op, debounceVars, tableVars>>

BubbleOpens ==
    /\ run = "started"
    /\ run' = "open"
    /\ view' = [view EXCEPT !.shown = TRUE, !.finalized = FALSE]
    /\ UNCHANGED <<emitted, early, persister, job, op, debounceVars, tableVars>>

\* on_content: the delta is buffered and the timer started, or at FLUSH_BYTES the
\* buffer is flushed.
Buffers(delta) ==
    \/ /\ persister = "ready" /\ LockFree
       /\ buffer' = Append(buffer, delta)
       /\ timer' = TRUE
       /\ UNCHANGED <<persister, job, op, chunk>>
    \/ /\ persister = "ready" /\ LockFree
       /\ Begins("text", None, OnRow)
       /\ chunk' = [chunk EXCEPT !["persister"] = Append(buffer, delta)]
       /\ buffer' = <<>>
       /\ UNCHANGED timer
    \/ /\ persister \in {"over", "dead"}
       /\ UNCHANGED <<persister, job, op, buffer, timer, chunk>>

AgentSays ==
    LET delta == Len(view.text) + 1
    IN  /\ run = "open" /\ delta <= MaxText
        /\ view' = [view EXCEPT !.text = Append(@, delta)]
        /\ Buffers(delta)
        /\ UNCHANGED <<agentVars, holed, tableVars>>

\* The order of a call's frames.  Its denial comes from the hook, which emits on the
\* channel itself: before the result, but maybe before the start.
MayFollow(kind, t) ==
    /\ kind \notin emitted[t]
    /\ kind \notin {"call", "denied"} => "call" \in emitted[t]
    /\ kind = "args" => "end" \notin emitted[t]
    /\ kind = "result" => "end" \in emitted[t]
    /\ kind = "denied" => "result" \notin emitted[t]

\* A frame of a tool call; TOOL_CALL_START needs the parent's row.
ToolFrame(kind, t) ==
    /\ run = "open" /\ persister # "busy"
    /\ MayFollow(kind, t)
    /\ emitted' = [emitted EXCEPT ![t] = @ \cup {kind}]
    /\ early' = IF kind = "denied" /\ "call" \notin emitted[t] THEN early \cup {t} ELSE early
    /\ view' = [view EXCEPT !.calls[t] = CardUpdated(@, kind)]
    /\ Begins(kind, t, IF kind = "call" THEN OnRow ELSE Write)
    /\ UNCHANGED <<run, debounceVars, tableVars>>

\* on_end: the timer is cancelled, the buffer flushed, the message finalized.
EndFlushes ==
    IF persister = "ready"
    THEN /\ LockFree
         /\ timer' = FALSE
         /\ buffer' = <<>>
         /\ chunk' = [chunk EXCEPT !["persister"] = buffer]
         /\ Begins("close", None, IF buffer = <<>> THEN [Write EXCEPT !.row = rowOf] ELSE OnRow)
    ELSE UNCHANGED <<persister, job, op, buffer, timer, chunk>>

\* The inner agent is done: the wrapper closes the bubble before the terminal event.
BubbleCloses ==
    /\ run = "open" /\ persister # "busy"
    /\ run' = "closing"
    /\ view' = [view EXCEPT !.finalized = TRUE]
    /\ EndFlushes
    /\ UNCHANGED <<emitted, early, holed, tableVars>>

\* The persister returns; its session is closed, whatever the timer is at.
Returns == persister' = (IF persister = "ready" THEN "over" ELSE persister)

RunEnds ==
    /\ run = "closing" /\ persister # "busy"
    /\ run' = "over"
    /\ Returns
    /\ UNCHANGED <<emitted, early, view, job, op, debounceVars, tableVars>>

\* RUN_ERROR past the wrapper: run() has raised, or the runner is lost.
RunBreaks ==
    /\ run \in {"idle", "started", "open", "closing"} /\ persister # "busy"
    /\ run' = "over"
    /\ Returns
    /\ UNCHANGED <<emitted, early, view, job, op, debounceVars, tableVars>>

\* Nothing came for idle_budget_s: the persister returns and is not replaced.
PersisterTimesOut ==
    /\ persister = "ready" /\ run # "over"
    /\ persister' = "dead"
    /\ UNCHANGED <<agentVars, view, job, op, debounceVars, tableVars>>

-----------------------------------------------------------------------------
(* The ends of the operations. *)

Ready ==
    /\ persister' = "ready" /\ job' = None
    /\ op' = [op EXCEPT !["persister"] = Idle]

PersisterFlushed ==
    /\ op["persister"].stage = "write" /\ chunk["persister"] # <<>>
    /\ Stored("persister")
    /\ chunk' = [chunk EXCEPT !["persister"] = <<>>]
    /\ IF job[1] = "close" THEN UNCHANGED <<persister, job, op>> ELSE Ready
    /\ UNCHANGED <<agentVars, view, buffer, timer, holed, rowOf, calls, numbers>>

\* _finalize does nothing for a message without a row.
Finalized ==
    /\ op["persister"].stage = "write" /\ chunk["persister"] = <<>> /\ job[1] = "close"
    /\ rows' = IF op["persister"].row = None THEN rows
               ELSE [rows EXCEPT ![op["persister"].row].finalized = TRUE]
    /\ Ready
    /\ UNCHANGED <<agentVars, view, debounceVars, rowOf, calls, numbers>>

CallWritten ==
    /\ op["persister"].stage = "write" /\ job[1] \notin {"text", "close"}
    /\ calls' = [calls EXCEPT ![job[2]] = Updated(@, job[1])]
    /\ Ready
    /\ UNCHANGED <<agentVars, view, debounceVars, rowOf, rows, numbers>>

\* Mutant: the buffer is cleared when the flush is over.
TimerFiresKeepingBuffer ==
    /\ timer /\ LockFree
    /\ ~(persister = "busy" /\ job[1] \in {"text", "close"})
    /\ IF buffer = <<>> THEN timer' = FALSE /\ UNCHANGED <<op, chunk>>
       ELSE /\ op' = [op EXCEPT !["timer"] = OnRow]
            /\ chunk' = [chunk EXCEPT !["timer"] = buffer]
            /\ UNCHANGED timer
    /\ UNCHANGED <<agentVars, view, persister, job, buffer, holed, tableVars>>

\* _flush_after_interval gets the lock; it clears the buffer before it writes.
TimerFires ==
    /\ timer /\ LockFree
    /\ ~(persister = "busy" /\ job[1] \in {"text", "close"})
    /\ IF buffer = <<>> THEN timer' = FALSE /\ UNCHANGED <<op, chunk>>
       ELSE /\ op' = [op EXCEPT !["timer"] = OnRow]
            /\ chunk' = [chunk EXCEPT !["timer"] = buffer]
            /\ UNCHANGED timer
    /\ buffer' = <<>>
    /\ UNCHANGED <<agentVars, view, persister, job, holed, tableVars>>

TimerFlushed ==
    /\ op["timer"].stage = "write"
    /\ Stored("timer")
    /\ chunk' = [chunk EXCEPT !["timer"] = <<>>]
    /\ op' = [op EXCEPT !["timer"] = Idle]
    /\ timer' = FALSE
    /\ UNCHANGED <<agentVars, view, persister, job, buffer, holed, rowOf, calls, numbers>>

\* The backend ends and boots: tasks are gone, sweep_orphaned_messages finalizes.
BackendRestarts ==
    /\ run' = "over" /\ persister' = "dead" /\ job' = None
    /\ buffer' = <<>> /\ timer' = FALSE /\ chunk' = [w \in Tasks |-> <<>>]
    /\ op' = [w \in Writers |-> Idle]
    /\ rows' = [i \in DOMAIN rows |-> [rows[i] EXCEPT !.finalized = TRUE]]
    /\ rowOf' = None
    /\ UNCHANGED <<emitted, early, view, holed, calls, numbers>>

\* list_messages, as persistedToMessageView shows it: the run's rows by number, with
\* their calls.
Reloaded ==
    [text |-> FoldLeft(LAMBDA text, row : text \o row.text, <<>>, rows),
     finalized |-> \A i \in DOMAIN rows : rows[i].finalized,
     calls |-> calls]

Kinds == {"call", "args", "end", "result", "denied"}

Next ==
    \/ RunStarts \/ BubbleOpens \/ AgentSays \/ BubbleCloses \/ RunEnds \/ RunBreaks
    \/ \E t \in Calls, kind \in Kinds : ToolFrame(kind, t)
    \/ PersisterTimesOut \/ PersisterFlushed \/ Finalized \/ CallWritten
    \/ TimerFires \/ TimerFlushed
    \/ \E w \in Writers : Reads(w) \/ Inserts(w) \/ Collides(w) \/ Fails(w)
    \/ BackendRestarts

Spec == Init /\ [][Next]_vars

-----------------------------------------------------------------------------
(* Properties. *)

\* No message ever gets a number below one that was read already, whoever else
\* writes: list_messages with a cursor (after) misses none.
SeqsContiguous == numbers = 1..Cardinality(numbers)

\* The stored text is the published text up to some point, without a hole and in
\* order, wherever the persister or the backend stopped; unless a flush of the
\* timer raised, whose deltas are gone while later ones are stored.
StoredTextHasNoHole == ~holed => IsPrefix(Reloaded.text, view.text)

\* Once the persister has seen the end of the run, a reload (list_messages,
\* persistedToMessageView) shows what the browser showed live.  A bubble without
\* content has no row, the message is split in two if the first flush of the timer
\* overlaps the first TOOL_CALL_START, and a denial that comes before its call's start
\* makes a card but updates no row.
ReloadMatchesLive ==
    persister = "over" /\ ~timer /\ ~holed /\ Len(rows) < 2 =>
        /\ Reloaded.text = view.text
        /\ \A t \in Calls \ early : Reloaded.calls[t] = view.calls[t]
        /\ rows # <<>> => Reloaded.finalized = view.finalized
=============================================================================
