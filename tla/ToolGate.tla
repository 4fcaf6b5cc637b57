------------------------------- MODULE ToolGate -------------------------------
(***************************************************************************)
(* The gate every tool call passes: the runner's hook sender               *)
(* (src/runner/hooks/audit.py) asks the backend's webhook                  *)
(* (src/src/api/webhooks.py), which asks the policy (src/src/hooks_audit), *)
(* records the call as in flight and writes the audit row; after the call  *)
(* a queued hook takes the record away and writes the second row.          *)
(*                                                                         *)
(* One runner, calls side by side.  A request the runner has given up goes *)
(* on in the backend: the handler is not cancelled.  The time limit of 2 s *)
(* (HOOK_DEADLINE_S) may pass at any moment, the replay window of 60 s     *)
(* (verify_hmac) while a hook waits in the queue.  Strands fires the       *)
(* AfterToolCall hook for a cancelled call too.                            *)
(***************************************************************************)
EXTENDS Integers, Sequences, FiniteSets

CONSTANTS
    Calls,      \* tool calls of the runner
    Shapes,     \* the kinds of call that occur, see Shape
    None,
    AfterCap    \* maxsize of _after_queue

\* A call by what the policy looks at: the tool ("plain" has no evaluator, "banned"
\* is in the deny set), whether its arguments bound the read, the size of its file.
Shape == [tool : {"plain", "banned", "file_read", "kloc_flows", "read_project_file"},
          bounded : BOOLEAN, large : BOOLEAN]

ASSUME GateAssumption ==
    /\ None \notin Calls
    /\ Shapes \subseteq Shape
    /\ AfterCap \in Nat

VARIABLES
    shape,      \* what each call is like
    call,       \* the call in the runner
    asked,      \* its BeforeToolCall request in the backend
    allowed,    \* the calls the policy allowed
    told,       \* its AfterToolCall request in the backend
    afterQueue, \* _after_queue
    posting,    \* what the worker is posting
    stopped,    \* stop() was called
    known,      \* the registry has an entry of this runner
    inFlight,   \* in_flight_tool_calls of the entry
    audit,      \* committed rows <<event type, call>>
    late,       \* history: calls given up before their answer came
    lost        \* history: AfterToolCall hooks that left no row

runnerVars == <<call, afterQueue, posting, stopped, late>>
backendVars == <<asked, allowed, told, known, inFlight, audit>>
vars == <<shape, runnerVars, backendVars, lost>>

Init ==
    /\ shape \in [Calls -> Shapes]
    /\ call = [c \in Calls |-> "idle"]
    /\ asked = [c \in Calls |-> "none"]
    /\ told = [c \in Calls |-> "none"]
    /\ afterQueue = <<>> /\ posting = None /\ stopped = FALSE
    /\ known = TRUE
    /\ allowed = {} /\ inFlight = {} /\ audit = {} /\ late = {} /\ lost = {}

-----------------------------------------------------------------------------
(* before_tool_call and its handler. *)

\* The hook posts BeforeToolCall and waits.
Asks(c) ==
    /\ call[c] = "idle" /\ ~stopped
    /\ call' = [call EXCEPT ![c] = "asking"]
    /\ asked' = [asked EXCEPT ![c] = "posted"]
    /\ UNCHANGED <<shape, afterQueue, posting, stopped, late, allowed, told, known, inFlight, audit, lost>>

\* Step of the handler of c's BeforeToolCall.
Handler(c, from, to) ==
    /\ asked[c] = from
    /\ asked' = [asked EXCEPT ![c] = to]
    /\ UNCHANGED <<shape, runnerVars, told, known, lost>>

\* The secret is looked up by runner id; kloc_hook_secret is no substitute (strict).
SecretFound == known

\* Without the secret the answer is 401.
Authenticates(c) ==
    /\ Handler(c, "posted", IF SecretFound THEN "deciding" ELSE "refused")
    /\ UNCHANGED <<allowed, inFlight, audit>>

\* FileReadEvaluator asks the size of a file read as a whole, for at most 0.5 s.
AwaitsStat(c) == shape[c].tool = "file_read" /\ ~shape[c].bounded

\* Whether the file turns out to be above the cap; no answer counts as no.
StatAnswers(c) == {shape[c].large, FALSE}

\* What KlocFlowsEvaluator and ReadProjectFileEvaluator refuse.
Unbounded(c) == shape[c].tool = "kloc_flows" /\ ~shape[c].bounded
TooLarge(c) == shape[c].tool = "read_project_file" /\ ~shape[c].bounded /\ shape[c].large

\* What Policy.decide refuses without asking anyone.
Denied(c) == shape[c].tool = "banned" \/ Unbounded(c) \/ TooLarge(c)

\* on_tool_call_started, or on_tool_call_completed for a denial.
Allows(c) ==
    /\ allowed' = allowed \cup {c}
    /\ inFlight' = IF known THEN inFlight \cup {c} ELSE inFlight
Denies(c) ==
    /\ inFlight' = inFlight \ {c}
    /\ UNCHANGED allowed

\* Policy.decide, and the registry is told; an unavailable size, or an evaluator
\* that raises, allows the call.
Decides(c) ==
    /\ Handler(c, "deciding", "recorded")
    /\ \/ AwaitsStat(c) /\ \E tooLarge \in StatAnswers(c) : IF tooLarge THEN Denies(c) ELSE Allows(c)
       \/ ~AwaitsStat(c) /\ Denied(c) /\ Denies(c)
       \/ ~AwaitsStat(c) /\ ~Denied(c) /\ Allows(c)
    /\ UNCHANGED audit

Decision(c) == IF c \in allowed THEN "tool_call.started" ELSE "tool_call.denied"

\* Mutant: the answer does not wait for the commit.
AnswersEarly(c) ==
    /\ Handler(c, "recorded", "answered")
    /\ UNCHANGED <<allowed, inFlight, audit>>

\* The row is committed, then the request is answered.
Answers(c) ==
    /\ Handler(c, "recorded", "answered")
    /\ audit' = audit \cup {<<Decision(c), c>>}
    /\ UNCHANGED <<allowed, inFlight>>

\* The transaction fails: 500, and the record stays.
AnswerFails(c) ==
    /\ Handler(c, "recorded", "refused")
    /\ UNCHANGED <<allowed, inFlight, audit>>

\* The answer reaches the hook in time; anything but an answer cancels the call.
Answered(c) ==
    /\ call[c] = "asking" /\ asked[c] \in {"answered", "refused"}
    /\ call' = [call EXCEPT ![c] =
                    IF asked[c] = "answered" /\ c \in allowed THEN "running" ELSE "cancelled"]
    /\ UNCHANGED <<shape, afterQueue, posting, stopped, late, backendVars, lost>>

\* policy_deadline_exceeded, or policy_unavailable when the connection fails: the
\* call is cancelled, whatever the backend makes of the request.
Deadline(c) ==
    /\ call[c] = "asking"
    /\ call' = [call EXCEPT ![c] = "cancelled"]
    /\ late' = late \cup {c}
    /\ UNCHANGED <<shape, afterQueue, posting, stopped, backendVars, lost>>

\* The request never gets there.
BeforeLost(c) ==
    /\ call[c] # "asking"
    /\ Handler(c, "posted", "none")
    /\ UNCHANGED <<allowed, inFlight, audit>>

-----------------------------------------------------------------------------
(* after_tool_call, the worker and the handler. *)

\* The call is over; its hook is queued, or dropped when the queue is full.
ToolReturns(c) ==
    /\ call[c] \in {"running", "cancelled"}
    /\ call' = [call EXCEPT ![c] = "over"]
    /\ IF Len(afterQueue) < AfterCap
       THEN afterQueue' = Append(afterQueue, c) /\ UNCHANGED lost
       ELSE lost' = lost \cup {c} /\ UNCHANGED afterQueue
    /\ UNCHANGED <<shape, posting, stopped, late, backendVars>>

\* The worker, or the drain in stop(), posts the next hook.
WorkerTakes ==
    /\ posting = None /\ afterQueue # <<>>
    /\ posting' = Head(afterQueue)
    /\ afterQueue' = Tail(afterQueue)
    /\ told' = [told EXCEPT ![Head(afterQueue)] = "posted"]
    /\ UNCHANGED <<shape, call, stopped, late, asked, allowed, known, inFlight, audit, lost>>

\* Mutant: an exception ends the worker.
WorkerGoesOnAfterSuccess ==
    /\ posting # None /\ told[posting] = "done"
    /\ posting' = None
    /\ UNCHANGED <<shape, call, afterQueue, stopped, late, backendVars, lost>>

\* The answer, an error or the time limit: the worker goes on.
WorkerGoesOn ==
    /\ posting # None
    /\ posting' = None
    /\ UNCHANGED <<shape, call, afterQueue, stopped, late, backendVars, lost>>

\* Step of the handler of c's AfterToolCall.
AfterHandler(c, from, to) ==
    /\ told[c] = from
    /\ told' = [told EXCEPT ![c] = to]
    /\ UNCHANGED <<shape, runnerVars, asked, allowed, known>>

\* 401: no entry, or a timestamp older than the replay window; or it never arrives.
AfterRefused(c) ==
    /\ AfterHandler(c, "posted", "refused")
    /\ lost' = lost \cup {c}
    /\ UNCHANGED <<inFlight, audit>>

\* Mutant: only a denial takes the record away.
AfterRecordsNothing(c) ==
    /\ SecretFound
    /\ AfterHandler(c, "posted", "recorded")
    /\ UNCHANGED <<inFlight, audit, lost>>

\* on_tool_call_completed
AfterRecords(c) ==
    /\ SecretFound
    /\ AfterHandler(c, "posted", "recorded")
    /\ inFlight' = inFlight \ {c}
    /\ UNCHANGED <<audit, lost>>

AfterCommits(c) ==
    /\ AfterHandler(c, "recorded", "done")
    /\ audit' = audit \cup {<<"tool_call.completed", c>>}
    /\ UNCHANGED <<inFlight, lost>>

AfterCommitFails(c) ==
    /\ AfterHandler(c, "recorded", "refused")
    /\ lost' = lost \cup {c}
    /\ UNCHANGED <<inFlight, audit>>

\* stop(): the worker is cancelled with what it was posting, the rest is drained.
Stop ==
    /\ ~stopped
    /\ \A c \in Calls : call[c] \in {"idle", "over"}
    /\ stopped' = TRUE
    /\ posting' = None
    /\ UNCHANGED <<shape, call, afterQueue, late, backendVars, lost>>

\* The entry leaves the registry: evicted, replaced, or the backend restarted.
EntryRemoved ==
    /\ known
    /\ known' = FALSE
    /\ inFlight' = {}
    /\ UNCHANGED <<shape, runnerVars, asked, allowed, told, audit, lost>>

BeforeStep(c) ==
    Authenticates(c) \/ Decides(c) \/ Answers(c) \/ Answered(c) \/ Deadline(c)

AfterStep(c) ==
    ToolReturns(c) \/ AfterRefused(c) \/ AfterRecords(c) \/ AfterCommits(c)

Next ==
    \/ \E c \in Calls :
        \/ Asks(c) \/ BeforeStep(c) \/ AnswerFails(c) \/ BeforeLost(c)
        \/ AfterStep(c) \/ AfterCommitFails(c)
    \/ WorkerTakes \/ WorkerGoesOn \/ Stop \/ EntryRemoved

Spec == Init /\ [][Next]_vars

\* Time limits pass, handlers end, tools return and the worker goes on.
FairSpec ==
    /\ Spec
    /\ \A c \in Calls : WF_vars(Answered(c) \/ Deadline(c)) /\ WF_vars(AfterStep(c))
    /\ WF_vars(WorkerTakes) /\ WF_vars(WorkerGoesOn)

-----------------------------------------------------------------------------
(* Properties. *)

\* No tool runs before the backend has committed that it was allowed to, whatever
\* times out or fails on the way (before_tool_call denies by default).
RunsOnlyRecorded ==
    \A c \in Calls :
        call[c] = "running" => c \in allowed /\ <<"tool_call.started", c>> \in audit

\* A call that is over does not stay in flight, where a crash would report it: its
\* second hook is still under way, or it was lost, or the first one was answered
\* too late and recorded a call that had been cancelled.
RecordEndsWithCall ==
    \A c \in inFlight :
        call[c] = "over" =>
            \/ c \in late \cup lost
            \/ c = posting \/ \E i \in DOMAIN afterQueue : afterQueue[i] = c
            \/ told[c] = "posted"

\* Every call is decided, and its end audited or known to be lost: no answer of the
\* backend, or none, holds up the agent or the hooks behind it.
EveryCallSettles ==
    \A c \in Calls :
        call[c] = "asking" ~> <<"tool_call.completed", c>> \in audit \/ c \in lost
=============================================================================
