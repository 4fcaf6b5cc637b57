---------------------------- MODULE RunnerRegistry ----------------------------
(***************************************************************************)
(* The backend's registry of per-session runner containers                 *)
(* (src/src/runner_mgmt/registry.py) with the two background tasks every   *)
(* installed entry owns, the warm-idle countdown (warm_idle.py) and the    *)
(* heartbeat watcher (heartbeat.py), and the Docker handle they terminate  *)
(* (docker_runner.py).                                                     *)
(*                                                                         *)
(* Every actor is an asyncio coroutine of one event loop, so a coroutine   *)
(* runs undisturbed from one await to the next.  The variable loop names   *)
(* the POST whose coroutine is between two awaits; while it is set nobody  *)
(* else moves.  The background tasks and the frame handlers reach their    *)
(* next await in one action.  _lock is never held over an await, so it     *)
(* never makes anyone wait and is not a variable.                          *)
(*                                                                         *)
(* One POST /stream is one member of Posts.  It mints the runner_id of its *)
(* hydration payload, so the runner it may spawn carries its name, and so  *)
(* do the asyncio.Lock it may create in _spawn_locks and the run it asks   *)
(* for.  The ingress calls on_run_finished for every RUN_FINISHED frame,   *)
(* and a runner sends the frames of its older runs again whenever it       *)
(* reconnects (RunnerChannel), so that frame may arrive at any time and    *)
(* any number of times: Tasks bounds how many countdowns are started.      *)
(*                                                                         *)
(* Timing.  A heartbeat budget may run out at any time (the network may    *)
(* lose beats), but the warm-idle window (60 s) is taken to outlast what   *)
(* runs while it counts: one container.show() of the same handle, the      *)
(* 50 ms life of a cached is_alive, the insert of the runner_spawned row,  *)
(* a policy decision, and the turn of a coroutine that is ready.           *)
(* WindowElapsed states this.                                              *)
(***************************************************************************)
EXTENDS Naturals

CONSTANTS
    Posts,          \* POST /stream requests; each also names its runner and its lock
    Tasks,          \* warm-idle tasks, numbered as they start: one per RUN_FINISHED that finds an entry
    Sessions,       \* session ids
    SessionOf,      \* the session a POST is for
    None,           \* no entry, no lock, no session, nobody on the loop
    ToolUsers,      \* the runners that report a tool call
    Overlap,        \* may a client POST before the session's last run finished?
    Caching,        \* may an is_alive answer be reused within its 50 ms?
    CanCrash,       \* may a container exit by itself?
    CanExpire,      \* may a heartbeat budget run out?
    DockerFaults    \* Docker calls that may raise: "stop", "wait", "delete", "spawn", "show"

ASSUME ConstantsAssumption ==
    /\ SessionOf \in [Posts -> Sessions]
    /\ None \notin Posts /\ None \notin Sessions /\ None \notin Tasks
    /\ Tasks \subseteq Nat
    /\ ToolUsers \subseteq Posts
    /\ Overlap \in BOOLEAN /\ Caching \in BOOLEAN /\ CanCrash \in BOOLEAN /\ CanExpire \in BOOLEAN
    /\ DockerFaults \subseteq {"stop", "wait", "delete", "spawn", "show"}

VARIABLES
    entries,        \* _entries: session -> the runner of its RegistryEntry
    byRunner,       \* _by_runner_id: runner -> session
    spawnLocks,     \* _spawn_locks: session -> lock object
    loop,           \* the POST running on the event loop between two awaits
    pc,             \* where each POST's coroutine stands
    ent,            \* its local `entry` / `existing`
    awaited,        \* the warm-idle task it awaits in await_kill_in_flight
    lock,           \* the lock object it waits for or holds
    answer,         \* what the Docker daemon answered to its container.show()
    container,      \* the container of a runner, as the daemon has it
    dead,           \* handle._dead
    files,          \* runners whose hydration file is on the shared volume
    cut,            \* history: runners whose terminate was cancelled, or could not delete
    cache,          \* entry._is_alive_cache
    current,        \* warm_idle._task of a runner
    killing,        \* warm_idle._killing of a runner
    task,           \* where each warm-idle task stands
    owner,          \* the runner whose WarmIdleManager created the task
    disturbed,      \* history: runs under way while another run's RUN_FINISHED started a countdown
    hb,             \* where the heartbeat task of a runner stands
    tool,           \* what the backend accepted of a runner's tool call
    ended,          \* runners whose AfterToolCall has been handled
    inFlight,       \* entry.in_flight_tool_calls: runners whose call is recorded
    audit           \* audit rows written, <<event type, runner>>

registryVars == <<entries, byRunner, spawnLocks>>
postVars     == <<pc, ent, awaited, lock, answer>>
dockerVars   == <<container, dead, files, cut>>
warmVars     == <<current, killing, task, owner, disturbed>>
toolVars     == <<tool, ended, inFlight>>
vars == <<registryVars, loop, postVars, dockerVars, cache, warmVars, hb,
          toolVars, audit>>

\* The awaits of _await_idle_then_kill; "hbstop" is `await heartbeat.stop()`.
Terminating == {"stop", "wait", "delete"}
TaskPhases  == {"none", "countdown", "hbstop", "audit", "done"} \cup Terminating
HbPhases    == {"none", "waiting", "lost", "crashed", "done"} \cup Terminating

Probing == {"probe1", "answered1", "probe2", "answered2"}
PostPhases == Probing \cup {"idle", "awaitkill", "refetch", "getlock", "lockwait", "locked",
                            "spawning", "auditing", "returned", "finished", "errored",
                            "failed"}

TypeOK ==
    /\ entries \in [Sessions -> Posts \cup {None}]
    /\ byRunner \in [Posts -> Sessions \cup {None}]
    /\ spawnLocks \in [Sessions -> Posts \cup {None}]
    /\ loop \in Posts \cup {None}
    /\ pc \in [Posts -> PostPhases]
    /\ ent \in [Posts -> Posts \cup {None}]
    /\ awaited \in [Posts -> Tasks \cup {None}]
    /\ lock \in [Posts -> Posts \cup {None}]
    /\ answer \in [Posts -> BOOLEAN]
    /\ container \in [Posts -> {"none", "running", "exited", "deleted"}]
    /\ dead \in [Posts -> BOOLEAN]
    /\ files \in SUBSET Posts
    /\ cut \in SUBSET Posts
    /\ cache \in [Posts -> {"empty", "alive", "dead"}]
    /\ current \in [Posts -> Tasks \cup {None}]
    /\ killing \in [Posts -> BOOLEAN]
    /\ task \in [Tasks -> TaskPhases]
    /\ owner \in [Tasks -> Posts \cup {None}]
    /\ disturbed \in SUBSET Posts
    /\ hb \in [Posts -> HbPhases]
    /\ tool \in [Posts -> {"none", "deciding", "open", "closed"}]
    /\ ended \in SUBSET Posts
    /\ inFlight \in [Posts -> SUBSET Posts]
    /\ audit \in SUBSET ({"runner_spawned", "runner_warm_idle_evicted",
                          "runner_heartbeat_lost", "tool_call.crashed"} \X Posts)

Init ==
    /\ entries = [s \in Sessions |-> None]
    /\ byRunner = [r \in Posts |-> None]
    /\ spawnLocks = [s \in Sessions |-> None]
    /\ loop = None
    /\ pc = [p \in Posts |-> "idle"]
    /\ ent = [p \in Posts |-> None]
    /\ awaited = [p \in Posts |-> None]
    /\ lock = [p \in Posts |-> None]
    /\ answer = [p \in Posts |-> FALSE]
    /\ container = [r \in Posts |-> "none"]
    /\ dead = [r \in Posts |-> FALSE]
    /\ files = {}
    /\ cut = {}
    /\ cache = [r \in Posts |-> "empty"]
    /\ current = [r \in Posts |-> None]
    /\ killing = [r \in Posts |-> FALSE]
    /\ task = [t \in Tasks |-> "none"]
    /\ owner = [t \in Tasks |-> None]
    /\ disturbed = {}
    /\ hb = [r \in Posts |-> "none"]
    /\ tool = [r \in Posts |-> "none"]
    /\ ended = {}
    /\ inFlight = [r \in Posts |-> {}]
    /\ audit = {}

-----------------------------------------------------------------------------
(* Pieces shared by several handlers. *)

\* Mutant: _remove_entry before it had expected_runner_id.
StaleUnchecked(s, expected) == FALSE

\* _remove_entry: `expected` is None when the caller passes no expected_runner_id.
Stale(s, expected) ==
    entries[s] # None /\ expected # None /\ entries[s] # expected

RemoveEntry(s, expected) ==
    IF Stale(s, expected)
    THEN UNCHANGED registryVars
    ELSE /\ entries' = [entries EXCEPT ![s] = None]
         /\ byRunner' = [r \in Posts |-> IF r = entries[s] THEN None ELSE byRunner[r]]
         /\ spawnLocks' = [spawnLocks EXCEPT ![s] = None]

\* Mutant: a cancelled task keeps a phase of its own.
CancelledApart(phase) == "cancelled"

\* What Task.cancel() makes of a countdown task: it ends at its await, except
\* in `await heartbeat.stop()`, which swallows the CancelledError.
Cancelled(phase) == IF phase = "hbstop" THEN "hbstop" ELSE "done"

\* Cancelling a terminate of r does not recall the request the daemon has.
Abandon(r, phase) ==
    /\ container' \in {container}
           \cup (IF phase = "stop" /\ container[r] = "running"
                 THEN {[container EXCEPT ![r] = "exited"]} ELSE {})
           \cup (IF phase = "delete" THEN {[container EXCEPT ![r] = "deleted"]} ELSE {})
    /\ cut' = IF phase \in Terminating THEN cut \cup {r} ELSE cut

\* Mutant: a message sets _activity but does not cancel the countdown.
OnUserMessageKeepsTimer(r) == task' = task

\* WarmIdleManager.on_user_message: cancel the countdown, never the kill.
OnUserMessage(r) ==
    task' = IF killing[r] \/ current[r] = None
            THEN task
            ELSE [task EXCEPT ![current[r]] = Cancelled(@)]

KillInFlight(r) ==
    killing[r] /\ current[r] # None /\ task[current[r]] # "done"

\* Mutant: DockerRunner.is_alive does not look at _dead.
KnownDeadByCache(r) == cache[r] = "dead"

\* The part of RegistryEntry.is_alive and DockerRunner.is_alive that needs no
\* await: a cached value, or a handle already marked dead.
KnownAlive(r) == cache[r] = "alive"
KnownDead(r)  == cache[r] = "dead" \/ (cache[r] = "empty" /\ dead[r])
CacheAnswer(r, alive) ==
    cache' = IF Caching THEN [cache EXCEPT ![r] = IF alive THEN "alive" ELSE "dead"]
                        ELSE cache

Free == loop = None
LockFree(l) == \A q \in Posts : lock[q] = l => pc[q] = "lockwait"

\* The three awaits of DockerRunner.terminate.  A call that raises is logged
\* and terminate goes on; _dead was set before the first of them.
StopReturns(r) ==
    /\ container' \in {[container EXCEPT ![r] = IF @ = "running" THEN "exited" ELSE @]}
                      \cup (IF "stop" \in DockerFaults THEN {container} ELSE {})
    /\ UNCHANGED <<files, cut>>
WaitReturns(r) ==
    /\ container[r] # "running" \/ "wait" \in DockerFaults
    /\ UNCHANGED <<container, files, cut>>
Deletes(r) ==
    \/ container' = [container EXCEPT ![r] = "deleted"] /\ UNCHANGED cut
    \/ "delete" \in DockerFaults /\ UNCHANGED container /\ cut' = cut \cup {r}

\* Mutant: terminate leaves the hydration file.
DeleteKeepsFile(r) == Deletes(r) /\ UNCHANGED files

DeleteReturns(r) == Deletes(r) /\ files' = files \ {r}

-----------------------------------------------------------------------------
(* get_or_spawn, called by stream_post, from await to await. *)

\* The client is not waiting for an answer to this POST.
Settled == {"idle", "finished", "errored", "failed"}

\* Entry of get_or_spawn: with an entry, cancel its countdown and await a kill
\* already in flight.
Begin(p) ==
    LET s == SessionOf[p]
        e == entries[s]
    IN  /\ Free /\ pc[p] = "idle"
        /\ Overlap \/ \A q \in Posts : SessionOf[q] = s => pc[q] \in Settled
        /\ \/ /\ e = None
              /\ pc' = [pc EXCEPT ![p] = "getlock"]
              /\ loop' = p
              /\ UNCHANGED <<ent, awaited, task>>
           \/ /\ e # None
              /\ OnUserMessage(e)
              /\ ent' = [ent EXCEPT ![p] = e]
              /\ IF KillInFlight(e)
                 THEN /\ pc' = [pc EXCEPT ![p] = "awaitkill"]
                      /\ awaited' = [awaited EXCEPT ![p] = current[e]]
                      /\ UNCHANGED loop
                 ELSE /\ pc' = [pc EXCEPT ![p] = "refetch"]
                      /\ loop' = p
                      /\ UNCHANGED awaited
        /\ UNCHANGED <<registryVars, lock, answer, dockerVars, cache, current,
                       killing, owner, disturbed, hb, toolVars, audit>>

\* The awaited kill task ended, normally or cancelled.
KillSettled(p) ==
    /\ Free /\ pc[p] = "awaitkill"
    /\ task[awaited[p]] = "done"
    /\ pc' = [pc EXCEPT ![p] = "refetch"]
    /\ awaited' = [awaited EXCEPT ![p] = None]
    /\ loop' = p
    /\ UNCHANGED <<registryVars, ent, lock, answer, dockerVars, cache, warmVars,
                   hb, toolVars, audit>>

\* get_or_spawn returned r; stream_post goes on with r.warm_idle.on_user_message().
Return(p, r) ==
    /\ pc' = [pc EXCEPT ![p] = "returned"]
    /\ ent' = [ent EXCEPT ![p] = r]
    /\ lock' = [lock EXCEPT ![p] = None]
    /\ answer' = [answer EXCEPT ![p] = FALSE]
    /\ loop' = None
    /\ OnUserMessage(r)
    /\ UNCHANGED <<awaited, current, killing, owner, disturbed>>

\* Re-fetch after the kill settled: reuse a live entry, drop a dead one.
Refetch(p) ==
    LET s == SessionOf[p]
        e == entries[s]
    IN  /\ loop = p /\ pc[p] = "refetch"
        /\ \/ /\ e = None
              /\ pc' = [pc EXCEPT ![p] = "getlock"]
              /\ ent' = [ent EXCEPT ![p] = None]
              /\ UNCHANGED <<registryVars, loop, awaited, lock, answer, cache, warmVars>>
           \/ /\ e # None /\ KnownAlive(e)
              /\ Return(p, e)
              /\ UNCHANGED <<registryVars, cache>>
           \/ /\ e # None /\ KnownDead(e)
              /\ CacheAnswer(e, FALSE)
              /\ RemoveEntry(s, None)
              /\ pc' = [pc EXCEPT ![p] = "getlock"]
              /\ ent' = [ent EXCEPT ![p] = None]
              /\ UNCHANGED <<loop, awaited, lock, answer, warmVars>>
           \/ /\ e # None /\ ~KnownAlive(e) /\ ~KnownDead(e)
              /\ pc' = [pc EXCEPT ![p] = "probe1"]
              /\ ent' = [ent EXCEPT ![p] = e]
              /\ loop' = None
              /\ UNCHANGED <<registryVars, awaited, lock, answer, cache, warmVars>>
        /\ UNCHANGED <<dockerVars, hb, toolVars, audit>>

\* The daemon answers container.show(); the coroutine resumes later, when the
\* answer may already be out of date.
DaemonAnswers(p) ==
    /\ Free /\ pc[p] \in {"probe1", "probe2"}
    /\ pc' = [pc EXCEPT ![p] = IF @ = "probe1" THEN "answered1" ELSE "answered2"]
    /\ \/ answer' = [answer EXCEPT ![p] = container[ent[p]] = "running"]
       \/ "show" \in DockerFaults /\ answer' = [answer EXCEPT ![p] = FALSE]
    /\ UNCHANGED <<registryVars, loop, ent, awaited, lock, dockerVars, cache,
                   warmVars, hb, toolVars, audit>>

\* First is_alive: alive, return the entry; dead, drop whatever entry the
\* session has now (no expected_runner_id) and go for the lock.
FirstCheckResumes(p) ==
    /\ Free /\ pc[p] = "answered1"
    /\ CacheAnswer(ent[p], answer[p])
    /\ IF answer[p]
       THEN Return(p, ent[p]) /\ UNCHANGED registryVars
       ELSE /\ RemoveEntry(SessionOf[p], None)
            /\ pc' = [pc EXCEPT ![p] = "getlock"]
            /\ ent' = [ent EXCEPT ![p] = None]
            /\ loop' = p
            /\ UNCHANGED <<awaited, lock, answer, warmVars>>
    /\ UNCHANGED <<dockerVars, hb, toolVars, audit>>

\* _get_spawn_lock, then `async with spawn_lock`, which asyncio grants without
\* an await only if nobody holds the lock or queues for it.
GetLock(p) ==
    LET s == SessionOf[p]
        l == IF spawnLocks[s] = None THEN p ELSE spawnLocks[s]
        contended == ~LockFree(l) \/ \E q \in Posts : lock[q] = l /\ pc[q] = "lockwait"
    IN  /\ loop = p /\ pc[p] = "getlock"
        /\ spawnLocks' = [spawnLocks EXCEPT ![s] = l]
        /\ lock' = [lock EXCEPT ![p] = l]
        /\ pc' = [pc EXCEPT ![p] = IF contended THEN "lockwait" ELSE "locked"]
        /\ loop' = IF contended THEN None ELSE p
        /\ UNCHANGED <<entries, byRunner, ent, awaited, answer, dockerVars, cache,
                       warmVars, hb, toolVars, audit>>

LockGranted(p) ==
    /\ Free /\ pc[p] = "lockwait" /\ LockFree(lock[p])
    /\ pc' = [pc EXCEPT ![p] = "locked"]
    /\ loop' = p
    /\ UNCHANGED <<registryVars, ent, awaited, lock, answer, dockerVars, cache,
                   warmVars, hb, toolVars, audit>>

\* DockerRunner.spawn up to its first await: the hydration file is written.
StartSpawn(p) ==
    /\ pc' = [pc EXCEPT ![p] = "spawning"]
    /\ ent' = [ent EXCEPT ![p] = None]
    /\ files' = files \cup {p}
    /\ loop' = None
    /\ UNCHANGED <<awaited, lock, answer, container, dead, cut, warmVars>>

\* The double check under the spawn lock.
DoubleCheck(p) ==
    LET e == entries[SessionOf[p]]
    IN  /\ loop = p /\ pc[p] = "locked"
        /\ \/ e = None /\ StartSpawn(p) /\ UNCHANGED cache
           \/ e # None /\ KnownAlive(e) /\ Return(p, e) /\ UNCHANGED <<dockerVars, cache>>
           \/ e # None /\ KnownDead(e) /\ CacheAnswer(e, FALSE) /\ StartSpawn(p)
           \/ /\ e # None /\ ~KnownAlive(e) /\ ~KnownDead(e)
              /\ pc' = [pc EXCEPT ![p] = "probe2"]
              /\ ent' = [ent EXCEPT ![p] = e]
              /\ loop' = None
              /\ UNCHANGED <<awaited, lock, answer, dockerVars, cache, warmVars>>
        /\ UNCHANGED <<registryVars, hb, toolVars, audit>>

SecondCheckResumes(p) ==
    /\ Free /\ pc[p] = "answered2"
    /\ CacheAnswer(ent[p], answer[p])
    /\ IF answer[p]
       THEN Return(p, ent[p]) /\ UNCHANGED dockerVars
       ELSE StartSpawn(p)
    /\ UNCHANGED <<registryVars, hb, toolVars, audit>>

\* Mutant: the reverse index is only written for a session without an entry.
SpawnReturnsSetDefault(p) ==
    LET s == SessionOf[p]
    IN  /\ Free /\ pc[p] = "spawning"
        /\ container' = [container EXCEPT ![p] = "running"]
        /\ entries' = [entries EXCEPT ![s] = p]
        /\ byRunner' = IF entries[s] = None THEN [byRunner EXCEPT ![p] = s] ELSE byRunner
        /\ hb' = [hb EXCEPT ![p] = "waiting"]
        /\ lock' = [lock EXCEPT ![p] = None]
        /\ pc' = [pc EXCEPT ![p] = "auditing"]
        /\ UNCHANGED <<spawnLocks, loop, ent, awaited, answer, dead, files, cut, cache,
                       warmVars, toolVars, audit>>

\* containers.create and start returned: _install_entry starts the heartbeat
\* task, puts the entry in both maps, and the `async with` releases the lock.
SpawnReturns(p) ==
    LET s == SessionOf[p]
    IN  /\ Free /\ pc[p] = "spawning"
        /\ container' = [container EXCEPT ![p] = "running"]
        /\ entries' = [entries EXCEPT ![s] = p]
        /\ byRunner' = [byRunner EXCEPT ![p] = s]
        /\ hb' = [hb EXCEPT ![p] = "waiting"]
        /\ lock' = [lock EXCEPT ![p] = None]
        /\ pc' = [pc EXCEPT ![p] = "auditing"]
        /\ UNCHANGED <<spawnLocks, loop, ent, awaited, answer, dead, files, cut, cache,
                       warmVars, toolVars, audit>>

\* Mutant: the lock is taken without `async with`, and stays taken when spawn raises.
SpawnFailsLocked(p) ==
    /\ Free /\ pc[p] = "spawning" /\ "spawn" \in DockerFaults
    /\ container' \in {container, [container EXCEPT ![p] = "exited"]}
    /\ pc' = [pc EXCEPT ![p] = "failed"]
    /\ UNCHANGED <<registryVars, loop, ent, awaited, lock, answer, dead, files, cut, cache,
                   warmVars, hb, toolVars, audit>>

\* create or start raised: the lock is released and the exception leaves
\* get_or_spawn; a created container and the hydration file stay behind.
SpawnFails(p) ==
    /\ Free /\ pc[p] = "spawning" /\ "spawn" \in DockerFaults
    /\ container' \in {container, [container EXCEPT ![p] = "exited"]}
    /\ lock' = [lock EXCEPT ![p] = None]
    /\ pc' = [pc EXCEPT ![p] = "failed"]
    /\ UNCHANGED <<registryVars, loop, ent, awaited, answer, dead, files, cut, cache,
                   warmVars, hb, toolVars, audit>>

\* The runner_spawned row is committed and get_or_spawn returns its own entry.
SpawnAudited(p) ==
    /\ Free /\ pc[p] = "auditing"
    /\ audit' = audit \cup {<<"runner_spawned", p>>}
    /\ Return(p, p)
    /\ UNCHANGED <<registryVars, dockerVars, cache, hb, toolVars>>

-----------------------------------------------------------------------------
(* The warm-idle tasks. *)

\* The task that create_task returns next.
FreshTask(t) == task[t] = "none" /\ \A u \in Tasks : u < t => task[u] # "none"

\* The runs under way at runner r.
Running(r) == {p \in Posts : pc[p] = "returned" /\ ent[p] = r}

\* Mutant: a late RUN_FINISHED that finds a kill in flight starts no new countdown.
OnRunFinishedOnlyCancels(r, p, t) ==
    /\ current' = [current EXCEPT ![r] = IF killing[r] THEN @ ELSE t]
    /\ killing' = [killing EXCEPT ![r] = FALSE]
    /\ owner' = IF killing[r] THEN owner ELSE [owner EXCEPT ![t] = r]
    /\ task' = [u \in Tasks |-> IF u = t /\ ~killing[r] THEN "countdown"
                                ELSE IF u = current[r] THEN Cancelled(task[u])
                                ELSE task[u]]
    /\ disturbed' = (disturbed \cup Running(r)) \ {p}
    /\ Abandon(r, IF current[r] = None THEN "none" ELSE task[current[r]])

\* WarmIdleManager.on_run_finished: whatever task there is, the countdown or a
\* kill, is cancelled and a new countdown starts.
OnRunFinished(r, p, t) ==
    /\ current' = [current EXCEPT ![r] = t]
    /\ killing' = [killing EXCEPT ![r] = FALSE]
    /\ owner' = [owner EXCEPT ![t] = r]
    /\ task' = [u \in Tasks |-> IF u = t THEN "countdown"
                                ELSE IF u = current[r] THEN Cancelled(task[u])
                                ELSE task[u]]
    /\ disturbed' = (disturbed \cup Running(r)) \ {p}
    /\ Abandon(r, IF current[r] = None THEN "none" ELSE task[current[r]])

\* A RUN_FINISHED frame of POST p's run arrives, for the first time or replayed
\* after a break of the connection: the entry the session has by now is told,
\* whichever runner sent the frame and whatever it does by now.
RunFinished(p) ==
    LET r == entries[SessionOf[p]]
    IN  /\ Free /\ pc[p] \in {"returned", "finished"}
        /\ pc' = [pc EXCEPT ![p] = "finished"]
        /\ \/ /\ r = None
              /\ disturbed' = disturbed \ {p}
              /\ UNCHANGED <<current, killing, task, owner, container, cut>>
           \/ r # None /\ \E t \in Tasks : FreshTask(t) /\ OnRunFinished(r, p, t)
        /\ UNCHANGED <<registryVars, loop, ent, awaited, lock, answer, dead, files,
                       cache, hb, toolVars, audit>>

\* A RUN_ERROR ends the run too, but the registry is not told.
RunErrored(p) ==
    /\ Free /\ pc[p] = "returned"
    /\ pc' = [pc EXCEPT ![p] = "errored"]
    /\ disturbed' = disturbed \ {p}
    /\ UNCHANGED <<registryVars, loop, ent, awaited, lock, answer, dockerVars, cache,
                   current, killing, task, owner, hb, toolVars, audit>>

\* Mutant: stop() only cancels a watcher that still waits for a beat.
StopWaitingHeartbeat(t) ==
    LET r == owner[t]
    IN  IF hb[r] = "waiting"
        THEN /\ hb' = [hb EXCEPT ![r] = "done"]
             /\ task' = [task EXCEPT ![t] = "hbstop"]
             /\ UNCHANGED registryVars
        ELSE /\ RemoveEntry(SessionOf[r], r)
             /\ task' = [task EXCEPT ![t] = "audit"]
             /\ UNCHANGED hb

\* After terminate: _on_evict stops the heartbeat task, removes the entry if it
\* is still this runner's and writes its row.  Stopping a live task awaits it.
StopHeartbeat(t) ==
    LET r == owner[t]
    IN  IF hb[r] # "done"
        THEN /\ hb' = [hb EXCEPT ![r] = "done"]
             /\ task' = [task EXCEPT ![t] = "hbstop"]
             /\ UNCHANGED registryVars
        ELSE /\ RemoveEntry(SessionOf[r], r)
             /\ task' = [task EXCEPT ![t] = "audit"]
             /\ UNCHANGED hb

\* The await of p is over and its coroutine waits for the loop.
Ready(p) ==
    \/ pc[p] = "lockwait" /\ LockFree(lock[p])
    \/ pc[p] = "awaitkill" /\ task[awaited[p]] = "done"

\* Timing assumption (see above).
WindowElapsed(r) ==
    /\ cache[r] # "alive"
    /\ \A p \in Posts : ~Ready(p) /\ (pc[p] \in Probing => ent[p] # r)
    /\ pc[r] # "auditing"
    /\ \A q \in ToolUsers : tool[q] # "deciding"

\* The idle window passed without activity: _killing flips and terminate
\* begins, or is a no-op because the handle is already marked dead.
IdleTimeout(t) ==
    LET r == owner[t]
    IN  /\ Free /\ task[t] = "countdown" /\ WindowElapsed(r)
        /\ killing' = [killing EXCEPT ![r] = TRUE]
        /\ dead' = [dead EXCEPT ![r] = TRUE]
        /\ IF dead[r]
           THEN StopHeartbeat(t) /\ Abandon(r, hb[r])
           ELSE /\ task' = [task EXCEPT ![t] = "stop"]
                /\ UNCHANGED <<registryVars, hb, container, cut>>
        /\ UNCHANGED <<loop, postVars, files, cache, current, owner, disturbed,
                       toolVars, audit>>

\* The awaits of terminate return one after the other.
KillStep(t) ==
    /\ Free
    /\ \/ /\ task[t] = "stop" /\ StopReturns(owner[t])
          /\ task' = [task EXCEPT ![t] = "wait"]
          /\ UNCHANGED <<registryVars, hb>>
       \/ /\ task[t] = "wait" /\ WaitReturns(owner[t])
          /\ task' = [task EXCEPT ![t] = "delete"]
          /\ UNCHANGED <<registryVars, hb>>
       \/ /\ task[t] = "delete" /\ DeleteReturns(owner[t])
          /\ StopHeartbeat(t)
    /\ UNCHANGED <<loop, postVars, dead, cache, current, killing, owner, disturbed,
                   toolVars, audit>>

\* The cancelled heartbeat task is gone: the entry is removed.
HeartbeatStopped(t) ==
    /\ Free /\ task[t] = "hbstop"
    /\ RemoveEntry(SessionOf[owner[t]], owner[t])
    /\ task' = [task EXCEPT ![t] = "audit"]
    /\ UNCHANGED <<loop, postVars, dockerVars, cache, current, killing, owner, disturbed,
                   hb, toolVars, audit>>

EvictAudited(t) ==
    /\ Free /\ task[t] = "audit"
    /\ task' = [task EXCEPT ![t] = "done"]
    /\ audit' = audit \cup {<<"runner_warm_idle_evicted", owner[t]>>}
    /\ UNCHANGED <<registryVars, loop, postVars, dockerVars, cache, current,
                   killing, owner, disturbed, hb, toolVars>>

-----------------------------------------------------------------------------
(* The heartbeat task.  A beat only re-arms the timer, so it is no action. *)

\* _on_crash up to its first await: the entry is removed if it is still this
\* runner's, and otherwise nothing is reported.
CrashCallback(r) ==
    /\ RemoveEntry(SessionOf[r], r)
    /\ hb' = [hb EXCEPT ![r] = IF entries[SessionOf[r]] = r THEN "lost" ELSE "done"]

HeartbeatTimeout(r) ==
    /\ Free /\ CanExpire /\ hb[r] = "waiting"
    /\ dead' = [dead EXCEPT ![r] = TRUE]
    /\ IF dead[r]
       THEN CrashCallback(r)
       ELSE hb' = [hb EXCEPT ![r] = "stop"] /\ UNCHANGED registryVars
    /\ UNCHANGED <<loop, postVars, container, files, cut, cache, warmVars, toolVars, audit>>

HeartbeatStep(r) ==
    /\ Free
    /\ \/ /\ hb[r] = "stop" /\ StopReturns(r)
          /\ hb' = [hb EXCEPT ![r] = "wait"] /\ UNCHANGED registryVars
       \/ /\ hb[r] = "wait" /\ WaitReturns(r)
          /\ hb' = [hb EXCEPT ![r] = "delete"] /\ UNCHANGED registryVars
       \/ /\ hb[r] = "delete" /\ DeleteReturns(r) /\ CrashCallback(r)
    /\ UNCHANGED <<loop, postVars, dead, cache, warmVars, toolVars, audit>>

\* The rows of _on_crash, one await each: the runner's, then its tool calls'.
LostAudited(r) ==
    /\ Free /\ hb[r] = "lost"
    /\ audit' = audit \cup {<<"runner_heartbeat_lost", r>>}
    /\ hb' = [hb EXCEPT ![r] = IF inFlight[r] = {} THEN "done" ELSE "crashed"]
    /\ UNCHANGED <<registryVars, loop, postVars, dockerVars, cache, warmVars, toolVars>>

CrashedAudited(r) ==
    /\ Free /\ hb[r] = "crashed"
    /\ audit' = audit \cup {<<"tool_call.crashed", t>> : t \in inFlight[r]}
    /\ hb' = [hb EXCEPT ![r] = "done"]
    /\ UNCHANGED <<registryVars, loop, postVars, dockerVars, cache, warmVars, toolVars>>

-----------------------------------------------------------------------------
(* The container and the webhooks of a runner. *)

\* The process exits by itself, or finishes a `docker stop` nobody awaits any more.
ContainerExits(r) ==
    /\ Free /\ container[r] = "running" /\ CanCrash
    /\ container' = [container EXCEPT ![r] = "exited"]
    /\ UNCHANGED <<registryVars, loop, postVars, dead, files, cut, cache, warmVars, hb,
                   toolVars, audit>>

\* 50 ms after it was stored a cached is_alive value no longer counts.
CacheExpires(r) ==
    /\ Free /\ cache[r] # "empty"
    /\ cache' = [cache EXCEPT ![r] = "empty"]
    /\ UNCHANGED <<registryVars, loop, postVars, dockerVars, warmVars, hb, toolVars, audit>>

\* get_by_runner_id finds the entry whose secret signs the runner's webhooks.
Authentic(r) == byRunner[r] # None /\ entries[byRunner[r]] = r

Busy(r) == Running(r) # {}

\* BeforeToolCall up to `await policy.decide`, then the decision is recorded on
\* whichever entry the session has by then: an allow adds the call, a deny drops it.
BeforeToolCall(r) ==
    /\ Free /\ r \in ToolUsers /\ container[r] = "running" /\ Busy(r)
    /\ tool[r] = "none" /\ Authentic(r)
    /\ tool' = [tool EXCEPT ![r] = "deciding"]
    /\ UNCHANGED <<registryVars, loop, postVars, dockerVars, cache, warmVars, hb,
                   ended, inFlight, audit>>

ToolCallDecided(r) ==
    LET e == entries[SessionOf[r]]
    IN  /\ Free /\ tool[r] = "deciding"
        /\ \/ /\ tool' = [tool EXCEPT ![r] = "open"]
              /\ inFlight' = IF e = None THEN inFlight
                             ELSE [inFlight EXCEPT ![e] = @ \cup {r}]
           \/ /\ tool' = [tool EXCEPT ![r] = "closed"]
              /\ inFlight' = IF e = None THEN inFlight ELSE [inFlight EXCEPT ![e] = @ \ {r}]
        /\ UNCHANGED <<registryVars, loop, postVars, dockerVars, cache, warmVars, hb,
                       ended, audit>>

\* Mutant: AfterToolCall forgets on_tool_call_completed.
AfterToolCallKeepsRecord(r) ==
    /\ Free /\ container[r] = "running" /\ tool[r] # "none" /\ r \notin ended /\ Authentic(r)
    /\ ended' = ended \cup {r}
    /\ tool' = [tool EXCEPT ![r] = IF @ = "open" THEN "closed" ELSE @]
    /\ UNCHANGED <<registryVars, loop, postVars, dockerVars, cache, warmVars, hb,
                   inFlight, audit>>

\* AfterToolCall: authenticated and recorded without an await in between.  The
\* runner sends it for denied calls too, and for a call whose decision it gave
\* up waiting for (2 s): a decision still to come is then recorded after it.
\* The delivery may fail, so nothing says that this action ever happens.
AfterToolCall(r) ==
    LET e == entries[SessionOf[r]]
    IN  /\ Free /\ container[r] = "running" /\ tool[r] # "none" /\ r \notin ended /\ Authentic(r)
        /\ ended' = ended \cup {r}
        /\ tool' = [tool EXCEPT ![r] = IF @ = "open" THEN "closed" ELSE @]
        /\ inFlight' = [inFlight EXCEPT ![e] = @ \ {r}]
        /\ UNCHANGED <<registryVars, loop, postVars, dockerVars, cache, warmVars, hb,
                       audit>>

-----------------------------------------------------------------------------
PostStep(p) ==
    \/ Begin(p) \/ KillSettled(p) \/ Refetch(p) \/ DaemonAnswers(p)
    \/ FirstCheckResumes(p) \/ GetLock(p) \/ LockGranted(p) \/ DoubleCheck(p)
    \/ SecondCheckResumes(p) \/ SpawnReturns(p) \/ SpawnFails(p) \/ SpawnAudited(p)

RunEnds(p) == RunFinished(p) \/ RunErrored(p)

KillTask(t) ==
    IdleTimeout(t) \/ KillStep(t) \/ HeartbeatStopped(t) \/ EvictAudited(t)

HeartbeatTask(r) ==
    HeartbeatTimeout(r) \/ HeartbeatStep(r) \/ LostAudited(r) \/ CrashedAudited(r)

RunnerEvent(r) ==
    ContainerExits(r) \/ CacheExpires(r) \/ BeforeToolCall(r) \/ ToolCallDecided(r)
    \/ AfterToolCall(r)

Next ==
    \/ \E p \in Posts : PostStep(p) \/ RunEnds(p)
    \/ \E t \in Tasks : KillTask(t)
    \/ \E r \in Posts : HeartbeatTask(r)
    \/ \E r \in Posts : RunnerEvent(r)

Spec == Init /\ [][Next]_vars

\* The event loop runs every ready coroutine, the Docker daemon answers, the
\* policy decides and a cached answer gets old; a client need not POST, a run
\* need not end and a runner need not stay silent.
Fairness ==
    /\ \A p \in Posts : WF_vars(PostStep(p) /\ pc[p] # "idle")
    /\ \A t \in Tasks : WF_vars(KillTask(t))
    /\ \A r \in Posts : WF_vars(CacheExpires(r)) /\ WF_vars(ToolCallDecided(r))

FairSpec == Spec /\ Fairness

-----------------------------------------------------------------------------
(* Properties. *)

\* Every installed entry is found by get_by_runner_id, the lookup that
\* authenticates the runner's webhooks, whatever callers and callbacks race.
IndexAgrees ==
    \A s \in Sessions : entries[s] # None => byRunner[entries[s]] = s

\* Once a runner's eviction is past heartbeat.stop(), no watcher of it is left
\* that could later fire on the session (registry.py, _on_evict).
EvictedWatcherStopped ==
    \A t \in Tasks :
        task[t] = "audit" \/ (task[t] # "none" /\ <<"runner_warm_idle_evicted", owner[t]>> \in audit)
        => hb[owner[t]] = "done"

\* The rows of a runner never read "evicted, then heartbeat lost": a clean
\* eviction is not reported as a crash afterwards (registry.py, _on_crash).
NoLossAfterEviction ==
    [][\A r \in Posts :
        /\ <<"runner_heartbeat_lost", r>> \notin audit
        /\ <<"runner_heartbeat_lost", r>> \in audit'
        => <<"runner_warm_idle_evicted", r>> \notin audit]_vars

\* A background task removes only the entry of its own runner: a stale eviction
\* or crash callback leaves a freshly spawned entry alone (_remove_entry).
CallbacksSpareFreshEntries ==
    [][pc' = pc => \A s \in Sessions : entries'[s] # entries[s] =>
            \/ hb'[entries[s]] # hb[entries[s]]
            \/ \E t \in Tasks : owner[t] = entries[s] /\ task'[t] # task[t]]_vars

\* A kill that begins while a run is under way at the runner comes from a
\* countdown that the RUN_FINISHED of another run started during that run: the
\* countdown that ran when the message came never survives it (on_user_message).
\* docs/architecture.md says "warm-idle never triggers mid-run"; this is what the
\* code keeps of it.
BusyKillNeedsOtherFinish ==
    [][\A r \in Posts : killing'[r] /\ ~killing[r] => Running(r) \subseteq disturbed]_vars

\* get_or_spawn never returns a runner whose warm-idle kill has begun, not even
\* one cancelled half way: the caller waits the kill out and respawns
\* (test_ac15_kill_mid_flight_respawns_fresh).  dead with a watcher still
\* waiting means that the kill, and not the watcher, marked the handle.
NoZombieReuse ==
    [][\A p \in Posts : pc'[p] = "returned" /\ pc[p] # "returned" =>
            ~(dead[ent[p]] /\ hb[ent[p]] = "waiting")']_vars

\* Callers of one session never spawn side by side (get_or_spawn, _spawn_locks).
OneSpawner ==
    \A p, q \in Posts : p # q /\ SessionOf[p] = SessionOf[q]
        => ~(pc[p] = "spawning" /\ pc[q] = "spawning")

\* "we never end up with two containers for one session" (registry.py, __init__),
\* as far as the code can keep it: when a second container runs, terminate has
\* begun on one of them.  A runner being stopped, or whose terminate was cut
\* short, may still run beside its successor.
OneLiveContainer ==
    \A q, r \in Posts :
        q # r /\ SessionOf[q] = SessionOf[r] /\ container[q] = "running" /\ container[r] = "running"
        => dead[q] \/ dead[r]

\* When a runner's eviction is on record its container and its hydration file
\* are gone, unless its terminate was cancelled half way or could not delete.
EvictedIsGone ==
    \A r \in Posts : <<"runner_warm_idle_evicted", r>> \in audit /\ r \notin cut
        => container[r] = "deleted" /\ r \notin files

\* A tool call is reported crashed only if the last the backend handled of it was
\* an allow: no denial and no AfterToolCall after it, on whichever entry of the
\* session the call was recorded (_on_crash, in_flight_tool_calls).
CrashedWereAllowed ==
    \A t \in Posts : <<"tool_call.crashed", t>> \in audit => tool[t] = "open"

\* Every get_or_spawn call ends: it never waits for ever for a kill or a lock.
EveryPostSettles ==
    \A p \in Posts : pc[p] # "idle" ~> pc[p] \in {"returned", "finished", "errored", "failed"}

\* A runner whose kill began is sooner or later out of the registry, even when a
\* late RUN_FINISHED cancels the kill half way.
KilledRunnerLeaves ==
    \A r \in Posts : killing[r] ~> \A s \in Sessions : entries[s] # r

=============================================================================
