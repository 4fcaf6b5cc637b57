# A TLA+ development of kloc-agent

kloc-agent runs an LLM agent in one Docker container per chat session. A browser
posts a message; the backend finds or spawns the session's *runner* container and
puts the prompt into a PGMQ inbox; the runner executes it and sends its events back
as JSONL frames; the backend stamps them, keeps them in a ring per run, stores them
and streams them to the browser over SSE.

These modules model the parts of the system in which actors interleave:

* **which runner serves a session**: the runner registry with its locks, the
  warm-idle eviction, the heartbeat watcher and Docker;
* **how an event gets from a runner to the browser and the database**: routing of
  frames to runs, the event bus, the SSE endpoints with cursor replay, the persister,
  and the browser's run loop;
* **how frames leave the runner**: its outbound queue, the replay after a broken
  connection, frames that are too big or rejected;
* **how a message gets to a runner**: the inbox queue with its visibility timeout, runners
  that die, a backend that restarts;
* **how a tool call is gated**: the hooks before and after it, with their time limits;
* **what is left of a run**: the rows that persister and debouncer write, beside what the
  browser showed.

Paths below are relative to the repository. Properties are quoted by their TLA+ name.

## 1. Inventory

### Backend (`src/`)

| Component | State | Operations | Talks to | Hard behaviour | Correct when |
|---|---|---|---|---|---|
| RunnerRegistry `runner_mgmt/registry.py` | `_entries`, `_by_runner_id`, `_spawn_locks`, per entry the secret, in-flight tool calls and a 50 ms liveness cache | `get_or_spawn`, `on_user_message`, `on_run_finished`, `_on_evict`, `_on_crash`, `get_by_runner_id`, `shutdown_all` | stream API, ingress, webhooks, Docker, audit | every operation awaits between reading and using an entry; a removal pops the lock others wait for | one runner per session; callbacks of an old runner spare a new one; both maps agree; no POST hangs |
| WarmIdleManager `warm_idle.py` | `_task`, `_activity`, `_killing` | start, cancel, `await_kill_in_flight` | registry, handle | a late or replayed RUN_FINISHED starts the countdown in the middle of a run, or cancels a kill half way | the countdown a message finds never kills; a killed runner is not reused and leaves |
| HeartbeatWatcher `heartbeat.py` | its task | beat, loss, `stop` | registry, handle | loss races eviction | evicted or lost, never both |
| DockerRunner `docker_runner.py` | `_dead`, hydration file | `spawn`, `terminate`, `is_alive` | Docker daemon | each call may raise; the dead flag is set before the work | a terminate that is not cut short leaves no container and no file |
| Hydration builder `hydrate.py` | none | reads the database into one JSON file | repositories | its snapshot precedes the new message | (a pure reader) |
| Sweeper `sweeper.py` | none | removes leftovers at start-up | Docker, volume | a crash between two starts | no leftovers after boot |
| JSONL ingress `api/internal.py` | `active_run_by_session`, `pending_pre_run_started` | `_dispatch_frame` | rings, bus, registry | late frames of an older run, frames before RUN_STARTED | each frame once, in the ring of its run |
| SSE API `api/stream.py`, `streaming/sse.py` | `persist_tasks` | POST and GET `/stream`, both generators | registry, inbox, bus, rings | subscription against publication; replay against live; disconnects | no gap, no duplicate, no reader or queue left behind |
| EventBus `streaming/event_bus.py` | `_subs` | register, publish, consume | ingress, SSE, persister | full queues | a dropped reader is told |
| ExecutionRegistry `streaming/execution_registry.py` | ring, next seq and status of a run | append, `replay_from` | ingress, SSE | the ring overflows | seqs are dense |
| Persister, debouncer `api/stream.py`, `streaming/debounce.py` | a task per run, write timers | store, flush, idle out | bus, repositories | starts after the prompt, ends on silence; timer and task share a database session | a run is stored whole and once |
| AG-UI formatter | none | renders an event | - | - | (pure) |
| PGMQ inbox `messaging/pgmq.py` | the queue | send, read, archive | runner | visibility timeout | a prompt is executed once, or again after a crash |
| Repositories `repos/` | tables | append with a per-session seq, tool-call status | database | concurrent writers | dense seqs; a denial survives |
| Sessions API `api/` | tables | CRUD, stop | repositories | messages posted or a session closed while a run is at work; cancel has no effect | a runner's work goes on undisturbed |
| Webhooks, policy, HMAC `api/webhooks.py`, `hooks_audit/` | the registry's tool-call record | before/after tool call, artifact registered | registry, policy, audit | the policy is awaited; the runner's 2 s deadline may pass first | a call reported crashed was allowed |
| Lifespan `main.py` | application state | start, stop | all | order of shutdown | no container outlives the backend |
| Models, migrations, S3 | schema | - | - | - | - |

### Runner (`runner/`) and frontend (`frontend/src/`)

| Component | State | Hard behaviour | Correct when |
|---|---|---|---|
| Channel `channel.py` | outbound queue, frames of the attempt and of earlier ones | reconnects replay the attempt; a rejected frame is guessed; a queue that is full | first arrivals are in order, nothing is lost silently, replays stay in their run |
| Main loop, inbox consumer `__main__.py`, `inbox_consumer.py` | current message, wake event, first turn | the lease is not renewed; a NOTIFY can be missed; deleted in `finally` | no prompt is lost or given to two runners; each is served |
| Audit hooks, offload `hooks/audit.py`, `offload.py` | queue of after-hooks, its worker | webhook deadline; a full queue | no tool runs unrecorded; no ended call stays in flight |
| Agent factory, loader, tools | the id of the run's message | one bubble for all events of a run | a reload shows what was shown live |
| Run loop, reducer `lib/runLoop.ts`, `lib/reducer.ts` | `activeRunId`, `lastEventSeq`, connection | reconnect with a cursor | what is shown is what was produced |
| UI | - | - | (rendering) |

`PROJECT.json` repeats the list with the status of each component, and lists the
hazards with their lines.

## 2. Modules

    RunnerRegistry ──── RunnerRegistryProofs
          └──────────── MCRunnerRegistry
    Ingress ─────────── RunnerChannel ── RunnerChannelProofs
          │                    └──────── MCRunnerChannel
    FrameRouting ────── FrameRoutingProofs
          │ └────────── MCFrameRouting
    EventStream ─────── EventStreamProofs   (EXTENDS EventStream, FrameRoutingProofs)
          │ └────────── MCEventStream
    StreamClient ────── StreamClientProofs  (EXTENDS StreamClient, EventStreamProofs)
          │ └────────── MCStreamClient
          └── INSTANCE DeliveredStream      (the abstract promise)
    SessionInbox ────── SessionInboxProofs, MCSessionInbox
    ToolGate ────────── ToolGateProofs, MCToolGate
    RunRecord ───────── RunRecordProofs, MCRunRecord

**Concurrency.** The backend is one asyncio event loop, so a coroutine runs undisturbed
from one `await` to the next and an action is what happens between two awaits. In
`RunnerRegistry` the coroutine of a POST takes several decisions between two awaits; the
variable `loop` names the POST that runs, and nobody else moves while it is set. The
`_lock`s of registry, bus and ring are never held over an await and are no variables.
The per-session `asyncio.Lock`, which is, is modelled: `spawnLocks` says which lock
object the session has, `lock[p]` which one a POST holds or waits for.

### RunnerRegistry

A POST is a member of `Posts`. Since it mints the `runner_id` of the runner it may
spawn, runner, lock and run carry its name. Warm-idle tasks are numbered as they start: the
ingress tells the registry of every RUN_FINISHED frame (`internal.py:167-174`), and
`RunnerChannel` sends those of older runs again after a broken connection, so `RunFinished`
may happen at any time and again; `Tasks` bounds how many countdowns start.

| Code | Model |
|---|---|
| `get_or_spawn`, await by await | `Begin`, `KillSettled`, `Refetch`, `DaemonAnswers`, `FirstCheckResumes`, `GetLock`, `LockGranted`, `DoubleCheck`, `SecondCheckResumes`, `StartSpawn`, `SpawnReturns`, `SpawnFails`, `SpawnAudited` |
| `_remove_entry` | `RemoveEntry`, `Stale` |
| `is_alive` and its cache | `KnownDead`, `KnownAlive`, `CacheAnswer`, `CacheExpires` |
| `on_user_message`, `on_run_finished`; the frames that end a run | `OnUserMessage`, `OnRunFinished`; `RunFinished`, `RunErrored` |
| `_await_idle_then_kill`, `_on_evict` | `IdleTimeout`, `KillStep`, `HeartbeatStopped`, `EvictAudited` |
| heartbeat `_loop`, `_on_crash` | `HeartbeatTimeout`, `HeartbeatStep`, `CrashCallback`, `LostAudited`, `CrashedAudited` |
| `DockerRunner.terminate` | `StopReturns`, `WaitReturns`, `DeleteReturns`, shared by both tasks |
| webhooks before and after a tool call | `BeforeToolCall`, `ToolCallDecided`, `AfterToolCall`; the last may come before the decision, or never |
| the container | `ContainerExits` |

The switches `Overlap` (a client posts before the last run ended), `Caching`, `CanCrash`,
`CanExpire` (a heartbeat budget runs out although the runner may be well) and
`DockerFaults` say which disturbances an instance has. The history variables `disturbed` (runs during
which another run's RUN_FINISHED started a countdown) and `cut` (runners whose `terminate` was cancelled
or could not delete) are read by properties only.

*Timing assumption.* `WindowElapsed`: the warm-idle window (60 s) outlasts one
`container.show()` of the same handle, the 50 ms of the liveness cache, the insert of an
audit row, a policy decision and the turn of a ready coroutine. Heartbeat budgets have no
such assumption. Without it a countdown could expire inside one probe of `get_or_spawn`.

### Ingress, FrameRouting, EventStream, StreamClient

`Ingress` is what `_dispatch_frame` does with one frame of a session; it says nothing
about which frames come. `FrameRouting` gives it runners whose frames come once and in the
order they were made, and `RunnerChannel` a channel that replays them. The execution of the prompt of `p`
emits the frames `<<p, 0>>` (RUN_STARTED) to `<<p, Last>>` (RUN_FINISHED or RUN_ERROR);
only these two carry a run id, all others go to the active run or are parked. From the
parsed frame to the ring and the bus nothing awaits, so handling a frame is one step
(`RunStarted`, `RunEnded`, `Routed`, `Parked`). `Overlap` admits two executions at a
time: two runners of one session, as `RunnerRegistry` shows to be possible.

`EventStream` adds the subscribers. A ring entry is known by its seq, so queues hold
seqs; the ring is the last `RingCap` entries of `events[r]`.

| Code | Model |
|---|---|
| `EventBus.publish`, with full queues | `Publish`, part of `Frame` |
| `stream_post` | `Register`, `Commit`, `CommitFails`, `Respond`, `StartPost` |
| `stream_get` and its generator | `OpenGet`, `FirstReplay`, `ReplayReturns`, `SecondReplay`, `ReplayTails` |
| sending one event; the client goes away | `SendReplayed`, `SendLive`; `Cut`; `Unsubscribe` is `consume`'s `finally` |
| `_persist_events` and the done callback | `WriterSubscribes`, `WriterStores`, `WriterFails`, `WriterIdles`, `WriterDropped` |

The sentinel that `publish` puts into a full queue is always refused (nothing runs between
the two `put_nowait`), so it is not an entry. `close`, `gc` and `wait` are called by nothing
in `src/`. Heartbeats are not published.

`StreamClient` adds the browser: `Submit`, `Refused`, `Receive`, `EndOfReplay`, `Break`,
`Reconnect`. It has one connection at a time because `Conversation.tsx` disables the input
while connecting, live or replaying. There are as many reconnects as members of `Gets`. A
connection lost before its response starts is noticed when it starts. `retry()` and the
fallback to the message history are left out.

`DeliveredStream` is the promise, in twenty lines: the view of a run is a prefix of what
the run produced, and grows until it is all of it. `KeepsThePromise` is the refinement, with
the events themselves put in place of the seqs the browser was sent.

### RunnerChannel

Everything the runner emits passes through four places: the emitter's `hand` (where it may
wait for an upload or for room), the queue `outbound`, the request body of an attempt
(`backlog` of earlier attempts first, `yielded` is the transcript), and the `wire`.

| Code | Model |
|---|---|
| `emit`, `_offload_if_oversize`, `build_oversize_offload` | `Emit`, `OffloadSucceeds`, `OffloadFails`, `Put` |
| `_heartbeat_loop` | `HeartbeatEmitted` |
| `_stream_outbound` and its `body_iter` | `Open`, `YieldBacklog`, `YieldQueued` |
| a transport error, 408, 5xx; what the server still reads | `ConnectionFails`; `Cut` |
| `_handle_permanent_reject` | `RefusalSeen` |
| `stop` | `Stop` |
| `ingest_runner_events`, line by line, with `_dispatch_frame` | `ServerReads`, `Dispatched`, `ServerRejects` |

Two branches of the code cannot be reached and are left out: `stop()` cancels the sender in
the step in which it enqueues the sentinel, and a response is looked at only when some frame
has been handed over. A frame can always be encoded as JSON (the hazard at
`channel.py:221` says what happens otherwise).

### SessionInbox

One session, its requests and the runners it ever has. Lists of messages are sets of user
messages. The registry is taken at its promise (one live runner, replaced when it is dead), which
`RunnerRegistry` examines; a second runner is one that outlived a restart of the backend.

| Code | Model |
|---|---|
| `stream_post`: hydration, the message's row, a runner, the queue | `Hydrate`, `Persist`, `AttachLive` or `AttachSpawned`, `Send`; `RequestFails` |
| `sessions.py`: post a message, close | `PostMessage`, `CloseSession` |
| `consume_inbox` | `Connect`, `TurnStarts` (a row), `FindsNothing`, `Sleeps` (`wake.clear`), `Wakes`, `ConnectionLost` |
| `_run`, `_run_one_turn`, `delete_message` | `TurnStarts`, `TurnEnds` or `TurnRaises`, `Acked`; `Dies` |
| PGMQ's visibility timeout | `hidden`, `VisibleAgain` |
| `main.py`'s lifespan with `orphan_sweep` | `BackendRestarts`, `Swept` |

### ToolGate

One runner with calls side by side. `call` is the runner's side of a call, `asked` and
`told` are the handlers of its two hooks in the backend, which go on when the runner has
given up. The policy looks at a call's `Shape`.

| Code | Model |
|---|---|
| `before_tool_call` | `Asks`, `Answered`, `Deadline` |
| `receive_runner_event` for BeforeToolCall | `Authenticates`, `Decides`, `Answers` or `AnswerFails`; `BeforeLost` |
| `Policy.decide`, its evaluators, the stat client | `Denied`, `Unbounded`, `TooLarge`, `AwaitsStat`, `StatAnswers` |
| `after_tool_call`, `_after_loop`, `stop` | `ToolReturns`, `WorkerTakes`, `WorkerGoesOn`, `Stop` |
| `receive_runner_event` for AfterToolCall | `AfterRefused`, `AfterRecords`, `AfterCommits` or `AfterCommitFails` |
| the runner's entry leaves the registry | `EntryRemoved` |

### RunRecord

One run. A frame leaves the wrapper of `agent_factory.py` and reaches browser and persister in
one step; the modules above are about the way in between. Text is a sequence of numbered
deltas. Persister and timer are two tasks on one database session: their operations overlap.

| Code | Model |
|---|---|
| `_ParentLinkingAGUIAgent.run` | `RunStarts`, `BubbleOpens`, `AgentSays`, `ToolFrame`, `BubbleCloses`, `RunEnds`; `RunBreaks` |
| `applyAGUIEvent`, `applyCustom` in `reducer.ts` | `view`, `CardUpdated`, `CardDenied` |
| `_persist_events` and the debouncer | `Begins`, `Buffers`, `EndFlushes`, `PersisterFlushed`, `Finalized`, `CallWritten`, `Returns`, `PersisterTimesOut` |
| the debouncer's timer | `TimerFires`, `TimerFlushed` |
| `MessageRepo.append` | `Reads`, `Inserts`, `Collides`; `Fails` |
| `ToolCallRepo` | `CallStarted`, `ArgsAdded`, `CallDone`, `ResultSet`, `CallDenied` |
| boot sweep; `list_messages` | `BackendRestarts`; `Reloaded` |

## 3. Runs

All configurations say `CHECK_DEADLOCK FALSE`: POSTs and frames are finite and the
system then rests. Symmetry is used where the property is safety only.

| Run | Instance | Shows |
|---|---|---|
| `registry_races` | 3 overlapping POSTs, evictions, silent runners, 2 countdowns | `IndexAgrees`, `EvictedWatcherStopped`, `NoLossAfterEviction`, `CallbacksSpareFreshEntries`, `NoZombieReuse`, `BusyKillNeedsOtherFinish` |
| `registry_faults` | 2 overlapping POSTs, a tool call, silence, failing spawn and show, 2 countdowns; fair | `TypeOK`, `CrashedWereAllowed`, `EveryPostSettles`, `KilledRunnerLeaves` |
| `registry_one_client` | 3 POSTs one after the other, crashes, silence, cache, failing stop and delete, 2 countdowns | `EvictedIsGone`, `OneLiveContainer` |
| `registry_two_spawners` | 3 overlapping POSTs, crashes | `OneSpawner` **is violated** |
| `stream_routing` | 3 executions that overlap in every way, room for 2 parked frames | `RoutingTypeOK`, `StartedFirst`, `EachFrameOnce`, `LatestRunKeepsItsTopic` |
| `stream_persist` | 2 POSTs for one run id, 3 frames each, warm containers, bus queue of 1, persisters that time out or raise, failing enqueue | `TypeOK`, `StoredWhole`, `StoredOnce` |
| `stream_steady` | a browser, 2 messages, a connection that holds, failing enqueue; fair | `KeepsThePromise`, `RunEndsForBrowser` |
| `stream_resume` | 1 run of 4 frames, failing enqueue, 2 reconnects, bus queue of 2 that overflows, ring of 3, silences | `ClientTypeOK`, `NoGap`, `NoLeakedQueue` |
| `channel_replay` | 2 runs of 3 frames, one frame too big, one the server may refuse, queue of 2, 2 disturbances (breaks, heartbeats, the refused frame); fair | `ChannelTypeOK`, `NothingLostSilently`, `FirstArrivalsInOrder`, `OwnRing`, `EveryFrameArrives` |
| `session_inbox` | 2 requests, 2 runners, turns of any length that may raise, any deaths, 1 lost connection, 1 restart; fair | `InboxTypeOK`, `MessagesSurvive`, `ExclusiveTurn`, `ColdTurnSeesConversation`, `QueuedMessageServed` |
| `tool_gate` | 2 calls side by side of 3 shapes, an after-queue of 1, any failures; fair | `RunsOnlyRecorded`, `RecordEndsWithCall`, `EveryCallSettles` |
| `run_record` | 3 deltas, a tool call, another writer of the session, 2 tries for a number, any failures | `SeqsContiguous`, `StoredTextHasNoHole`, `ReloadMatchesLive` |

**Why these bounds are enough.** The registry's races need one POST that holds an old
entry, one that replaces it and one whose entry must survive: three, of one session
(sessions share nothing but the maps, and the theorems cover any number). Liveness and
the faults need two. Two countdowns (`Tasks`) are a RUN_FINISHED that starts one and another, late or
replayed, that cancels it or the kill it has become; the theorems cover any number. In the streams, a
replayed run needs a first, a last and inner frames so
that a replay has a middle; two reconnects are one more than any hazard needs; queues of 1 and 2
overflow in every run that means them to, and queues of 10 never do; the ring of 3 loses
the first of 4 entries, and the one of 20 loses none. `PendingCap` 2 is exceeded in `stream_routing`.

`channel_replay`: two runs are needed for a replay that reaches back into an older run, and
two disturbances for a break in the attempt that replays (`MaxEvents`); the queue of 2 makes
the emitter wait. `session_inbox`: two requests are a message and the conversation before
it; two runners are a dead one and its successor, or an orphan and the runner beside it;
`MaxRestarts` and `MaxLosses` of 1 give each fault its turn, and runners may die at any time.
`tool_gate`: two calls, so that the after-queue of 1 (`AfterCap`) is full when the second one
returns; the three shapes are a call nobody looks at, one that waits for a size, and one that is
denied at once; `"banned"` and `kloc_flows` calls take the same branch as the third. `run_record`: three
deltas (`MaxText`) are one flushed by the timer, one by the threshold and one by the end; two tries
(`MaxSeqRetries`, 5 in the code) make one retry succeed and one fail.

**Every property can fail.** For each property of a passing run, `PROJECT.json` names a
mutant: a definition of the model, changed as a plausible bug in that code would change
it (they stand in the modules just before the definition they replace). TLC finds the
property violated under the same configuration.

### Fairness

`RunnerRegistry!Fairness`: a coroutine that is ready gets its turn (asyncio's ready queue
is FIFO), a Docker call answers or raises, the policy decides (all it
may await is one HTTP call with a timeout of 500 ms, `stat_client.py`), a cache entry gets old. A client need not POST, a run need not end, a runner
need not fall silent. `StreamClient!Fairness`: a queued prompt is executed, a ready
coroutine gets its turn, an open connection is read, and a scheduled reconnect is made.
Nothing says that a connection breaks, and `WriterIdles` is not fair.
`RunnerChannel!FairSpec`: the emitter, the sender and the server go on, each being a loop that
waits for nothing but the others, the uploads and the backoff; a refusal is noticed at the
latest when the next heartbeat is written. `SessionInbox!FairSpec`: a runner that lives goes on, its
fallback poll of 30 s included, a turn ends, and a visibility timeout passes; requests may stop anywhere.
`ToolGate!FairSpec`: the hook gets an answer or its 2 s pass, a tool returns, the handler of an
after-hook ends, the worker goes on. No fairness is assumed of the handler before the call. `RunRecord` has
safety properties only.

### What the instances leave out, and what happens then

A restriction in a configuration that is there because the property fails without it:

| Property | Restriction | Without it |
|---|---|---|
| `BusyKillNeedsOtherFinish` | runs that are `disturbed` | a second message is queued while the first run is at work, or a broken connection replays the RUN_FINISHED of an older run (`internal.py:167`): the countdown starts in the middle of a run, and the window ends before the run does |
| `EvictedIsGone` | runners that are `cut` | a RUN_FINISHED cancels the kill, or the eviction's `heartbeat.stop()` the watcher's `terminate`, after `_dead` was set; the next `terminate` returns at that flag (`docker_runner.py:211`), and container and file may stay. A failed delete is logged and not tried again |
| `OneLiveContainer` | one of the two is being terminated (`dead`) | the next POST finds the dead flag and spawns, though the container stops only now, or never if its `terminate` was cut short |
| `OneLiveContainer` | no `"show"` fault | `is_alive` takes any Docker error for death (`docker_runner.py`), and the live runner is replaced without being stopped |
| `OneLiveContainer` | `Overlap = FALSE` | `registry_two_spawners`: two POSTs spawn side by side |
| `CrashedWereAllowed` | the call may have ended | a late allow is recorded after the AfterToolCall, or the after-hook is lost: the call that has ended is reported if the runner is lost later |
| `StoredWhole` | starts at `since`, where the persister subscribed | the persister subscribes when its task first runs (`stream.py:293`), after the prompt was committed: a warm runner may be faster, and its first events are not stored |
| `StoredWhole` | the persister has not given up | heartbeats are not published, so a long tool call looks like a dead runner, and the persister returns (`stream.py:311`); an operation that raises ends it too |
| `StoredOnce` | 2 POSTs | three POSTs for one run id: the done callback pops the key of the task's successor (`stream.py:140`), and the third POST starts one beside it |
| `RunEndsForBrowser` | `Gets = {}` | a run that ends during the first replay makes the GET return without its last events (`stream.py:183`), and the browser waits for them for ever |
| `OwnRing` | no RUN_STARTED was dropped and no RUN_ERROR of the channel has arrived | the frame taken for the rejected one is a RUN_STARTED: what follows goes to the run before. The channel's RUN_ERROR ends a run whose frames go on to come: they are parked and flushed into the next run |
| `NothingLostSilently`, `EveryFrameArrives` | the channel is not stopped | `stop()` loses what is queued (`channel.py:87`) |
| `ExclusiveTurn` | unless a runner outlived the sweep (`outlived`) and the message was `overdue` | a turn longer than 300 s is read again by the other runner (`inbox_consumer.py:26`) |
| `MessagesSurvive` | turns that raised | `_run` deletes the message in its `finally` (`__main__.py:168`) |
| `ColdTurnSeesConversation` | requests do not overlap (`overlapped`), no runner outlives a restart (`outlived`) | the hydration was made before the other request's message was answered |
| `RecordEndsWithCall` | its premises: the hook was not given up, and the after-hook not lost | a late BeforeToolCall records a call that was cancelled and is over; a dropped after-hook leaves its record. Both calls are reported if the runner crashes later |
| `StoredTextHasNoHole` | no flush of the timer raised | the buffer was cleared before the UPDATE (`debounce.py:94`), nobody awaits the task, and later deltas are stored |
| `ReloadMatchesLive` | one row for the run's message | timer and persister both insert one (`stream.py:249`), and the calls hang on either |
| `ReloadMatchesLive` | cards of calls that are not `early` | the hook's denial overtakes the TOOL_CALL_START: the browser makes a card of it, the UPDATE finds no row (`tool_calls.py:154`), and the row that comes later is not denied |
| `NoLeakedQueue` | requests that end before `consume` | a client that is gone before its response is iterated or during a replay, or a GET that returns after its first replay, leaves its queue in `_subs` (`stream.py:184`) |

### Disagreements between code and text

The findings of `PROJECT.json`, each with the sentence of the repository it contradicts. The
first is shown by a run, in which TLC finds the promise violated:

1. `registry_two_spawners`: a POST that finds the runner dead at its first check removes
   the session's entry and lock without holding that lock. A later POST makes a new lock and spawns
   beside it. The comment at the locks (`registry.py:97-99`) promises one container.

The others were met while modelling; what the models do is what the code does:

2. A POST replaces a dead runner before its watcher times out; `_on_crash` then sees a foreign
   entry and writes no row for the calls in flight (`registry.py:308`).
3. The browser's cursor is never reset, but seqs start at 0 in every run: a reconnect in a second,
   shorter run skips its first events (`reducer.ts:129`). `stream_resume` has one run for that reason.
4. An event published while a GET replays is in the second replay and in the live queue, and is
   sent twice (`stream.py:187`).
5. The sentinel for a dropped reader goes into the queue that has just been full, and the reader
   waits for ever (`event_bus.py:46`).
6. Replayed deltas get new seqs and are appended a second time (`channel.py:265`); the channel
   says the backend tolerates them.
7. `stop()` of the channel does not close the stream cleanly but cancels it (`channel.py:87`).
8. The offload of an oversized frame uploads nothing (`__main__.py:95`), and
9. the frame it leaves behind has its fields where nobody reads them (`offload.py:114`).
10. A warm runner is given the newest message only, not the cumulative list (`__main__.py:200`).
11. Closing a session does not drop its queue (`pgmq.py:105`).
12. Cancelling a run has no effect: the registry has no `cancel` (`stop.py:36`).
13. A late or replayed RUN_FINISHED starts the warm-idle countdown in the middle of another run
    (`internal.py:167`), although `docs/architecture.md:658` says warm-idle never triggers mid-run.
14. A message whose turn raised is deleted (`__main__.py:168`), although `inbox_consumer.py:10-12` asks
    to acknowledge only what was fully processed.

## 4. Theorems

Proved by TLAPS for every value of the constants that satisfies the named assumptions of the
modules: `ConstantsAssumption`, `RoutingAssumption`, `OverlapAssumption`, `StreamAssumption`, `ClientAssumption`,
`ChannelAssumption`, `InboxAssumption`, `GateAssumption`, `RecordAssumption` (typing of the constants,
distinct names, positive sizes). A theorem that needs more says so in its `ASSUME`; each of these
conditions is one that a row of the table "What the instances leave out" shows to be needed, or a
configuration the run also has. The inductive invariants were model-checked on the runs' instances
before they were proved.

**RunnerRegistryProofs.** `TypeCorrect`: the inductive invariant is `TypeInv`, `TypeOK` with
`ProbesAnEntry` (a POST that probes has an entry in hand; otherwise the cache would be
written for nobody) and `TasksOwned` (a warm-idle task belongs to the manager that started
it). The others rest on `SafeInv`, which adds `RegistrySound` (an entry is found by its
runner, belongs to its session and has a watcher) and `WatchersStopped` (a task past
`heartbeat.stop()`, or a runner with an eviction row, has a watcher that is done).
`EvictedWatcherStopped` alone is not inductive: nothing in it says that the watcher of a
task in `hbstop` is done, nor that a watcher once done is never started again, which holds
because `SpawnReturns` starts the watcher of a runner whose `hb` is still `none`.

* `IndexAlwaysAgrees`: `Spec => []IndexAgrees`.
* `NoWatcherAfterEviction`: `Spec => []EvictedWatcherStopped`.
* `EvictionIsFinal`: `Spec => NoLossAfterEviction`; a loss row needs a watcher that is
  not done.
* `CallbacksAreSelective`: `Spec => CallbacksSpareFreshEntries`; by `RemoveEntryEffect`, a
  background step changes no entry but its own runner's.
* `CrashedCallsWereAllowed`: `Spec => []CrashedWereAllowed`. A decision is recorded on whatever entry the
  session has by then, so the rows a crash writes may name another runner's calls. `ToolInv`: such a
  call belongs to a runner that is not the session's any more, and by `GoneForGood` a runner
  that was replaced never is again, so no AfterToolCall of it is accepted.
* `NoRunnerIsReusedDying`: `Spec => NoZombieReuse`. `ZombieInv`: a runner that a kill marked dead while its
  watcher still waits is in no POST's hand, and neither the cached nor the pending answer about it says
  "alive". This is where the timing assumption `WindowElapsed` is used.
* `BusyKillsAreDisturbed`: `Spec => BusyKillNeedsOtherFinish`. `TimerInv` has three parts. `TimersCurrent`: a countdown or a
  terminate is its manager's current task, so whoever cancels the current task leaves none behind. `KillsUnseen`: no coroutine
  is about to return a runner whose kill is under way (again `WindowElapsed`). `UndisturbedRuns`: no countdown runs on the
  runner of an undisturbed run, because `on_user_message` is called when the runner is returned.
* `EvictionCleansUp`: `Spec => []EvictedIsGone`, for overlapping POSTs and every fault. `TerminateInv`: a runner has one terminate at
  most, and when that is over and was not cut short, the container and the file are gone.
* `SessionHasOneLiveContainer`, under `OneClient` (no overlapping POSTs of a session, a daemon that shows what it has). `LiveInv`:
  a POST under way is its session's only one, and a running container that nobody terminates is that of the session's entry.
  Crashes, silent runners, cut terminates and failing stop, wait, delete and spawn calls are included.

**FrameRoutingProofs.** Frames are those of `FrameRouting`, each emitted once; over `RunnerChannel`,
which replays them, the same operators of `Ingress` are the subject of `ReplaysKeepTheirRing`.

* `RoutingTypeCorrect`.
* `StartedAlwaysFirst`: strengthened to `StartInv`, the rings of the active run and of every
  execution that has started are not empty, so no frame but RUN_STARTED opens one.
* `LatestKeepsTopic`, for POSTs with distinct run ids (`RunsDistinct`): `LatestInv`, while the
  execution that started last is under way, its run is the active one. This is where the
  comparison in `RunEnded` is needed.
* `FramesAreRoutedOnce`: `OnceInv`, what is in a ring or parked was emitted before
  (`OnlyPast`), so a new frame is in none.

**EventStreamProofs.** `StreamsRoute`: `StreamSpec => RoutingSpec`, every step of bus, endpoints and persister
is a routing step or leaves the routing variables alone; the theorems above therefore hold
of `EventStream`.

* `StreamTypeCorrect`: from `StreamInv`, `TypeOK` with `TopicsKnown` (a subscriber knows its run).
* `EventsStoredOnce`, if no three POSTs ask for one run (`TwoPerRun`). `WritersInv`: what a persister
  has handled lies before what is in its queue, and its queue reaches up to the newest event. `PostsInv`: the run's
  key names a task whose callback is still to come. `PairsInv`: two persisters of a run never
  live at once, and the later one gets only events the earlier one no longer handles.
* `RunsAreStoredWhole`: `StreamSpec => []StoredWhole`, on warm and cold containers. `WholeInv`: a persister that listens has handled
  all that was published since it subscribed, up to what its queue starts with; one that ended at a terminal event has handled
  all up to it.
* `NoQueueLeaks`: `StreamSpec => NoLeakedQueue`, for any clients and any disconnects.

**StreamClientProofs.** `BrowserIsAClient`: `Spec => StreamSpec`, what the run loop does to the backend is what
`EventStream` allows any client; every theorem about streams holds with the browser there.

* `ClientTyped`: from `ClientInv`, `StreamInv` with the phases each kind of request can be in. `HeldInv`: queues and replays hold seqs
  that their run has reached; `SeenInv`: so has the view, and the cursor is a number the browser was sent.
* `NoEventIsSkipped`, for one run and a ring that loses at most the first event (`OneRunKept`), with any number of
  reconnects and any queue size. `CursorInv`: the browser has seen exactly what is up to its
  cursor. `ConnInv`: what waits in its queue and what is left to replay starts no later than behind the
  cursor, without a hole between the two, also when the queue was dropped in the middle of a replay.
* `PromiseIsNeverBroken`, with no reconnect, no overlapping executions and distinct run ids (`Undisturbed`): the
  initial states are those of `DeliveredStream`, and every step is one of its steps or stutters, which is the
  safety part of `KeepsThePromise`. `TurnsInv`: prompts are executed one after the other and the active run is
  that of the one under way. `ShownInv`: the view is the beginning of the ring, and the queue goes on from there.

**RunnerChannelProofs.** For any script of prompts and any number of breaks, heartbeats, refusals and offloads.

* `ChannelTyped`, `FramesAreAccountedFor` (`NothingLostSilently`): from `ChannelInv`. `Accounted` says that a frame of the script
  is in one of the channel's places, arrived or was dropped; `Attempts`, that nothing is on the wire or refused that the
  transcript does not have, so a replay covers what a break loses.
* `ArrivalsInOrder` (`FirstArrivalsInOrder`), if no prompt occurs twice (`PromptsDiffer`; otherwise equal frames of two executions could not be
  told apart). `OrderInv`: transcript, backlog, queue and the emitter's hand, read in this order, are `Ordered`, each frame
  coming after those before it in the script but for passed ones; the wire is so by itself, because what it
  repeats has passed.
* `ReplaysKeepTheirRing` (`OwnRing`): a frame is filed under its own run although every attempt repeats the frames of older
  ones, unless a RUN_STARTED was dropped or the channel's RUN_ERROR arrived (the two exceptions of the property). The
  invariant is `OwnInv`. `LineInv`: in transcript, backlog, queue and hand, read as one line, every inner frame is `Fit`: the
  RUN_STARTED of its prompt lies before it, with nothing in between that ends or changes the run. Each attempt starts at the
  beginning of that line; the emitter extends it, a refusal takes a frame out and puts RUN_ERROR in (`OpenInserted`,
  `OpenTakenOut`), the rest leaves it as it is (`LineUnchanged`). `Reading`: what the ingress has read of the attempt and
  the wire are what the attempt wrote, and the run which the part it has read leaves open is the active one, whatever was
  active when the attempt began.

**SessionInboxProofs.** `InboxInv`.

* `InboxTyped`. `QueuedMessagesSurvive`: `MessagesSurvive` with `JobsAreTurns`, a runner has a message exactly while it is in a turn or
  acknowledges one that has ended or raised. Turns of any length, deaths and restarts are included.
* `TurnsAreExclusive`: `OneRunner`, while no runner has outlived a restart only the registered one lives; `TurnsAreHidden`, the message of a
  turn is hidden or its visibility timeout has passed during the turn.
* `ColdTurnIsInformed`: `ColdTurnSeesConversation` has its premise in itself. `Alone`: while requests did not overlap one is under way, and its
  snapshot has every message that was sent. `Informed`: then, if no runner outlived a restart either, a runner before or on its first
  turn was given everything answered.

**ToolGateProofs.** `OnlyRecordedCallsRun`, `RecordsEnd`, from `GateInv`: an answered request has its row (`AnswersAreRecorded`); no decision about
a call is still to come once it is past its first hook, unless that was given up (`DecidedBefore`); and what keeps
the record of a call that is over is a hook on its way (`RecordIsTracked`).

**RunRecordProofs.**

* `NumbersHaveNoGap`: `NumbersInv`, a number that was read is at most the next one, however stale: it was taken meanwhile, or it is free and
  the next one still.
* `TextHasNoHole`: `TextInv`, the rows' text with what the two tasks and the buffer hold, in this order, is the beginning of what
  was published, and all of it while the persister listens. It needs that there are two rows at most (`TwoRows`) and that the deltas are
  in one place (`OneChunk`). `FoldUpToTwo` unfolds the fold over the rows.
* `ReloadShowsLive`: `LiveInv` adds that buffered deltas have a timer (`Waits`), that the rows of calls which were not denied before their start are the cards but for the
  frame the persister is busy with (`CallsInv`), and that once the bubble is closed only the persister writes, into the row it finalizes (`ClosedInv`).

**Only model-checked.** `EveryPostSettles`, `KilledRunnerLeaves`, `RunEndsForBrowser`, `EveryFrameArrives`, `QueuedMessageServed`,
`EveryCallSettles` and the liveness part of `KeepsThePromise`: liveness under fairness is beyond the prover.

## 5. Plan

The modules are written, and every safety property of a passing run has its theorem. None of the modules uses a
RECURSIVE operator.
What is left: the theorems of `FrameRoutingProofs` for a channel that replays, as far as they hold there (a replayed frame is
in its ring twice), and the structure of the longest proofs.

## 6. Not modelled

* Rendering, wording, logging, signatures, metrics; the translation of events in
  `agui_event_formatter`, of which only the terminal-event test matters here.
* Schema, migrations, engine, S3 and artifacts: single statements or plain I/O. The
  database is a place that accepts or fails.
* The agent library, MCP clients and the construction of the agent (`agent_factory`, loader,
  model factory, tools): configuration.
* The order of steps inside start-up and shut-down: a restart is one step. During a start-up
  no request is served, and a shut-down in the middle looks like a crash to all others.
* `retry()` and the fallback to the message history in the browser; session lists.
* Memory that is never released: `ExecutionRegistry.gc` has no caller.
* Message contents: an event is its number, a delta its place, a tool call its shape.
