------------------------ MODULE RunnerRegistryProofs ------------------------
(***************************************************************************)
(* Proofs about RunnerRegistry, for any number of POSTs and sessions and   *)
(* for every value of the switches.                                        *)
(***************************************************************************)
EXTENDS RunnerRegistry, TLAPS

-----------------------------------------------------------------------------
(* The inductive invariant.  TypeOK alone is not inductive: a coroutine     *)
(* that resumes from container.show() uses its local `entry`, and a warm-   *)
(* idle task the runner that created it, so both must be known to be there. *)

\* A coroutine that waits for an answer of the daemon has an entry to ask about.
ProbesAnEntry == \A p \in Posts : pc[p] \in Probing => ent[p] \in Posts

\* A warm-idle task has the manager that created it, and _task of a manager is
\* a task it created itself.
TasksOwned ==
    /\ \A t \in Tasks : task[t] # "none" <=> owner[t] # None
    /\ \A r \in Posts : current[r] # None => owner[current[r]] = r

TypeInv == TypeOK /\ ProbesAnEntry /\ TasksOwned

-----------------------------------------------------------------------------
(* Type correctness: what the pieces shared by the handlers return. *)

LEMMA CancelledType ==
    ASSUME NEW phase \in TaskPhases PROVE Cancelled(phase) \in TaskPhases
  BY DEF Cancelled, TaskPhases

LEMMA OnUserMessageType ==
    ASSUME TypeOK, NEW r \in Posts, OnUserMessage(r)
    PROVE  task' \in [Tasks -> TaskPhases]
  BY CancelledType DEF TypeOK, OnUserMessage

LEMMA RemoveEntryType ==
    ASSUME TypeOK, NEW s \in Sessions, NEW x \in Posts \cup {None}, RemoveEntry(s, x)
    PROVE  /\ entries' \in [Sessions -> Posts \cup {None}]
           /\ byRunner' \in [Posts -> Sessions \cup {None}]
           /\ spawnLocks' \in [Sessions -> Posts \cup {None}]
  BY DEF TypeOK, RemoveEntry, registryVars

LEMMA CacheAnswerType ==
    ASSUME TypeOK, NEW r \in Posts \cup {None}, NEW a, CacheAnswer(r, a)
    PROVE  cache' \in [Posts -> {"empty", "alive", "dead"}]
  BY DEF TypeOK, CacheAnswer

LEMMA AbandonType ==
    ASSUME TypeOK, NEW r \in Posts, NEW phase, Abandon(r, phase)
    PROVE  /\ container' \in [Posts -> {"none", "running", "exited", "deleted"}]
           /\ cut' \in SUBSET Posts
  BY DEF TypeOK, Abandon

LEMMA DockerType ==
    ASSUME TypeOK, NEW r \in Posts,
           StopReturns(r) \/ WaitReturns(r) \/ DeleteReturns(r)
    PROVE  /\ container' \in [Posts -> {"none", "running", "exited", "deleted"}]
           /\ files' \in SUBSET Posts
           /\ cut' \in SUBSET Posts
  BY DEF TypeOK, StopReturns, WaitReturns, DeleteReturns, Deletes

LEMMA ReturnType ==
    ASSUME TypeOK, NEW p \in Posts, NEW r \in Posts, Return(p, r)
    PROVE  /\ pc' \in [Posts -> PostPhases]
           /\ ent' \in [Posts -> Posts \cup {None}]
           /\ lock' \in [Posts -> Posts \cup {None}]
           /\ answer' \in [Posts -> BOOLEAN]
           /\ loop' \in Posts \cup {None}
           /\ awaited' \in [Posts -> Tasks \cup {None}]
           /\ task' \in [Tasks -> TaskPhases]
           /\ current' \in [Posts -> Tasks \cup {None}]
           /\ killing' \in [Posts -> BOOLEAN]
           /\ owner' \in [Tasks -> Posts \cup {None}]
           /\ disturbed' \in SUBSET Posts
  BY OnUserMessageType DEF TypeOK, Return, PostPhases

LEMMA StartSpawnType ==
    ASSUME TypeOK, NEW p \in Posts, StartSpawn(p)
    PROVE  /\ pc' \in [Posts -> PostPhases]
           /\ ent' \in [Posts -> Posts \cup {None}]
           /\ files' \in SUBSET Posts
           /\ loop' \in Posts \cup {None}
           /\ UNCHANGED <<awaited, lock, answer, container, dead, cut, warmVars>>
  BY DEF TypeOK, StartSpawn, PostPhases

-----------------------------------------------------------------------------
(* Type correctness: one lemma per action. *)

LEMMA InitType == Init => TypeInv
  BY ConstantsAssumption
  DEF Init, TypeInv, TypeOK, ProbesAnEntry, TasksOwned, PostPhases, Probing, TaskPhases, HbPhases

LEMMA BeginType ==
    ASSUME TypeOK, NEW p \in Posts, Begin(p) PROVE TypeOK'
  BY ConstantsAssumption, OnUserMessageType, SMTT(30)
  DEF TypeOK, Begin, PostPhases, registryVars, postVars, dockerVars, warmVars, toolVars

LEMMA KillSettledType ==
    ASSUME TypeOK, NEW p \in Posts, KillSettled(p) PROVE TypeOK'
  BY DEF TypeOK, KillSettled, PostPhases, registryVars, postVars, dockerVars, warmVars, toolVars

LEMMA RefetchType ==
    ASSUME TypeOK, NEW p \in Posts, Refetch(p) PROVE TypeOK'
  <1> DEFINE s == SessionOf[p]
             e == entries[s]
  <1>1. s \in Sessions /\ e \in Posts \cup {None}
    BY ConstantsAssumption DEF TypeOK
  <1>2. CASE pc' = [pc EXCEPT ![p] = "getlock"] /\ ent' = [ent EXCEPT ![p] = None]
             /\ UNCHANGED <<registryVars, loop, awaited, lock, answer, cache, warmVars>>
    BY <1>2 DEF TypeOK, Refetch, PostPhases, registryVars, postVars, dockerVars, warmVars, toolVars
  <1>3. CASE e # None /\ KnownAlive(e) /\ Return(p, e) /\ UNCHANGED <<registryVars, cache>>
    BY <1>1, <1>3, ReturnType DEF TypeOK, Refetch, registryVars, postVars, dockerVars, warmVars, toolVars
  <1>4. CASE e # None /\ CacheAnswer(e, FALSE) /\ RemoveEntry(s, None)
             /\ pc' = [pc EXCEPT ![p] = "getlock"] /\ ent' = [ent EXCEPT ![p] = None]
             /\ UNCHANGED <<loop, awaited, lock, answer, warmVars>>
    BY <1>1, <1>4, CacheAnswerType, RemoveEntryType
    DEF TypeOK, Refetch, PostPhases, registryVars, postVars, dockerVars, warmVars, toolVars
  <1>5. CASE pc' = [pc EXCEPT ![p] = "probe1"] /\ ent' = [ent EXCEPT ![p] = e] /\ loop' = None
             /\ UNCHANGED <<registryVars, awaited, lock, answer, cache, warmVars>>
    BY <1>1, <1>5 DEF TypeOK, Refetch, PostPhases, Probing, registryVars, postVars, dockerVars, warmVars, toolVars
  <1>6. QED
    BY <1>2, <1>3, <1>4, <1>5 DEF Refetch

LEMMA DaemonAnswersType ==
    ASSUME TypeOK, NEW p \in Posts, DaemonAnswers(p) PROVE TypeOK'
  BY DEF TypeOK, DaemonAnswers, PostPhases, Probing, registryVars, postVars, dockerVars, warmVars, toolVars

LEMMA FirstCheckResumesType ==
    ASSUME TypeInv, NEW p \in Posts, FirstCheckResumes(p) PROVE TypeOK'
  <1>1. TypeOK /\ SessionOf[p] \in Sessions /\ ent[p] \in Posts
    BY ConstantsAssumption DEF TypeInv, ProbesAnEntry, FirstCheckResumes, Probing
  <1>2. CASE answer[p]
    BY <1>1, <1>2, CacheAnswerType, ReturnType DEF TypeOK, FirstCheckResumes, registryVars, postVars, dockerVars, warmVars, toolVars
  <1>3. CASE ~answer[p]
    BY <1>1, <1>3, CacheAnswerType, RemoveEntryType, SMTT(30)
    DEF TypeOK, FirstCheckResumes, PostPhases, registryVars, postVars, dockerVars, warmVars, toolVars
  <1>4. QED
    BY <1>2, <1>3

LEMMA GetLockType ==
    ASSUME TypeOK, NEW p \in Posts, GetLock(p) PROVE TypeOK'
  <1> DEFINE s == SessionOf[p]
             l == IF spawnLocks[s] = None THEN p ELSE spawnLocks[s]
  <1>1. l \in Posts /\ s \in Sessions
    BY ConstantsAssumption DEF TypeOK
  <1>2. /\ spawnLocks' = [spawnLocks EXCEPT ![s] = l]
        /\ lock' = [lock EXCEPT ![p] = l]
        /\ \E x \in {"locked", "lockwait"} : pc' = [pc EXCEPT ![p] = x]
        /\ loop' \in {loop, None}
    BY DEF GetLock
  <1>3. UNCHANGED <<entries, byRunner, ent, awaited, answer, dockerVars, cache, warmVars, hb,
                    toolVars, audit>>
    BY DEF GetLock
  <1> HIDE DEF l, s
  <1>4. QED
    BY <1>1, <1>2, <1>3 DEF TypeOK, PostPhases, registryVars, postVars, dockerVars, warmVars, toolVars

LEMMA LockGrantedType ==
    ASSUME TypeOK, NEW p \in Posts, LockGranted(p) PROVE TypeOK'
  BY DEF TypeOK, LockGranted, PostPhases, registryVars, postVars, dockerVars, warmVars, toolVars

LEMMA DoubleCheckType ==
    ASSUME TypeOK, NEW p \in Posts, DoubleCheck(p) PROVE TypeOK'
  <1> DEFINE e == entries[SessionOf[p]]
  <1>1. e \in Posts \cup {None}
    BY ConstantsAssumption DEF TypeOK
  <1>2. CASE StartSpawn(p) /\ (UNCHANGED cache \/ CacheAnswer(e, FALSE))
    BY <1>1, <1>2, StartSpawnType, CacheAnswerType, ZenonT(30) DEF TypeOK, DoubleCheck, registryVars, postVars, dockerVars, warmVars, toolVars
  <1>3. CASE e # None /\ KnownAlive(e) /\ Return(p, e) /\ UNCHANGED <<dockerVars, cache>>
    BY <1>1, <1>3, ReturnType DEF TypeOK, DoubleCheck, registryVars, postVars, dockerVars, warmVars, toolVars
  <1>4. CASE pc' = [pc EXCEPT ![p] = "probe2"] /\ ent' = [ent EXCEPT ![p] = e] /\ loop' = None
             /\ UNCHANGED <<awaited, lock, answer, dockerVars, cache, warmVars>>
    BY <1>1, <1>4 DEF TypeOK, DoubleCheck, PostPhases, Probing, registryVars, postVars, dockerVars, warmVars, toolVars
  <1>5. QED
    BY <1>2, <1>3, <1>4 DEF DoubleCheck

LEMMA SecondCheckResumesType ==
    ASSUME TypeInv, NEW p \in Posts, SecondCheckResumes(p) PROVE TypeOK'
  <1>1. TypeOK /\ ent[p] \in Posts
    BY DEF TypeInv, ProbesAnEntry, SecondCheckResumes, Probing
  <1>2. CASE answer[p]
    BY <1>1, <1>2, CacheAnswerType, ReturnType DEF TypeOK, SecondCheckResumes, registryVars, postVars, dockerVars, warmVars, toolVars
  <1>3. CASE ~answer[p]
    BY <1>1, <1>3, CacheAnswerType, StartSpawnType DEF TypeOK, SecondCheckResumes, registryVars, postVars, dockerVars, warmVars, toolVars
  <1>4. QED
    BY <1>2, <1>3

LEMMA SpawnReturnsType ==
    ASSUME TypeOK, NEW p \in Posts, SpawnReturns(p) PROVE TypeOK'
  BY ConstantsAssumption DEF TypeOK, SpawnReturns, PostPhases, HbPhases, registryVars, postVars, dockerVars, warmVars, toolVars

LEMMA SpawnFailsType ==
    ASSUME TypeOK, NEW p \in Posts, SpawnFails(p) PROVE TypeOK'
  BY DEF TypeOK, SpawnFails, PostPhases, registryVars, postVars, dockerVars, warmVars, toolVars

LEMMA SpawnAuditedType ==
    ASSUME TypeOK, NEW p \in Posts, SpawnAudited(p) PROVE TypeOK'
  BY ReturnType DEF TypeOK, SpawnAudited, registryVars, postVars, dockerVars, warmVars, toolVars

LEMMA OnRunFinishedType ==
    ASSUME TypeOK, NEW r \in Posts, NEW p \in Posts, NEW t \in Tasks, OnRunFinished(r, p, t)
    PROVE  /\ current' \in [Posts -> Tasks \cup {None}]
           /\ killing' \in [Posts -> BOOLEAN]
           /\ owner' \in [Tasks -> Posts \cup {None}]
           /\ task' \in [Tasks -> TaskPhases]
           /\ disturbed' \in SUBSET Posts
           /\ container' \in [Posts -> {"none", "running", "exited", "deleted"}]
           /\ cut' \in SUBSET Posts
  <1>1. task' \in [Tasks -> TaskPhases]
    BY CancelledType DEF OnRunFinished, TypeOK, TaskPhases
  <1>2. \E phase : Abandon(r, phase)
    BY DEF OnRunFinished
  <1>3. disturbed' \in SUBSET Posts
    BY DEF OnRunFinished, Running, TypeOK
  <1>4. QED
    BY <1>1, <1>2, <1>3, AbandonType DEF OnRunFinished, TypeOK

LEMMA RunEndsType ==
    ASSUME TypeOK, NEW p \in Posts, RunEnds(p) PROVE TypeOK'
  <1>1. CASE RunErrored(p)
    BY <1>1 DEF TypeOK, RunErrored, PostPhases, registryVars, postVars, dockerVars, warmVars, toolVars
  <1>2. CASE RunFinished(p)
    <2> DEFINE r == entries[SessionOf[p]]
    <2>1. r \in Posts \cup {None}
      BY ConstantsAssumption DEF TypeOK
    <2>2. CASE r = None
      BY <1>2, <2>2, SMTT(30) DEF TypeOK, RunFinished, PostPhases, registryVars, postVars, dockerVars, warmVars, toolVars
    <2>3. CASE r # None
      <3>1. PICK t \in Tasks : OnRunFinished(r, p, t)
        BY <1>2, <2>3 DEF RunFinished
      <3>2. UNCHANGED <<registryVars, loop, ent, awaited, lock, answer, dead, files,
                        cache, hb, toolVars, audit>>
        BY <1>2 DEF RunFinished
      <3>3. r \in Posts /\ pc' = [pc EXCEPT ![p] = "finished"]
        BY <1>2, <2>1, <2>3 DEF RunFinished
      <3> HIDE DEF r
      <3>4. QED
        BY <3>1, <3>2, <3>3, OnRunFinishedType
        DEF TypeOK, PostPhases, registryVars, postVars, dockerVars, warmVars, toolVars
    <2>4. QED
      BY <2>2, <2>3
  <1>3. QED
    BY <1>1, <1>2 DEF RunEnds

LEMMA StopHeartbeatType ==
    ASSUME TypeOK, NEW t \in Tasks, owner[t] \in Posts, StopHeartbeat(t)
    PROVE  /\ entries' \in [Sessions -> Posts \cup {None}]
           /\ byRunner' \in [Posts -> Sessions \cup {None}]
           /\ spawnLocks' \in [Sessions -> Posts \cup {None}]
           /\ hb' \in [Posts -> HbPhases]
           /\ task' \in [Tasks -> TaskPhases]
  <1>1. SessionOf[owner[t]] \in Sessions
    BY ConstantsAssumption
  <1>2. CASE hb[owner[t]] # "done"
    BY <1>2 DEF TypeOK, StopHeartbeat, HbPhases, TaskPhases, registryVars
  <1>3. CASE hb[owner[t]] = "done"
    BY <1>1, <1>3, RemoveEntryType DEF TypeOK, StopHeartbeat, TaskPhases
  <1>4. QED
    BY <1>2, <1>3

LEMMA KillTaskType ==
    ASSUME TypeInv, NEW t \in Tasks, KillTask(t) PROVE TypeOK'
  <1>1. TypeOK /\ owner[t] \in Posts /\ SessionOf[owner[t]] \in Sessions
    BY ConstantsAssumption
    DEF TypeInv, TypeOK, TasksOwned, KillTask, IdleTimeout, KillStep, HeartbeatStopped, EvictAudited
  <1>2. CASE IdleTimeout(t)
    <2>1. CASE dead[owner[t]]
      BY <1>1, <1>2, <2>1, StopHeartbeatType, AbandonType DEF TypeOK, IdleTimeout, registryVars, postVars, dockerVars, warmVars, toolVars
    <2>2. CASE ~dead[owner[t]]
      BY <1>1, <1>2, <2>2 DEF TypeOK, IdleTimeout, TaskPhases, Terminating, registryVars, postVars, dockerVars, warmVars, toolVars
    <2>3. QED
      BY <2>1, <2>2
  <1>3. CASE KillStep(t)
    BY <1>1, <1>3, DockerType, StopHeartbeatType
    DEF TypeOK, KillStep, TaskPhases, Terminating, registryVars, postVars, dockerVars, warmVars, toolVars
  <1>4. CASE HeartbeatStopped(t)
    BY <1>1, <1>4, RemoveEntryType DEF TypeOK, HeartbeatStopped, TaskPhases, registryVars, postVars, dockerVars, warmVars, toolVars
  <1>5. CASE EvictAudited(t)
    BY <1>1, <1>5 DEF TypeOK, EvictAudited, TaskPhases, registryVars, postVars, dockerVars, warmVars, toolVars
  <1>6. QED
    BY <1>2, <1>3, <1>4, <1>5 DEF KillTask

LEMMA CrashCallbackType ==
    ASSUME TypeOK, NEW r \in Posts, CrashCallback(r)
    PROVE  /\ entries' \in [Sessions -> Posts \cup {None}]
           /\ byRunner' \in [Posts -> Sessions \cup {None}]
           /\ spawnLocks' \in [Sessions -> Posts \cup {None}]
           /\ hb' \in [Posts -> HbPhases]
  BY ConstantsAssumption, RemoveEntryType DEF TypeOK, CrashCallback, HbPhases

LEMMA HeartbeatTaskType ==
    ASSUME TypeOK, NEW r \in Posts, HeartbeatTask(r) PROVE TypeOK'
  <1>1. CASE HeartbeatTimeout(r)
    BY <1>1, CrashCallbackType DEF TypeOK, HeartbeatTimeout, HbPhases, Terminating, registryVars, postVars, dockerVars, warmVars, toolVars
  <1>2. CASE HeartbeatStep(r)
    BY <1>2, DockerType, CrashCallbackType
    DEF TypeOK, HeartbeatStep, HbPhases, Terminating, registryVars, postVars, dockerVars, warmVars, toolVars
  <1>3. CASE LostAudited(r)
    BY <1>3 DEF TypeOK, LostAudited, HbPhases, registryVars, postVars, dockerVars, warmVars, toolVars
  <1>4. CASE CrashedAudited(r)
    BY <1>4 DEF TypeOK, CrashedAudited, HbPhases, registryVars, postVars, dockerVars, warmVars, toolVars
  <1>5. QED
    BY <1>1, <1>2, <1>3, <1>4 DEF HeartbeatTask

LEMMA RunnerEventType ==
    ASSUME TypeOK, NEW r \in Posts, RunnerEvent(r) PROVE TypeOK'
  <1>1. CASE ContainerExits(r) \/ CacheExpires(r) \/ BeforeToolCall(r)
    BY <1>1, SMTT(30) DEF TypeOK, ContainerExits, CacheExpires, BeforeToolCall, registryVars, postVars, dockerVars, warmVars, toolVars
  <1>2. CASE ToolCallDecided(r)
    BY <1>2, SMTT(30) DEF TypeOK, ToolCallDecided, registryVars, postVars, dockerVars, warmVars, toolVars
  <1>3. CASE AfterToolCall(r)
    BY <1>3 DEF TypeOK, AfterToolCall, registryVars, postVars, dockerVars, warmVars, toolVars
  <1>4. QED
    BY <1>1, <1>2, <1>3 DEF RunnerEvent

LEMMA NextType ==
    ASSUME TypeInv, Next PROVE TypeOK'
  <1>1. ASSUME NEW p \in Posts, PostStep(p) PROVE TypeOK'
    BY <1>1, BeginType, KillSettledType, RefetchType, DaemonAnswersType, FirstCheckResumesType,
       GetLockType, LockGrantedType, DoubleCheckType, SecondCheckResumesType, SpawnReturnsType,
       SpawnFailsType, SpawnAuditedType
    DEF PostStep, TypeInv
  <1>2. QED
    BY <1>1, RunEndsType, KillTaskType, HeartbeatTaskType, RunnerEventType DEF Next, TypeInv

-----------------------------------------------------------------------------
(* The other two parts of TypeInv. *)

\* The steps of a POST leave the other POSTs where they stand.
LEMMA PostStepLocal ==
    ASSUME TypeOK, NEW p \in Posts, PostStep(p) \/ RunEnds(p), NEW q \in Posts \ {p}
    PROVE  pc'[q] = pc[q] /\ ent'[q] = ent[q]
  <1> USE DEF PostStep, RunEnds, Begin, KillSettled, Refetch, Return, DaemonAnswers,
         FirstCheckResumes, GetLock, LockGranted, StartSpawn, DoubleCheck, SecondCheckResumes,
         SpawnReturns, SpawnFails, SpawnAudited, RunFinished, RunErrored
  <1>1. \E x : pc' = [pc EXCEPT ![p] = x]
    OBVIOUS
  <1>2. ent' = ent \/ \E x : ent' = [ent EXCEPT ![p] = x]
    OBVIOUS
  <1>3. QED
    BY <1>1, <1>2 DEF TypeOK

\* The background tasks and the runners do not touch the POSTs.
LEMMA OthersLeavePosts ==
    ASSUME NEW r, KillTask(r) \/ HeartbeatTask(r) \/ RunnerEvent(r)
    PROVE  UNCHANGED postVars
  BY DEF KillTask, IdleTimeout, KillStep, HeartbeatStopped, EvictAudited, HeartbeatTask,
         HeartbeatTimeout, HeartbeatStep, LostAudited, CrashedAudited, RunnerEvent,
         ContainerExits, CacheExpires, BeforeToolCall, ToolCallDecided, AfterToolCall, registryVars, postVars, dockerVars, warmVars, toolVars

LEMMA NextProbes ==
    ASSUME TypeInv, Next PROVE ProbesAnEntry'
  <1>1. ASSUME NEW p \in Posts, PostStep(p) \/ RunEnds(p), pc'[p] \in Probing
        PROVE  ent'[p] \in Posts
    <2>1. entries[SessionOf[p]] \in Posts \cup {None}
      BY ConstantsAssumption DEF TypeInv, TypeOK
    <2>2. CASE Refetch(p) \/ DoubleCheck(p)
      BY <1>1, <2>1, <2>2, ZenonT(30) DEF TypeInv, TypeOK, Refetch, DoubleCheck, Return, StartSpawn, Probing
    <2>3. CASE DaemonAnswers(p)
      BY <1>1, <2>3 DEF TypeInv, TypeOK, ProbesAnEntry, DaemonAnswers, Probing
    <2>4. QED
      BY <1>1, <2>2, <2>3
      DEF TypeInv, TypeOK, PostStep, RunEnds, Begin, KillSettled, Return, FirstCheckResumes, GetLock,
          LockGranted, StartSpawn, SecondCheckResumes, SpawnReturns, SpawnFails, SpawnAudited,
          RunFinished, RunErrored, Probing
  <1>2. QED
    BY <1>1, PostStepLocal, OthersLeavePosts DEF TypeInv, ProbesAnEntry, Next, postVars

LEMMA NextTasksOwned ==
    ASSUME TypeInv, Next PROVE TasksOwned'
  <1> USE DEF TypeInv, TypeOK, TasksOwned
  <1>1. ASSUME NEW p \in Posts, PostStep(p) PROVE TasksOwned'
    <2>1. UNCHANGED <<current, owner>>
      BY <1>1 DEF PostStep, Begin, KillSettled, Refetch, Return, DaemonAnswers, FirstCheckResumes,
         GetLock, LockGranted, StartSpawn, DoubleCheck, SecondCheckResumes, SpawnReturns,
         SpawnFails, SpawnAudited, warmVars
    <2>3. \A e \in Posts : OnUserMessage(e) =>
             \A t \in Tasks : task'[t] # "none" <=> task[t] # "none"
      <3> SUFFICES ASSUME NEW e \in Posts, OnUserMessage(e)
                   PROVE  \A t \in Tasks : task'[t] # "none" <=> task[t] # "none"
        OBVIOUS
      <3>1. CASE killing[e] \/ current[e] = None
        BY <3>1 DEF OnUserMessage
      <3>2. CASE ~(killing[e] \/ current[e] = None)
        <4>1. task[current[e]] # "none"
          <5>1. current[e] \in Tasks /\ owner[current[e]] = e
            BY <3>2
          <5>2. e # None
            BY ConstantsAssumption
          <5>3. QED
            BY <5>1, <5>2, Zenon DEF TasksOwned
        <4>2. task' = [task EXCEPT ![current[e]] = Cancelled(@)]
          BY <3>2 DEF OnUserMessage
        <4>3. QED
          BY <4>1, <4>2 DEF Cancelled
      <3>3. QED
        BY <3>1, <3>2
    <2>4. task' = task \/ \E e \in Posts : OnUserMessage(e)
      <3>1. entries[SessionOf[p]] \in Posts \cup {None}
        BY ConstantsAssumption
      <3>2. pc[p] \in Probing => ent[p] \in Posts
        BY DEF ProbesAnEntry
      <3>3. QED
        BY <1>1, <3>1, <3>2
        DEF PostStep, Begin, KillSettled, Refetch, Return, DaemonAnswers, FirstCheckResumes,
            GetLock, LockGranted, StartSpawn, DoubleCheck, SecondCheckResumes, SpawnReturns,
            SpawnFails, SpawnAudited, Probing, warmVars
    <2>5. QED
      BY <1>1, <2>1, <2>3, <2>4
  <1>2. ASSUME NEW p \in Posts, RunEnds(p) PROVE TasksOwned'
    <2>1. CASE RunErrored(p)
      BY <2>1 DEF RunErrored, warmVars
    <2>2. CASE RunFinished(p)
      <3> DEFINE r == entries[SessionOf[p]]
      <3>1. r \in Posts \cup {None}
        BY ConstantsAssumption
      <3>2. CASE r = None
        BY <2>2, <3>2 DEF RunFinished
      <3>3. CASE r # None
        <4>1. PICK t \in Tasks : FreshTask(t) /\ OnRunFinished(r, p, t)
          BY <2>2, <3>3 DEF RunFinished
        <4>2. r \in Posts
          BY <3>1, <3>3
        <4>3. owner[t] = None
          BY <4>1 DEF FreshTask
        <4> HIDE DEF r
        <4>4. \A u \in Tasks : task'[u] # "none" <=> owner'[u] # None
          BY <4>1, <4>2, <4>3, ConstantsAssumption DEF OnRunFinished, Cancelled
        <4>5. \A x \in Posts : current'[x] # None => owner'[current'[x]] = x
          BY <4>1, <4>2, <4>3, ConstantsAssumption DEF OnRunFinished
        <4>6. QED
          BY <4>4, <4>5
      <3>4. QED
        BY <3>2, <3>3
    <2>3. QED
      BY <1>2, <2>1, <2>2 DEF RunEnds
  <1>3. ASSUME NEW t \in Tasks, KillTask(t) PROVE TasksOwned'
    <2>1. UNCHANGED <<current, owner, pc>>
      BY <1>3, OthersLeavePosts DEF KillTask, IdleTimeout, KillStep, HeartbeatStopped, EvictAudited, postVars
    <2>2. task[t] # "none" /\ \E x \in TaskPhases \ {"none"} : task' = [task EXCEPT ![t] = x]
      BY <1>3 DEF KillTask, IdleTimeout, KillStep, HeartbeatStopped, EvictAudited, StopHeartbeat,
         TaskPhases, Terminating
    <2>3. QED
      BY <2>1, <2>2
  <1>4. ASSUME NEW r \in Posts, HeartbeatTask(r) \/ RunnerEvent(r) PROVE TasksOwned'
    BY <1>4, OthersLeavePosts
    DEF HeartbeatTask, HeartbeatTimeout, HeartbeatStep, LostAudited, CrashedAudited, RunnerEvent,
        ContainerExits, CacheExpires, BeforeToolCall, ToolCallDecided, AfterToolCall, warmVars, postVars
  <1>5. QED
    BY <1>1, <1>2, <1>3, <1>4 DEF Next

\* Every reachable state is well typed: RunnerRegistry's variables keep the
\* types TypeOK gives them, whatever the handlers and tasks interleave.
THEOREM TypeCorrect == Spec => []TypeOK
  <1>1. TypeInv /\ [Next]_vars => TypeInv'
    <2>1. ASSUME TypeInv, Next PROVE TypeInv'
      BY <2>1, NextType, NextProbes, NextTasksOwned DEF TypeInv
    <2>2. ASSUME TypeInv, UNCHANGED vars PROVE TypeInv'
      BY <2>2 DEF TypeInv, TypeOK, ProbesAnEntry, TasksOwned, vars, registryVars, postVars, dockerVars, warmVars, toolVars
    <2>3. QED
      BY <2>1, <2>2
  <1>2. TypeInv => TypeOK
    BY DEF TypeInv
  <1>3. QED
    BY InitType, <1>1, <1>2, PTL DEF Spec

-----------------------------------------------------------------------------
(* Safety: the reverse index, and the watchers of evicted runners.          *)
(* An entry is indexed under its own session, and an entry or a warm-idle   *)
(* task belongs to a runner whose watcher was started when its own POST     *)
(* spawned it.  That rules out a SpawnReturns that would wake a watcher an  *)
(* eviction has already stopped.                                            *)

RegistrySound ==
    /\ \A s \in Sessions : entries[s] # None =>
            /\ byRunner[entries[s]] = s
            /\ SessionOf[entries[s]] = s
            /\ hb[entries[s]] # "none"
    /\ \A t \in Tasks : owner[t] # None => hb[owner[t]] # "none"
    /\ \A r \in Posts : hb[r] # "none" => pc[r] \in {"auditing", "returned", "finished", "errored"}

WatchersStopped ==
    /\ \A t \in Tasks : task[t] \in {"hbstop", "audit"} => hb[owner[t]] = "done"
    /\ \A r \in Posts : <<"runner_warm_idle_evicted", r>> \in audit => hb[r] = "done"

SafeInv == TypeInv /\ RegistrySound /\ WatchersStopped

LEMMA InitSafe == Init => SafeInv
  BY InitType, ConstantsAssumption DEF Init, SafeInv, RegistrySound, WatchersStopped

\* _remove_entry removes the entry of its session with its index, or nothing.
LEMMA RemoveEntryEffect ==
    ASSUME TypeOK, NEW s \in Sessions, NEW x, RemoveEntry(s, x)
    PROVE  /\ \A q \in Sessions : entries'[q] = entries[q] \/ (q = s /\ entries'[q] = None)
           /\ \A r \in Posts : byRunner'[r] = byRunner[r] \/ (r = entries[s] /\ entries'[s] = None)
  BY DEF TypeOK, RemoveEntry, registryVars

\* A watcher starts when its runner is installed, and is over once it is done.
LEMMA NextHb ==
    ASSUME TypeInv, RegistrySound, Next, NEW r \in Posts, hb'[r] # hb[r]
    PROVE  \/ SpawnReturns(r) /\ hb[r] = "none" /\ hb'[r] = "waiting"
           \/ hb[r] \notin {"none", "done"} /\ hb'[r] # "none"
  <1> USE DEF TypeInv, TypeOK
  <1>1. ASSUME NEW p \in Posts, PostStep(p) PROVE hb' = hb \/ SpawnReturns(p)
    BY <1>1 DEF PostStep, Begin, KillSettled, Refetch, Return, DaemonAnswers, FirstCheckResumes,
       GetLock, LockGranted, StartSpawn, DoubleCheck, SecondCheckResumes, SpawnReturns,
       SpawnFails, SpawnAudited
  <1>2. ASSUME NEW p \in Posts, SpawnReturns(p)
        PROVE  p = r /\ hb[r] = "none" /\ hb'[r] = "waiting"
    BY <1>2 DEF SpawnReturns, RegistrySound
  <1>3. ASSUME NEW p \in Posts, RunEnds(p) PROVE hb' = hb
    BY <1>3 DEF RunEnds, RunFinished, RunErrored
  <1>4. ASSUME NEW t \in Tasks, KillTask(t) PROVE hb[r] \notin {"none", "done"} /\ hb'[r] # "none"
    <2>1. owner[t] \in Posts /\ hb[owner[t]] # "none"
      BY <1>4, ConstantsAssumption DEF TasksOwned, RegistrySound, KillTask, IdleTimeout, KillStep, HeartbeatStopped,
         EvictAudited
    <2>2. hb' = hb \/ (hb[owner[t]] # "done" /\ hb' = [hb EXCEPT ![owner[t]] = "done"])
      BY <1>4 DEF KillTask, IdleTimeout, KillStep, HeartbeatStopped, EvictAudited, StopHeartbeat
    <2>3. QED
      BY <2>1, <2>2
  <1>5. ASSUME NEW q \in Posts, HeartbeatTask(q) PROVE hb[r] \notin {"none", "done"} /\ hb'[r] # "none"
    <2>1. hb[q] \notin {"none", "done"} /\ \E x \in HbPhases \ {"none"} : hb' = [hb EXCEPT ![q] = x]
      BY <1>5 DEF HeartbeatTask, HeartbeatTimeout, HeartbeatStep, LostAudited, CrashedAudited,
         CrashCallback, HbPhases, Terminating
    <2>2. QED
      BY <2>1
  <1>6. ASSUME NEW q \in Posts, RunnerEvent(q) PROVE hb' = hb
    BY <1>6 DEF RunnerEvent, ContainerExits, CacheExpires, BeforeToolCall, ToolCallDecided, AfterToolCall
  <1>7. QED
    BY <1>1, <1>2, <1>3, <1>4, <1>5, <1>6 DEF Next

\* The registry's maps change by a removal in one session or by an installation.
LEMMA NextMaps ==
    ASSUME TypeInv, Next
    PROVE  \/ UNCHANGED <<entries, byRunner>>
           \/ \E s \in Sessions, x \in Posts \cup {None} : RemoveEntry(s, x)
           \/ \E p \in Posts : SpawnReturns(p)
  <1> USE DEF TypeInv, TypeOK
  <1>1. ASSUME NEW p \in Posts, PostStep(p)
        PROVE  UNCHANGED <<entries, byRunner>> \/ RemoveEntry(SessionOf[p], None) \/ SpawnReturns(p)
    BY <1>1 DEF PostStep, Begin, KillSettled, Refetch, Return, DaemonAnswers, FirstCheckResumes,
       GetLock, LockGranted, StartSpawn, DoubleCheck, SecondCheckResumes, SpawnReturns,
       SpawnFails, SpawnAudited, registryVars
  <1>2. ASSUME NEW p \in Posts, RunEnds(p) PROVE UNCHANGED <<entries, byRunner>>
    BY <1>2 DEF RunEnds, RunFinished, RunErrored, registryVars
  <1>3. ASSUME NEW t \in Tasks, KillTask(t)
        PROVE  \/ UNCHANGED <<entries, byRunner>>
               \/ owner[t] \in Posts /\ RemoveEntry(SessionOf[owner[t]], owner[t])
    <2>1. owner[t] \in Posts
      BY <1>3 DEF TasksOwned, KillTask, IdleTimeout, KillStep, HeartbeatStopped, EvictAudited
    <2>2. QED
      BY <1>3, <2>1 DEF KillTask, IdleTimeout, KillStep, HeartbeatStopped, EvictAudited, StopHeartbeat,
         registryVars
  <1>4. ASSUME NEW r \in Posts, HeartbeatTask(r)
        PROVE  UNCHANGED <<entries, byRunner>> \/ RemoveEntry(SessionOf[r], r)
    BY <1>4 DEF HeartbeatTask, HeartbeatTimeout, HeartbeatStep, LostAudited, CrashedAudited, CrashCallback,
       registryVars
  <1>5. ASSUME NEW r \in Posts, RunnerEvent(r) PROVE UNCHANGED <<entries, byRunner>>
    BY <1>5 DEF RunnerEvent, ContainerExits, CacheExpires, BeforeToolCall, ToolCallDecided, AfterToolCall,
       registryVars
  <1>6. \A r \in Posts : SessionOf[r] \in Sessions
    BY ConstantsAssumption
  <1>7. CASE (\E p \in Posts : PostStep(p) \/ RunEnds(p)) \/ (\E r \in Posts : RunnerEvent(r))
    BY <1>1, <1>2, <1>5, <1>6, <1>7
  <1>8. CASE (\E t \in Tasks : KillTask(t)) \/ (\E r \in Posts : HeartbeatTask(r))
    BY <1>3, <1>4, <1>6, <1>8
  <1>9. QED
    BY <1>7, <1>8 DEF Next

LEMMA NextRegistrySound ==
    ASSUME TypeInv, RegistrySound, Next PROVE RegistrySound'
  <1>1. TypeOK /\ TypeOK'
    BY NextType DEF TypeInv
  <1>2. \A r \in Posts : hb[r] # "none" => hb'[r] # "none"
    BY NextHb
  <1>3. ASSUME NEW s \in Sessions, entries'[s] # None
        PROVE  byRunner'[entries'[s]] = s /\ SessionOf[entries'[s]] = s /\ hb'[entries'[s]] # "none"
    <2>1. CASE UNCHANGED <<entries, byRunner>>
      BY <1>1, <1>2, <1>3, <2>1 DEF RegistrySound, TypeOK
    <2>2. ASSUME NEW q \in Sessions, NEW x \in Posts \cup {None}, RemoveEntry(q, x)
          PROVE  byRunner'[entries'[s]] = s /\ SessionOf[entries'[s]] = s /\ hb'[entries'[s]] # "none"
      <3>1. entries'[s] = entries[s] /\ entries[s] \in Posts
        BY <1>1, <1>3, <2>2, RemoveEntryEffect DEF TypeOK
      <3>2. byRunner'[entries[s]] = byRunner[entries[s]]
        BY <1>1, <1>3, <2>2, <3>1, RemoveEntryEffect DEF RegistrySound
      <3>3. QED
        BY <1>2, <1>3, <3>1, <3>2 DEF RegistrySound
    <2>3. ASSUME NEW p \in Posts, SpawnReturns(p)
          PROVE  byRunner'[entries'[s]] = s /\ SessionOf[entries'[s]] = s /\ hb'[entries'[s]] # "none"
      BY <1>1, <1>2, <1>3, <2>3, ConstantsAssumption DEF SpawnReturns, RegistrySound, TypeOK
    <2>4. QED
      BY <2>1, <2>2, <2>3, NextMaps
  <1>4. ASSUME NEW t \in Tasks, owner'[t] # None PROVE hb'[owner'[t]] # "none"
    <2>1. owner'[t] = owner[t] \/ \E s \in Sessions : owner'[t] = entries[s] /\ entries[s] # None
      <3>1. ASSUME NEW p \in Posts, RunFinished(p)
            PROVE  \/ owner' = owner
                   \/ /\ entries[SessionOf[p]] # None
                      /\ \E u \in Tasks : owner' = [owner EXCEPT ![u] = entries[SessionOf[p]]]
        BY <3>1 DEF RunFinished, OnRunFinished, warmVars
      <3>2. ASSUME NEW p \in Posts, PostStep(p) PROVE owner' = owner
        BY <3>2 DEF PostStep, Begin, KillSettled, Refetch, Return, DaemonAnswers, FirstCheckResumes,
         GetLock, LockGranted, StartSpawn, DoubleCheck, SecondCheckResumes, SpawnReturns,
         SpawnFails, SpawnAudited, warmVars
      <3>3. ASSUME NEW p, KillTask(p) \/ HeartbeatTask(p) \/ RunnerEvent(p) \/ RunErrored(p)
            PROVE  owner' = owner
        BY <3>3 DEF KillTask, IdleTimeout, KillStep, HeartbeatStopped, EvictAudited, HeartbeatTask,
           HeartbeatTimeout, HeartbeatStep, LostAudited, CrashedAudited, RunnerEvent, ContainerExits,
           CacheExpires, BeforeToolCall, ToolCallDecided, AfterToolCall, RunErrored, warmVars
      <3>4. QED
        BY <1>1, <3>1, <3>2, <3>3, ConstantsAssumption DEF Next, RunEnds, TypeOK
    <2>2. QED
      BY <1>1, <1>2, <1>4, <2>1 DEF RegistrySound, TypeOK
  <1>5. ASSUME NEW r \in Posts, hb'[r] # "none" PROVE pc'[r] \in {"auditing", "returned", "finished", "errored"}
    <2>1. CASE SpawnReturns(r)
      BY <1>1, <2>1 DEF SpawnReturns, TypeOK
    <2>2. CASE ~SpawnReturns(r)
      <3>1. pc[r] \in {"auditing", "returned", "finished", "errored"}
        BY <1>5, <2>2, NextHb DEF RegistrySound
      <3>2. ASSUME PostStep(r) \/ RunEnds(r) PROVE pc'[r] \in {"auditing", "returned", "finished", "errored"}
        <4>1. SpawnAudited(r) \/ RunFinished(r) \/ RunErrored(r)
          BY <3>1, <3>2 DEF PostStep, RunEnds, Begin, KillSettled, Refetch, DaemonAnswers,
             FirstCheckResumes, GetLock, LockGranted, DoubleCheck, SecondCheckResumes, SpawnReturns,
             SpawnFails
        <4>2. QED
          BY <1>1, <4>1 DEF TypeOK, SpawnAudited, Return, RunFinished, RunErrored
      <3>3. QED
        BY <1>1, <3>1, <3>2, PostStepLocal, OthersLeavePosts DEF Next, postVars
    <2>3. QED
      BY <2>1, <2>2
  <1>6. QED
    BY <1>3, <1>4, <1>5 DEF RegistrySound

LEMMA NextWatchersStopped ==
    ASSUME SafeInv, Next PROVE WatchersStopped'
  <1> USE DEF SafeInv
  <1>1. TypeOK /\ \A r \in Posts : hb[r] = "done" => hb'[r] = "done"
    BY NextHb DEF TypeInv
  <1>2. ASSUME \A t \in Tasks : task'[t] \in {"hbstop", "audit"} => task'[t] = task[t] /\ owner'[t] = owner[t],
               \A r \in Posts : <<"runner_warm_idle_evicted", r>> \in audit'
                                  => <<"runner_warm_idle_evicted", r>> \in audit
        PROVE  WatchersStopped'
    <2>1. ASSUME NEW t \in Tasks, task[t] \in {"hbstop", "audit"} PROVE owner[t] \in Posts
      BY <2>1, ConstantsAssumption DEF TypeInv, TypeOK, TasksOwned
    <2>2. QED
      BY <1>1, <1>2, <2>1 DEF WatchersStopped
  <1>3. ASSUME NEW p \in Posts, PostStep(p) PROVE WatchersStopped'
    <2>1. /\ audit' \in {audit, audit \cup {<<"runner_spawned", p>>}}
          /\ UNCHANGED owner
      BY <1>3 DEF PostStep, Begin, KillSettled, Refetch, Return, DaemonAnswers, FirstCheckResumes,
         GetLock, LockGranted, StartSpawn, DoubleCheck, SecondCheckResumes, SpawnReturns,
         SpawnFails, SpawnAudited, warmVars
    <2>2. task' = task \/ \E e : OnUserMessage(e)
      BY <1>3 DEF PostStep, Begin, KillSettled, Refetch, Return, DaemonAnswers, FirstCheckResumes,
         GetLock, LockGranted, StartSpawn, DoubleCheck, SecondCheckResumes, SpawnReturns,
         SpawnFails, SpawnAudited, warmVars
    <2>3. \A t \in Tasks : task'[t] \in {"hbstop", "audit"} => task'[t] = task[t]
      BY <2>2 DEF OnUserMessage, Cancelled, TypeInv, TypeOK
    <2>4. QED
      BY <1>2, <2>1, <2>3
  <1>4. ASSUME NEW p \in Posts, RunEnds(p) PROVE WatchersStopped'
    <2>1. audit' = audit
      BY <1>4 DEF RunEnds, RunFinished, RunErrored
    <2>2. CASE UNCHANGED <<task, owner>>
      BY <1>2, <2>1, <2>2
    <2>3. ASSUME NEW r, NEW t \in Tasks, FreshTask(t), OnRunFinished(r, p, t)
          PROVE  WatchersStopped'
      <3>1. /\ owner' = [owner EXCEPT ![t] = r]
            /\ task' = [u \in Tasks |-> IF u = t THEN "countdown"
                                       ELSE IF u = current[r] THEN Cancelled(task[u])
                                       ELSE task[u]]
        BY <2>3 DEF OnRunFinished
      <3>2. \A u \in Tasks : task'[u] \in {"hbstop", "audit"} => task'[u] = task[u] /\ owner'[u] = owner[u]
        BY <1>1, <3>1 DEF Cancelled, TypeOK
      <3>3. QED
        BY <1>2, <2>1, <3>2
    <2>4. QED
      BY <1>4, <2>2, <2>3 DEF RunEnds, RunFinished, RunErrored
  <1>5. ASSUME NEW t \in Tasks, KillTask(t) PROVE WatchersStopped'
    <2>1. owner[t] \in Posts /\ owner' = owner
      BY <1>5, ConstantsAssumption
      DEF TypeInv, TypeOK, TasksOwned, KillTask, IdleTimeout, KillStep, HeartbeatStopped, EvictAudited
    <2>2. \E x : task' = [task EXCEPT ![t] = x]
      BY <1>5 DEF KillTask, IdleTimeout, KillStep, HeartbeatStopped, EvictAudited, StopHeartbeat
    <2>3. task'[t] \in {"hbstop", "audit"} => hb'[owner[t]] = "done"
      BY <1>1, <1>5, <2>1
      DEF TypeInv, TypeOK, WatchersStopped, KillTask, IdleTimeout, KillStep, HeartbeatStopped,
          EvictAudited, StopHeartbeat
    <2>4. audit' = audit \/ (audit' = audit \cup {<<"runner_warm_idle_evicted", owner[t]>>}
                            /\ hb[owner[t]] = "done")
      BY <1>5, <2>1 DEF WatchersStopped, KillTask, IdleTimeout, KillStep, HeartbeatStopped, EvictAudited
    <2>5. ASSUME NEW u \in Tasks, task'[u] \in {"hbstop", "audit"} PROVE hb'[owner'[u]] = "done"
      BY <1>1, <2>1, <2>2, <2>3, <2>5, ConstantsAssumption DEF WatchersStopped, TypeInv, TypeOK, TasksOwned
    <2>6. ASSUME NEW r \in Posts, <<"runner_warm_idle_evicted", r>> \in audit' PROVE hb'[r] = "done"
      BY <1>1, <2>1, <2>4, <2>6 DEF WatchersStopped
    <2>7. QED
      BY <2>5, <2>6 DEF WatchersStopped
  <1>6. ASSUME NEW r \in Posts, HeartbeatTask(r) \/ RunnerEvent(r) PROVE WatchersStopped'
    <2>1. UNCHANGED <<task, owner>>
      BY <1>6 DEF HeartbeatTask, HeartbeatTimeout, HeartbeatStep, LostAudited, CrashedAudited, RunnerEvent,
         ContainerExits, CacheExpires, BeforeToolCall, ToolCallDecided, AfterToolCall, warmVars
    <2>2. \A q \in Posts : <<"runner_warm_idle_evicted", q>> \in audit'
                           => <<"runner_warm_idle_evicted", q>> \in audit
      BY <1>6 DEF HeartbeatTask, HeartbeatTimeout, HeartbeatStep, LostAudited, CrashedAudited, RunnerEvent,
         ContainerExits, CacheExpires, BeforeToolCall, ToolCallDecided, AfterToolCall
    <2>3. QED
      BY <1>2, <2>1, <2>2
  <1>7. QED
    BY <1>3, <1>4, <1>5, <1>6 DEF Next

LEMMA Safe == Spec => []SafeInv
  <1>1. SafeInv /\ [Next]_vars => SafeInv'
    <2>1. ASSUME SafeInv, Next PROVE SafeInv'
      BY <2>1, NextType, NextProbes, NextTasksOwned, NextRegistrySound, NextWatchersStopped
      DEF SafeInv, TypeInv
    <2>2. ASSUME SafeInv, UNCHANGED vars PROVE SafeInv'
      BY <2>2 DEF SafeInv, TypeInv, TypeOK, ProbesAnEntry, TasksOwned, RegistrySound, WatchersStopped,
         vars, registryVars, postVars, dockerVars, warmVars, toolVars
    <2>3. QED
      BY <2>1, <2>2
  <1>2. QED
    BY InitSafe, <1>1, PTL DEF Spec

\* Whatever callers and callbacks race, the webhooks of an installed runner find
\* the entry whose secret signs them (_by_runner_id, get_by_runner_id).
THEOREM IndexAlwaysAgrees == Spec => []IndexAgrees
  <1>1. SafeInv => IndexAgrees
    BY DEF SafeInv, RegistrySound, IndexAgrees
  <1>2. QED
    BY Safe, <1>1, PTL

\* Once the eviction of a runner is past heartbeat.stop(), its watcher never
\* fires again (_on_evict stops the watcher before it removes the entry).
THEOREM NoWatcherAfterEviction == Spec => []EvictedWatcherStopped
  <1>1. SafeInv => EvictedWatcherStopped
    BY ConstantsAssumption
    DEF SafeInv, TypeInv, TypeOK, TasksOwned, WatchersStopped, EvictedWatcherStopped
  <1>2. QED
    BY Safe, <1>1, PTL

\* A clean eviction is never reported as a lost heartbeat afterwards.
THEOREM EvictionIsFinal == Spec => NoLossAfterEviction
  <1>1. ASSUME SafeInv, [Next]_vars, NEW r \in Posts,
               <<"runner_heartbeat_lost", r>> \notin audit,
               <<"runner_heartbeat_lost", r>> \in audit'
        PROVE  <<"runner_warm_idle_evicted", r>> \notin audit
    <2>1. audit' # audit /\ Next
      BY <1>1 DEF vars
    <2>2. ASSUME NEW p \in Posts, PostStep(p) PROVE audit' \in {audit, audit \cup {<<"runner_spawned", p>>}}
      BY <2>2 DEF PostStep, Begin, KillSettled, Refetch, Return, DaemonAnswers, FirstCheckResumes,
         GetLock, LockGranted, StartSpawn, DoubleCheck, SecondCheckResumes, SpawnReturns,
         SpawnFails, SpawnAudited
    <2>3. ASSUME NEW t, KillTask(t) \/ RunEnds(t) \/ RunnerEvent(t)
          PROVE  audit' \in {audit, audit \cup {<<"runner_warm_idle_evicted", owner[t]>>}}
      BY <2>3 DEF KillTask, IdleTimeout, KillStep, HeartbeatStopped, EvictAudited, RunEnds, RunFinished,
         RunErrored, RunnerEvent, ContainerExits, CacheExpires, BeforeToolCall, ToolCallDecided,
         AfterToolCall
    <2>4. ASSUME NEW q \in Posts, HeartbeatTask(q) PROVE q = r /\ hb[r] = "lost"
      BY <1>1, <2>4 DEF HeartbeatTask, HeartbeatTimeout, HeartbeatStep, LostAudited, CrashedAudited
    <2>5. \A p \in Posts : ~PostStep(p)
      BY <1>1, <2>2
    <2>6. /\ \A t \in Posts : ~(RunEnds(t) \/ RunnerEvent(t))
          /\ \A t \in Tasks : ~KillTask(t)
      BY <1>1, <2>3
    <2>7. \E q \in Posts : HeartbeatTask(q)
      BY <2>1, <2>5, <2>6 DEF Next
    <2>8. hb[r] = "lost"
      BY <2>4, <2>7
    <2>9. QED
      BY <1>1, <2>8 DEF SafeInv, WatchersStopped
  <1>2. SafeInv /\ [Next]_vars =>
          [\A r \in Posts :
             /\ <<"runner_heartbeat_lost", r>> \notin audit
             /\ <<"runner_heartbeat_lost", r>> \in audit'
             => <<"runner_warm_idle_evicted", r>> \notin audit]_vars
    BY <1>1
  <1>3. QED
    BY Safe, <1>2, PTL DEF Spec, NoLossAfterEviction

\* A background task removes only the entry of its own runner.  The maps change
\* without a step of a POST only in the three places that pass expected_runner_id.
THEOREM CallbacksAreSelective == Spec => CallbacksSpareFreshEntries
  <1>1. ASSUME SafeInv, Next, pc' = pc, NEW s \in Sessions, entries'[s] # entries[s]
        PROVE  \/ hb'[entries[s]] # hb[entries[s]]
               \/ \E t \in Tasks : owner[t] = entries[s] /\ task'[t] # task[t]
    <2>0. TypeOK /\ TasksOwned
      BY <1>1 DEF SafeInv, TypeInv
    <2> USE DEF TypeOK
    <2>1. ASSUME NEW q \in Sessions, NEW x \in Posts, RemoveEntry(q, x) PROVE entries[s] = x
      BY <1>1, <2>0, <2>1, ConstantsAssumption DEF RemoveEntry, Stale, registryVars
    <2>2. ASSUME NEW p \in Posts, PostStep(p) PROVE FALSE
      <3>1. entries' # entries
        BY <1>1
      <3>2. Refetch(p) \/ FirstCheckResumes(p) \/ SpawnReturns(p)
        BY <2>2, <3>1 DEF PostStep, Begin, KillSettled, DaemonAnswers, GetLock, LockGranted, DoubleCheck,
           SecondCheckResumes, SpawnFails, SpawnAudited, registryVars
      <3>3. \E x \in {"getlock", "returned", "probe1", "auditing"} : pc' = [pc EXCEPT ![p] = x]
        <4>1. CASE Refetch(p)
          BY <4>1 DEF Refetch, Return
        <4>2. CASE FirstCheckResumes(p)
          BY <4>2 DEF FirstCheckResumes, Return
        <4>3. CASE SpawnReturns(p)
          BY <4>3 DEF SpawnReturns
        <4>4. QED
          BY <3>2, <4>1, <4>2, <4>3
      <3>4. pc[p] \in {"refetch", "answered1", "spawning"}
        BY <3>2 DEF Refetch, FirstCheckResumes, SpawnReturns
      <3>5. QED
        BY <1>1, <2>0, <3>3, <3>4
    <2>3. ASSUME NEW t \in Tasks, KillTask(t) PROVE owner[t] = entries[s] /\ task'[t] # task[t]
      <3>1. owner[t] \in Posts /\ SessionOf[owner[t]] \in Sessions
        BY <2>0, <2>3, ConstantsAssumption
        DEF TasksOwned, KillTask, IdleTimeout, KillStep, HeartbeatStopped, EvictAudited
      <3>2. \E x : x # task[t] /\ task' = [task EXCEPT ![t] = x]
        BY <2>0, <2>3 DEF KillTask, IdleTimeout, KillStep, HeartbeatStopped, EvictAudited, StopHeartbeat
      <3>3. entries' # entries
        BY <1>1
      <3>4. RemoveEntry(SessionOf[owner[t]], owner[t])
        BY <2>3, <3>3 DEF KillTask, IdleTimeout, KillStep, HeartbeatStopped, EvictAudited, StopHeartbeat,
           registryVars
      <3>5. QED
        BY <2>0, <2>1, <3>1, <3>2, <3>4
    <2>4. ASSUME NEW r \in Posts, HeartbeatTask(r) PROVE hb'[entries[s]] # hb[entries[s]]
      <3>1. entries' # entries /\ SessionOf[r] \in Sessions
        BY <1>1, ConstantsAssumption
      <3>2. CrashCallback(r) /\ hb[r] \in {"waiting", "delete"}
        BY <2>4, <3>1 DEF HeartbeatTask, HeartbeatTimeout, HeartbeatStep, LostAudited, CrashedAudited,
           registryVars
      <3>3. RemoveEntry(SessionOf[r], r) /\ hb'[r] # hb[r]
        BY <2>0, <3>2 DEF CrashCallback
      <3>4. QED
        BY <2>1, <3>1, <3>3
    <2>5. ASSUME NEW r \in Posts, RunEnds(r) \/ RunnerEvent(r) PROVE entries' = entries
      BY <2>5 DEF RunEnds, RunFinished, RunErrored, RunnerEvent, ContainerExits, CacheExpires,
         BeforeToolCall, ToolCallDecided, AfterToolCall, registryVars
    <2>6. QED
      BY <1>1, <2>2, <2>3, <2>4, <2>5 DEF Next
  <1>2. SafeInv /\ [Next]_vars =>
          [pc' = pc => \A s \in Sessions : entries'[s] # entries[s] =>
             \/ hb'[entries[s]] # hb[entries[s]]
             \/ \E t \in Tasks : owner[t] = entries[s] /\ task'[t] # task[t]]_vars
    BY <1>1
  <1>3. QED
    BY Safe, <1>2, PTL DEF Spec, CallbacksSpareFreshEntries

-----------------------------------------------------------------------------
(* The tool calls of a runner whose heartbeats stopped.                     *)

\* A recorded call is open.  It is recorded on its own runner's entry, or its runner was
\* no longer the session's by then, and no such runner completes a call any more.
ToolInv ==
    /\ \A e, t \in Posts : t \in inFlight[e] =>
            tool[t] = "open" /\ (e = t \/ entries[SessionOf[t]] # t)
    /\ \A t \in Posts : tool[t] # "none" => hb[t] # "none"
    /\ \A r \in Posts : hb[r] \in {"lost", "crashed"} => entries[SessionOf[r]] # r
    /\ \A t \in Posts : <<"tool_call.crashed", t>> \in audit =>
            tool[t] = "open" /\ entries[SessionOf[t]] # t

LEMMA InitTool == Init => ToolInv
  BY ConstantsAssumption DEF Init, ToolInv

\* A runner that was installed and is no longer its session's never is again.
LEMMA GoneForGood ==
    ASSUME SafeInv, Next, NEW t \in Posts, hb[t] # "none", entries[SessionOf[t]] # t
    PROVE  entries'[SessionOf[t]] # t
  <1>1. TypeOK /\ SessionOf[t] \in Sessions /\ t # None
    BY ConstantsAssumption DEF SafeInv, TypeInv
  <1>2. ASSUME NEW s \in Sessions, NEW x \in Posts \cup {None}, RemoveEntry(s, x)
        PROVE  entries'[SessionOf[t]] # t
    BY <1>1, <1>2, RemoveEntryEffect
  <1>3. ASSUME NEW p \in Posts, SpawnReturns(p) PROVE entries'[SessionOf[t]] # t
    <2>1. p # t
      BY <1>3 DEF SafeInv, RegistrySound, SpawnReturns
    <2>2. QED
      BY <1>1, <1>3, <2>1 DEF TypeOK, SpawnReturns
  <1>4. QED
    BY <1>2, <1>3, NextMaps DEF SafeInv

\* A runner is reported lost only by the callback that takes it out of the registry.
LEMMA LostIsGone ==
    ASSUME SafeInv, ToolInv, Next, NEW r \in Posts, hb'[r] \in {"lost", "crashed"}
    PROVE  entries'[SessionOf[r]] # r
  <1>1. TypeOK /\ SessionOf[r] \in Sessions /\ r # None
    BY ConstantsAssumption DEF SafeInv, TypeInv
  <1>2. CASE hb[r] \in {"lost", "crashed"}
    BY <1>1, <1>2, GoneForGood DEF ToolInv
  <1>3. CASE hb[r] \notin {"lost", "crashed"}
    <2>1. ASSUME NEW p \in Posts \cup Tasks, PostStep(p) \/ RunEnds(p) \/ KillTask(p) \/ RunnerEvent(p)
          PROVE  hb'[r] = hb[r] \/ hb'[r] \in {"waiting", "done"}
      <3>1. ASSUME PostStep(p) \/ RunEnds(p) \/ RunnerEvent(p)
            PROVE  hb' = hb \/ hb' = [hb EXCEPT ![p] = "waiting"]
        BY <3>1 DEF PostStep, Begin, KillSettled, Refetch, DaemonAnswers, FirstCheckResumes, GetLock,
           LockGranted, DoubleCheck, SecondCheckResumes, SpawnReturns, SpawnFails, SpawnAudited,
           RunEnds, RunFinished, RunErrored, RunnerEvent, ContainerExits, CacheExpires,
           BeforeToolCall, ToolCallDecided, AfterToolCall
      <3>2. ASSUME KillTask(p) PROVE hb' = hb \/ hb' = [hb EXCEPT ![owner[p]] = "done"]
        BY <3>2 DEF KillTask, IdleTimeout, KillStep, HeartbeatStopped, EvictAudited, StopHeartbeat
      <3>3. QED
        BY <1>1, <2>1, <3>1, <3>2 DEF TypeOK
    <2>2. PICK q \in Posts : HeartbeatTask(q)
      BY <1>3, <2>1 DEF Next
    <2>3. q = r /\ CrashCallback(r)
      BY <1>1, <1>3, <2>2 DEF TypeOK, HeartbeatTask, HeartbeatTimeout, HeartbeatStep, LostAudited,
         CrashedAudited, CrashCallback
    <2>4. entries[SessionOf[r]] = r
      BY <1>1, <1>3, <2>3 DEF TypeOK, CrashCallback
    <2>5. QED
      BY <1>1, <2>3, <2>4 DEF TypeOK, CrashCallback, RemoveEntry, Stale
  <1>4. QED
    BY <1>2, <1>3

LEMMA NextTool ==
    ASSUME SafeInv, ToolInv, Next PROVE ToolInv'
  <1> USE DEF SafeInv, TypeInv
  <1>1. TypeOK /\ ToolInv
    OBVIOUS
  <1>2. \A t \in Posts : hb[t] # "none" => hb'[t] # "none"
    BY NextHb
  <1>3. \A r \in Posts : hb'[r] \in {"lost", "crashed"} => entries'[SessionOf[r]] # r
    BY LostIsGone
  <1>4. \A t \in Posts : tool[t] # "none" /\ entries[SessionOf[t]] # t => entries'[SessionOf[t]] # t
    BY GoneForGood DEF ToolInv
  <1>5. ASSUME UNCHANGED <<tool, inFlight>>,
               \A t \in Posts : <<"tool_call.crashed", t>> \in audit'
                   => tool[t] = "open" /\ entries[SessionOf[t]] # t
        PROVE  ToolInv'
    <2>1. ASSUME NEW e \in Posts, NEW t \in Posts, t \in inFlight'[e]
          PROVE  tool'[t] = "open" /\ (e = t \/ entries'[SessionOf[t]] # t)
      BY <1>4, <1>5, <2>1 DEF ToolInv, toolVars
    <2>2. QED
      BY <1>2, <1>3, <1>4, <1>5, <2>1 DEF ToolInv, toolVars
  <1>6. ASSUME NEW p \in Posts \cup Tasks, PostStep(p) \/ RunEnds(p) \/ KillTask(p) PROVE ToolInv'
    <2>1. /\ UNCHANGED <<tool, inFlight>>
          /\ \A t : <<"tool_call.crashed", t>> \in audit' => <<"tool_call.crashed", t>> \in audit
      BY <1>6 DEF PostStep, Begin, KillSettled, Refetch, DaemonAnswers, FirstCheckResumes,
         GetLock, LockGranted, DoubleCheck, SecondCheckResumes, SpawnReturns, SpawnFails, SpawnAudited,
         RunEnds, RunFinished, RunErrored, KillTask, IdleTimeout, KillStep, HeartbeatStopped,
         EvictAudited, toolVars
    <2>2. QED
      BY <1>5, <2>1 DEF ToolInv
  <1>7. ASSUME NEW r \in Posts, HeartbeatTask(r) PROVE ToolInv'
    <2>1. UNCHANGED <<tool, inFlight>>
      BY <1>7 DEF HeartbeatTask, HeartbeatTimeout, HeartbeatStep, LostAudited, CrashedAudited, toolVars
    <2>2. ASSUME NEW t \in Posts, <<"tool_call.crashed", t>> \in audit',
                 <<"tool_call.crashed", t>> \notin audit
          PROVE  hb[r] = "crashed" /\ t \in inFlight[r]
      BY <1>7, <2>2 DEF HeartbeatTask, HeartbeatTimeout, HeartbeatStep, LostAudited, CrashedAudited
    <2>3. \A t \in Posts : <<"tool_call.crashed", t>> \in audit'
              => tool[t] = "open" /\ entries[SessionOf[t]] # t
      BY <2>2 DEF ToolInv
    <2>4. QED
      BY <1>5, <2>1, <2>3
  <1>8. ASSUME NEW r \in Posts, RunnerEvent(r) PROVE ToolInv'
    <2>1. UNCHANGED <<entries, byRunner, hb, audit>>
      BY <1>8 DEF RunnerEvent, ContainerExits, CacheExpires, BeforeToolCall, ToolCallDecided, AfterToolCall,
         registryVars
    <2>2. CASE ContainerExits(r) \/ CacheExpires(r)
      BY <1>5, <2>1, <2>2 DEF ToolInv, ContainerExits, CacheExpires, toolVars
    <2>3. Authentic(r) => entries[SessionOf[r]] = r /\ hb[r] # "none"
      BY <1>1, ConstantsAssumption DEF Authentic, RegistrySound, TypeOK
    <2>4. CASE BeforeToolCall(r)
      <3>1. tool[r] = "none" /\ tool' = [tool EXCEPT ![r] = "deciding"] /\ inFlight' = inFlight /\ hb[r] # "none"
        BY <2>3, <2>4 DEF BeforeToolCall
      <3>2. QED
        BY <1>1, <2>1, <3>1 DEF ToolInv, TypeOK
    <2>5. CASE ToolCallDecided(r)
      <3> DEFINE e == entries[SessionOf[r]]
      <3>1. e \in Posts \cup {None} /\ tool[r] = "deciding"
        BY <1>1, <2>5, ConstantsAssumption DEF TypeOK, ToolCallDecided
      <3>2. \E x \in {"open", "closed"} : tool' = [tool EXCEPT ![r] = x]
        BY <2>5 DEF ToolCallDecided
      <3>3. \A f \in Posts : r \notin inFlight[f]
        BY <3>1 DEF ToolInv
      <3>4. ASSUME NEW f \in Posts, NEW t \in Posts, t \in inFlight'[f]
            PROVE  t \in inFlight[f] \/ (t = r /\ f = e /\ tool'[r] = "open")
        BY <1>1, <2>5, <3>1, <3>3, <3>4 DEF TypeOK, ToolCallDecided
      <3>5. QED
        BY <1>1, <2>1, <3>1, <3>2, <3>3, <3>4 DEF ToolInv, TypeOK
    <2>6. CASE AfterToolCall(r)
      <3>1. /\ entries[SessionOf[r]] = r
            /\ tool' = [tool EXCEPT ![r] = IF @ = "open" THEN "closed" ELSE @]
            /\ inFlight' = [inFlight EXCEPT ![r] = @ \ {r}]
        BY <2>3, <2>6 DEF AfterToolCall
      <3>2. ASSUME NEW f \in Posts, NEW t \in Posts, t \in inFlight'[f]
            PROVE  t # r /\ t \in inFlight[f]
        BY <1>1, <3>1, <3>2 DEF ToolInv, TypeOK
      <3>3. <<"tool_call.crashed", r>> \notin audit /\ hb[r] # "none"
        BY <2>3, <2>6, <3>1 DEF ToolInv, AfterToolCall
      <3>4. \A t \in Posts : t # r => tool'[t] = tool[t]
        BY <1>1, <3>1 DEF TypeOK
      <3>5. QED
        BY <1>1, <2>1, <3>2, <3>3, <3>4 DEF ToolInv
    <2>7. QED
      BY <1>8, <2>2, <2>4, <2>5, <2>6 DEF RunnerEvent
  <1>9. QED
    BY <1>6, <1>7, <1>8 DEF Next

\* The tool_call.crashed rows of a lost runner name only calls of which an allow is the
\* last the backend handled, though the decision may have been recorded on the entry that
\* replaced the runner, and may have come after the call's AfterToolCall (_on_crash).
THEOREM CrashedCallsWereAllowed == Spec => []CrashedWereAllowed
  <1>1. SafeInv /\ ToolInv /\ [Next]_vars => ToolInv'
    <2>1. ASSUME ToolInv, UNCHANGED vars PROVE ToolInv'
      BY <2>1 DEF ToolInv, vars, registryVars, toolVars
    <2>2. QED
      BY <2>1, NextTool
  <1>2. ToolInv => CrashedWereAllowed
    BY DEF ToolInv, CrashedWereAllowed
  <1>3. QED
    BY Safe, InitTool, <1>1, <1>2, PTL DEF Spec

-----------------------------------------------------------------------------
(* A runner whose kill has begun.                                           *)

\* Marked dead by the warm-idle kill: the watcher, had it done so, would not wait.
Zombie(r) == dead[r] /\ hb[r] = "waiting"

ZombieInv ==
    /\ \A p \in Posts : pc[p] \in Probing => ~Zombie(ent[p])
    /\ \A r \in Posts : cache[r] = "alive" \/ pc[r] = "auditing" => ~Zombie(r)
    /\ \A r \in Posts : hb[r] = "none" => ~dead[r]

LEMMA InitZombie == Init => ZombieInv
  BY DEF Init, ZombieInv, Zombie, Probing

\* Only a countdown that ends marks a runner dead and leaves its watcher waiting.
LEMMA NextZombie ==
    ASSUME SafeInv, ZombieInv, Next, NEW r \in Posts, dead'[r], hb'[r] = "waiting", ~Zombie(r)
    PROVE  \E t \in Tasks : IdleTimeout(t) /\ owner[t] = r
  <1>1. TypeOK
    BY DEF SafeInv, TypeInv
  <1>2. dead[r] => hb[r] \notin {"none", "waiting"}
    BY DEF ZombieInv, Zombie
  <1>3. hb'[r] # hb[r] => hb[r] = "none" /\ ~dead[r] /\ SpawnReturns(r)
    <2>1. ASSUME hb'[r] # hb[r], hb[r] # "none" PROVE FALSE
      <3>1. ASSUME NEW p \in Posts, PostStep(p) \/ RunEnds(p) \/ RunnerEvent(p)
            PROVE  hb' = hb \/ (SpawnReturns(p) /\ hb[p] = "none" /\ hb' = [hb EXCEPT ![p] = "waiting"])
        BY <3>1 DEF PostStep, Begin, KillSettled, Refetch, DaemonAnswers, FirstCheckResumes, GetLock,
           LockGranted, DoubleCheck, SecondCheckResumes, SpawnReturns, SpawnFails, SpawnAudited,
           RunEnds, RunFinished, RunErrored, RunnerEvent, ContainerExits, CacheExpires,
           BeforeToolCall, ToolCallDecided, AfterToolCall, SafeInv, RegistrySound
      <3>2. ASSUME NEW p \in Tasks, KillTask(p) PROVE hb' = hb \/ hb' = [hb EXCEPT ![owner[p]] = "done"]
        BY <3>2 DEF KillTask, IdleTimeout, KillStep, HeartbeatStopped, EvictAudited, StopHeartbeat
      <3>3. ASSUME NEW p \in Posts, HeartbeatTask(p)
            PROVE  \E x \in HbPhases \ {"waiting"} : hb' = [hb EXCEPT ![p] = x]
        BY <3>3 DEF HeartbeatTask, HeartbeatTimeout, HeartbeatStep, LostAudited, CrashedAudited,
           CrashCallback, HbPhases, Terminating
      <3>4. QED
        BY <1>1, <2>1, <3>1, <3>2, <3>3 DEF Next, TypeOK
    <2>2. QED
      BY <2>1, NextHb DEF SafeInv, ZombieInv
  <1>4. dead'[r] # dead[r]
    BY <1>2, <1>3
  <1>5. ASSUME NEW p \in Posts, PostStep(p) \/ RunEnds(p) \/ RunnerEvent(p) PROVE dead' = dead
    BY <1>5 DEF PostStep, Begin, KillSettled, Refetch, DaemonAnswers, FirstCheckResumes, GetLock,
       LockGranted, StartSpawn, DoubleCheck, SecondCheckResumes, SpawnReturns, SpawnFails, SpawnAudited,
       RunEnds, RunFinished, RunErrored, RunnerEvent, ContainerExits, CacheExpires, BeforeToolCall,
       ToolCallDecided, AfterToolCall, dockerVars
  <1>6. ASSUME NEW p \in Posts, HeartbeatTask(p) PROVE FALSE
    <2>1. HeartbeatTimeout(p) /\ dead' = [dead EXCEPT ![p] = TRUE]
      BY <1>4, <1>6 DEF HeartbeatTask, HeartbeatTimeout, HeartbeatStep, LostAudited, CrashedAudited,
         dockerVars
    <2>2. p = r /\ hb[p] = "waiting"
      BY <1>1, <1>4, <2>1 DEF TypeOK, HeartbeatTimeout
    <2>3. hb'[r] # "waiting"
      BY <1>1, <2>1, <2>2 DEF TypeOK, HeartbeatTimeout, CrashCallback
    <2>4. QED
      BY <2>3
  <1>7. PICK t \in Tasks : KillTask(t)
    BY <1>4, <1>5, <1>6 DEF Next
  <1>8. IdleTimeout(t) /\ dead' = [dead EXCEPT ![owner[t]] = TRUE]
    BY <1>4, <1>7 DEF KillTask, IdleTimeout, KillStep, HeartbeatStopped, EvictAudited, dockerVars
  <1>9. owner[t] = r
    BY <1>1, <1>4, <1>8 DEF TypeOK
  <1>10. QED
    BY <1>8, <1>9

\* A coroutine takes up an entry to ask about only when nothing says that it is dead.
LEMMA ProbeStarts ==
    ASSUME SafeInv, NEW p \in Posts, PostStep(p) \/ RunEnds(p), pc'[p] \in Probing
    PROVE  \/ pc[p] \in Probing /\ ent'[p] = ent[p]
           \/ ent'[p] \in Posts /\ ~dead[ent'[p]] /\ UNCHANGED <<dead, hb, killing>>
  <1>1. TypeOK /\ entries[SessionOf[p]] \in Posts \cup {None}
    BY ConstantsAssumption DEF SafeInv, TypeInv, TypeOK
  <1>2. CASE Refetch(p) \/ DoubleCheck(p)
    <2>1. /\ entries[SessionOf[p]] # None
          /\ ~KnownAlive(entries[SessionOf[p]]) /\ ~KnownDead(entries[SessionOf[p]])
          /\ ent' = [ent EXCEPT ![p] = entries[SessionOf[p]]]
          /\ UNCHANGED <<dead, hb, killing>>
      BY <1>1, <1>2 DEF TypeOK, Refetch, DoubleCheck, Return, StartSpawn, Probing, dockerVars, warmVars
    <2>2. QED
      BY <1>1, <2>1 DEF TypeOK, KnownAlive, KnownDead
  <1>3. CASE DaemonAnswers(p)
    BY <1>3 DEF DaemonAnswers, Probing
  <1>4. QED
    BY <1>1, <1>2, <1>3
    DEF TypeOK, PostStep, RunEnds, Begin, KillSettled, Return, FirstCheckResumes, GetLock,
        LockGranted, StartSpawn, SecondCheckResumes, SpawnReturns, SpawnFails, SpawnAudited,
        RunFinished, RunErrored, Probing

\* A runner is cached as alive after an answer to a coroutine that asked about it.
LEMMA CacheFills ==
    ASSUME SafeInv, Next, NEW r \in Posts, cache'[r] = "alive", cache[r] # "alive"
    PROVE  \E p \in Posts : pc[p] \in Probing /\ ent[p] = r /\ UNCHANGED <<dead, hb, killing>>
  <1>1. TypeOK
    BY DEF SafeInv, TypeInv
  <1>2. ASSUME NEW q, RunEnds(q) \/ KillTask(q) \/ HeartbeatTask(q) \/ RunnerEvent(q)
        PROVE  cache' = cache \/ cache' = [cache EXCEPT ![q] = "empty"]
    BY <1>2 DEF RunEnds, RunFinished, RunErrored, KillTask, IdleTimeout, KillStep, HeartbeatStopped,
       EvictAudited, HeartbeatTask, HeartbeatTimeout, HeartbeatStep, LostAudited, CrashedAudited,
       RunnerEvent, ContainerExits, CacheExpires, BeforeToolCall, ToolCallDecided, AfterToolCall
  <1>3. PICK p \in Posts : PostStep(p)
    BY <1>1, <1>2 DEF Next, TypeOK
  <1>4. FirstCheckResumes(p) \/ SecondCheckResumes(p)
    <2>1. \A e \in Posts : ~CacheAnswer(e, FALSE)
      BY <1>1 DEF CacheAnswer, TypeOK
    <2>2. cache' # cache /\ entries[SessionOf[p]] \in Posts \cup {None}
      BY <1>1, ConstantsAssumption DEF TypeOK
    <2>3. QED
      BY <1>3, <2>1, <2>2 DEF PostStep, Begin, KillSettled, Refetch, DaemonAnswers, GetLock, LockGranted, DoubleCheck,
         SpawnReturns, SpawnFails, SpawnAudited
  <1>5. pc[p] \in Probing /\ ent[p] \in Posts /\ UNCHANGED <<dead, hb, killing>>
    BY <1>4 DEF SafeInv, TypeInv, ProbesAnEntry, FirstCheckResumes, SecondCheckResumes, StartSpawn, Return,
       Probing, dockerVars, warmVars
  <1>6. ent[p] = r
    BY <1>1, <1>4, <1>5 DEF TypeOK, FirstCheckResumes, SecondCheckResumes, CacheAnswer
  <1>7. QED
    BY <1>5, <1>6

LEMMA NextZombieInv ==
    ASSUME SafeInv, ZombieInv, Next PROVE ZombieInv'
  <1>1. TypeOK /\ TypeOK'
    BY NextType DEF SafeInv, TypeInv
  <1>2. ASSUME NEW r \in Posts, dead'[r], hb'[r] = "waiting", ~Zombie(r)
        PROVE  /\ cache'[r] # "alive" /\ pc'[r] # "auditing"
               /\ \A p \in Posts : pc'[p] \in Probing => ent'[p] # r
    <2>1. PICK t \in Tasks : IdleTimeout(t) /\ owner[t] = r
      BY <1>2, NextZombie
    <2>2. WindowElapsed(r) /\ UNCHANGED <<cache, pc, ent>>
      BY <2>1 DEF IdleTimeout, postVars
    <2>3. QED
      BY <2>2 DEF WindowElapsed
  <1>3. ASSUME NEW p \in Posts, pc'[p] \in Probing PROVE ~(dead'[ent'[p]] /\ hb'[ent'[p]] = "waiting")
    <2>1. ent'[p] \in Posts
      BY <1>3, NextProbes DEF SafeInv, ProbesAnEntry
    <2>2. CASE pc[p] \in Probing /\ ent'[p] = ent[p]
      BY <1>2, <1>3, <2>1, <2>2 DEF ZombieInv
    <2>3. CASE ~dead[ent'[p]] /\ UNCHANGED <<dead, hb>>
      BY <2>3
    <2>4. QED
      BY <1>3, <2>2, <2>3, ProbeStarts, PostStepLocal, OthersLeavePosts DEF Next, postVars, SafeInv, TypeInv
  <1>4. ASSUME NEW r \in Posts, cache'[r] = "alive" PROVE ~(dead'[r] /\ hb'[r] = "waiting")
    BY <1>2, <1>4, CacheFills DEF ZombieInv, Zombie
  <1>5. ASSUME NEW r \in Posts, pc'[r] = "auditing" PROVE ~(dead'[r] /\ hb'[r] = "waiting")
    <2>1. CASE pc[r] = "auditing"
      BY <1>2, <1>5, <2>1 DEF ZombieInv
    <2>2. CASE pc[r] # "auditing"
      <3>1. PostStep(r) \/ RunEnds(r)
        BY <1>1, <1>5, <2>2, PostStepLocal, OthersLeavePosts DEF Next, postVars
      <3>2. SpawnReturns(r)
        BY <1>1, <1>5, <2>2, <3>1 DEF TypeOK, PostStep, RunEnds, Begin, KillSettled, Refetch, Return,
           DaemonAnswers, FirstCheckResumes, GetLock, LockGranted, StartSpawn, DoubleCheck,
           SecondCheckResumes, SpawnFails, SpawnAudited, RunFinished, RunErrored
      <3>3. ~dead[r] /\ dead' = dead
        BY <3>2 DEF ZombieInv, SafeInv, RegistrySound, SpawnReturns
      <3>4. QED
        BY <3>3
    <2>3. QED
      BY <2>1, <2>2
  <1>6. ASSUME NEW r \in Posts, hb'[r] = "none" PROVE ~dead'[r]
    <2>1. hb[r] = "none" /\ ~dead[r]
      BY <1>6, NextHb DEF SafeInv, ZombieInv
    <2>2. ASSUME NEW p \in Posts, PostStep(p) \/ RunEnds(p) \/ RunnerEvent(p) PROVE dead' = dead
      BY <2>2 DEF PostStep, Begin, KillSettled, Refetch, DaemonAnswers, FirstCheckResumes, GetLock,
         LockGranted, StartSpawn, DoubleCheck, SecondCheckResumes, SpawnReturns, SpawnFails, SpawnAudited,
         RunEnds, RunFinished, RunErrored, RunnerEvent, ContainerExits, CacheExpires, BeforeToolCall,
         ToolCallDecided, AfterToolCall, dockerVars
    <2>3. ASSUME NEW t \in Tasks, KillTask(t) PROVE dead'[r] = dead[r]
      <3>1. owner[t] # None => hb[owner[t]] # "none"
        BY DEF SafeInv, RegistrySound
      <3>2. owner[t] # None
        BY <2>3 DEF SafeInv, TypeInv, TasksOwned, KillTask, IdleTimeout, KillStep, HeartbeatStopped,
           EvictAudited
      <3>3. dead' = dead \/ dead' = [dead EXCEPT ![owner[t]] = TRUE]
        BY <2>3 DEF KillTask, IdleTimeout, KillStep, HeartbeatStopped, EvictAudited, dockerVars
      <3>4. QED
        BY <1>1, <2>1, <3>1, <3>2, <3>3 DEF TypeOK
    <2>4. ASSUME NEW q \in Posts, HeartbeatTask(q) PROVE dead'[r] = dead[r]
      <3>1. dead' = dead \/ (hb[q] = "waiting" /\ dead' = [dead EXCEPT ![q] = TRUE])
        BY <2>4 DEF HeartbeatTask, HeartbeatTimeout, HeartbeatStep, LostAudited, CrashedAudited, dockerVars
      <3>2. QED
        BY <1>1, <2>1, <3>1 DEF TypeOK
    <2>5. QED
      BY <2>1, <2>2, <2>3, <2>4 DEF Next
  <1>7. QED
    BY <1>3, <1>4, <1>5, <1>6 DEF ZombieInv, Zombie

\* get_or_spawn never hands out a runner whose warm-idle kill has begun, whatever kills,
\* beats and callers race (test_ac15_kill_mid_flight_respawns_fresh).
THEOREM NoRunnerIsReusedDying == Spec => NoZombieReuse
  <1>1. ASSUME SafeInv, ZombieInv, Next, NEW p \in Posts, pc'[p] = "returned", pc[p] # "returned"
        PROVE  ~(dead'[ent'[p]] /\ hb'[ent'[p]] = "waiting")
    <2>1. TypeOK /\ entries[SessionOf[p]] \in Posts \cup {None}
      BY <1>1, ConstantsAssumption DEF SafeInv, TypeInv, TypeOK
    <2>2. PostStep(p) \/ RunEnds(p)
      BY <1>1, <2>1, PostStepLocal, OthersLeavePosts DEF Next, postVars
    <2>3. /\ Refetch(p) \/ FirstCheckResumes(p) \/ DoubleCheck(p) \/ SecondCheckResumes(p) \/ SpawnAudited(p)
          /\ UNCHANGED <<dead, hb>>
      BY <1>1, <2>1, <2>2, ZenonT(30) DEF TypeOK, PostStep, RunEnds, Begin, KillSettled, Refetch, Return, DaemonAnswers,
         FirstCheckResumes, GetLock, LockGranted, StartSpawn, DoubleCheck, SecondCheckResumes, SpawnReturns,
         SpawnFails, SpawnAudited, RunFinished, RunErrored, dockerVars
    <2>4. ASSUME NEW r \in Posts, Return(p, r), ~Zombie(r)
          PROVE  ~(dead'[ent'[p]] /\ hb'[ent'[p]] = "waiting")
      BY <2>1, <2>3, <2>4 DEF TypeOK, Return, Zombie
    <2>5. CASE Refetch(p) \/ DoubleCheck(p)
      <3>1. KnownAlive(entries[SessionOf[p]]) /\ Return(p, entries[SessionOf[p]]) /\ entries[SessionOf[p]] # None
        BY <1>1, <2>1, <2>5 DEF TypeOK, Refetch, DoubleCheck, StartSpawn
      <3>2. ~Zombie(entries[SessionOf[p]])
        BY <1>1, <2>1, <3>1 DEF KnownAlive, ZombieInv
      <3>3. QED
        BY <2>1, <2>4, <3>1, <3>2
    <2>6. CASE FirstCheckResumes(p) \/ SecondCheckResumes(p)
      <3>1. Return(p, ent[p]) /\ pc[p] \in Probing
        BY <1>1, <2>1, <2>6 DEF TypeOK, FirstCheckResumes, SecondCheckResumes, StartSpawn, Probing
      <3>2. ent[p] \in Posts /\ ~Zombie(ent[p])
        BY <1>1, <3>1 DEF ZombieInv, SafeInv, TypeInv, ProbesAnEntry
      <3>3. QED
        BY <2>4, <3>1, <3>2
    <2>7. CASE SpawnAudited(p)
      <3>1. Return(p, p) /\ ~Zombie(p)
        BY <1>1, <2>7 DEF SpawnAudited, ZombieInv
      <3>2. QED
        BY <2>4, <3>1
    <2>8. QED
      BY <2>3, <2>5, <2>6, <2>7
  <1>2. SafeInv /\ ZombieInv /\ [Next]_vars => ZombieInv'
    <2>1. ASSUME ZombieInv, UNCHANGED vars PROVE ZombieInv'
      BY <2>1 DEF ZombieInv, Zombie, vars, postVars, dockerVars
    <2>2. QED
      BY <2>1, NextZombieInv
  <1>3. SafeInv /\ ZombieInv /\ [Next]_vars =>
          [\A p \in Posts : pc'[p] = "returned" /\ pc[p] # "returned" =>
              ~(dead[ent[p]] /\ hb[ent[p]] = "waiting")']_vars
    BY <1>1
  <1>4. QED
    BY Safe, InitZombie, <1>2, <1>3, PTL DEF Spec, NoZombieReuse

-----------------------------------------------------------------------------
(* Timers and kills.                                                        *)

Evicted(r) == <<"runner_warm_idle_evicted", r>> \in audit

\* A countdown or a terminate is its manager's current task, a terminate is
\* what _killing tells of, and what a kill has come to is dead.
TimersCurrent ==
    /\ \A t \in Tasks : task[t] \in Terminating \cup {"countdown"} => current[owner[t]] = t
    /\ \A t \in Tasks : task[t] \in Terminating => killing[owner[t]]
    /\ \A r \in Posts : killing[r] => dead[r]
    /\ \A t \in Tasks : task[t] \in Terminating \cup {"hbstop", "audit"} => dead[owner[t]]
    /\ \A r \in Posts : Evicted(r) => dead[r]

\* No coroutine is about to return a runner whose kill is under way.
KillsUnseen ==
    /\ \A p \in Posts : pc[p] \in Probing => ~killing[ent[p]]
    /\ \A r \in Posts : cache[r] = "alive" \/ pc[r] = "auditing" => ~killing[r]

\* No countdown runs on the runner of an undisturbed run.
UndisturbedRuns ==
    \A p \in Posts, t \in Tasks :
        pc[p] = "returned" /\ p \notin disturbed /\ owner[t] = ent[p] => task[t] # "countdown"

TimerInv == TimersCurrent /\ KillsUnseen /\ UndisturbedRuns

\* A runner is terminated once, by its watcher or by one warm-idle task; when
\* that is over, and was neither cancelled nor refused, the container is gone.
Terminator(r) == {t \in Tasks : owner[t] = r /\ task[t] \in Terminating}

TerminateInv ==
    /\ \A r \in Posts : hb[r] \in Terminating => dead[r] /\ Terminator(r) = {}
    /\ \A t \in Tasks : task[t] \in {"hbstop", "audit"} => Terminator(owner[t]) = {}
    /\ \A r \in Posts : Evicted(r) => Terminator(r) = {}
    /\ \A r \in Posts : dead[r] /\ r \notin cut =>
            \/ hb[r] \in Terminating
            \/ Terminator(r) # {}
            \/ container[r] = "deleted" /\ r \notin files

-----------------------------------------------------------------------------
(* One client at a time.                                                    *)

Waiting(p) == pc[p] \notin Settled
NotLive(r) == container[r] # "running" \/ dead[r]

\* A client waits for its run to end, and the daemon's answers about a container are right.
OneClient == ~Overlap /\ "show" \notin DockerFaults

\* A live container is that of its session's entry; an entry found dead is not live.
LiveInv ==
    /\ \A p, q \in Posts : SessionOf[p] = SessionOf[q] /\ Waiting(p) /\ Waiting(q) => p = q
    /\ \A p \in Posts : pc[p] \in Probing =>
            hb[ent[p]] # "none" /\ entries[SessionOf[p]] \in {ent[p], None}
    /\ \A p \in Posts : pc[p] \in {"answered1", "answered2"} /\ ~answer[p] => NotLive(ent[p])
    /\ \A r \in Posts : cache[r] = "dead" => NotLive(r) /\ hb[r] # "none"
    /\ \A p \in Posts : pc[p] = "spawning" =>
            entries[SessionOf[p]] = None \/ NotLive(entries[SessionOf[p]])
    /\ \A r \in Posts : ~NotLive(r) => entries[SessionOf[r]] = r

LEMMA InitTimer == Init => TimerInv /\ TerminateInv /\ LiveInv
  BY ConstantsAssumption
  DEF Init, TimerInv, TimersCurrent, KillsUnseen, UndisturbedRuns, TerminateInv, Terminator, Evicted,
      LiveInv, NotLive, Waiting, Settled, Probing, Terminating

\* A step of a POST starts no task: at most it cancels one, which leaves it as it is or ends it.
LEMMA PostStepTasks ==
    ASSUME SafeInv, NEW p \in Posts, PostStep(p)
    PROVE  /\ UNCHANGED <<current, killing, owner, disturbed, dead, cut>>
           /\ \A t \in Tasks : task'[t] \in {task[t], "done"}
           /\ \A t \in Tasks : task'[t] # task[t] => owner[t] \in Posts /\ ~killing[owner[t]]
           /\ \A r \in Posts : Evicted(r)' => Evicted(r)
  <1>1. TypeOK /\ TasksOwned /\ entries[SessionOf[p]] \in Posts \cup {None}
    BY ConstantsAssumption DEF SafeInv, TypeInv, TypeOK
  <1>2. /\ UNCHANGED <<current, killing, owner, disturbed, dead, cut>>
        /\ audit' \in {audit, audit \cup {<<"runner_spawned", p>>}}
    BY DEF PostStep, Begin, KillSettled, Refetch, Return, DaemonAnswers, FirstCheckResumes,
       GetLock, LockGranted, StartSpawn, DoubleCheck, SecondCheckResumes, SpawnReturns,
       SpawnFails, SpawnAudited, warmVars, dockerVars
  <1>3. task' = task \/ \E e \in Posts : OnUserMessage(e)
    <2>1. pc[p] \in Probing => ent[p] \in Posts
      BY DEF SafeInv, TypeInv, ProbesAnEntry
    <2>2. QED
      BY <1>1, <2>1
      DEF PostStep, Begin, KillSettled, Refetch, Return, DaemonAnswers, FirstCheckResumes,
          GetLock, LockGranted, StartSpawn, DoubleCheck, SecondCheckResumes, SpawnReturns,
          SpawnFails, SpawnAudited, Probing, warmVars
  <1>4. ASSUME NEW e \in Posts, OnUserMessage(e)
        PROVE  /\ \A t \in Tasks : task'[t] \in {task[t], "done"}
               /\ \A t \in Tasks : task'[t] # task[t] => owner[t] \in Posts /\ ~killing[owner[t]]
    <2>1. CASE killing[e] \/ current[e] = None
      BY <1>4, <2>1 DEF OnUserMessage
    <2>2. CASE ~(killing[e] \/ current[e] = None)
      <3>1. current[e] \in Tasks /\ owner[current[e]] = e
        BY <1>1, <2>2 DEF TypeOK, TasksOwned
      <3>2. task' = [task EXCEPT ![current[e]] = Cancelled(@)]
        BY <1>4, <2>2 DEF OnUserMessage
      <3>3. QED
        BY <1>1, <2>2, <3>1, <3>2 DEF TypeOK, Cancelled
    <2>3. QED
      BY <2>1, <2>2
  <1>5. (\A t \in Tasks : task'[t] \in {task[t], "done"})
        /\ (\A t \in Tasks : task'[t] # task[t] => owner[t] \in Posts /\ ~killing[owner[t]])
    BY <1>3, <1>4
  <1>6. \A r \in Posts : Evicted(r)' => Evicted(r)
    BY <1>2 DEF Evicted
  <1>7. QED
    BY <1>2, <1>5, <1>6

\* on_run_finished leaves the runner with one countdown and no terminate.
LEMMA FinishTasks ==
    ASSUME SafeInv, TimersCurrent, NEW r \in Posts, NEW p \in Posts, NEW t \in Tasks,
           FreshTask(t), OnRunFinished(r, p, t)
    PROVE  /\ owner[t] = None /\ task[t] = "none"
           /\ owner' = [owner EXCEPT ![t] = r] /\ task'[t] = "countdown"
           /\ current' = [current EXCEPT ![r] = t]
           /\ killing' = [killing EXCEPT ![r] = FALSE]
           /\ \A u \in Tasks \ {t} :
                /\ task'[u] \in {task[u], "done"}
                /\ task'[u] # task[u] => owner[u] = r
                /\ owner[u] = r => task'[u] \notin Terminating \cup {"countdown"}
  <1>1. TypeOK /\ TasksOwned
    BY DEF SafeInv, TypeInv
  <1>2. owner[t] = None /\ task[t] = "none"
    BY <1>1 DEF TasksOwned, FreshTask
  <1>3. /\ owner' = [owner EXCEPT ![t] = r]
        /\ current' = [current EXCEPT ![r] = t]
        /\ killing' = [killing EXCEPT ![r] = FALSE]
        /\ task' = [u \in Tasks |-> IF u = t THEN "countdown"
                                  ELSE IF u = current[r] THEN Cancelled(task[u])
                                  ELSE task[u]]
    BY DEF OnRunFinished
  <1>4. ASSUME NEW u \in Tasks \ {t}
        PROVE  /\ task'[u] \in {task[u], "done"}
               /\ task'[u] # task[u] => owner[u] = r
               /\ owner[u] = r => task'[u] \notin Terminating \cup {"countdown"}
    <2>1. CASE u = current[r]
      <3>1. owner[u] = r
        BY <1>1, <2>1, ConstantsAssumption DEF TasksOwned
      <3>2. task'[u] = Cancelled(task[u])
        BY <1>3, <2>1
      <3>3. QED
        BY <3>1, <3>2 DEF Cancelled, Terminating
    <2>2. CASE u # current[r]
      BY <1>3, <2>2 DEF TimersCurrent
    <2>3. QED
      BY <2>1, <2>2
  <1>5. QED
    BY <1>2, <1>3, <1>4

\* A warm-idle task works on its own runner; only the end of a countdown starts a kill.
LEMMA KillTaskEffect ==
    ASSUME SafeInv, NEW t \in Tasks, KillTask(t)
    PROVE  /\ owner[t] \in Posts
           /\ UNCHANGED <<postVars, current, owner, disturbed, cache>>
           /\ \A u \in Tasks \ {t} : task'[u] = task[u]
           /\ \/ /\ IdleTimeout(t) /\ task[t] = "countdown"
                 /\ dead' = [dead EXCEPT ![owner[t]] = TRUE]
                 /\ killing' = [killing EXCEPT ![owner[t]] = TRUE]
                 /\ IF dead[owner[t]] THEN task'[t] \in {"hbstop", "audit"} ELSE task'[t] = "stop"
              \/ /\ task[t] \in Terminating /\ UNCHANGED <<dead, killing>>
                 /\ task'[t] \in {"wait", "delete", "hbstop", "audit"}
              \/ /\ task[t] \in {"hbstop", "audit"} /\ UNCHANGED <<dead, killing>>
                 /\ task'[t] \in {"audit", "done"}
           /\ \A r \in Posts : Evicted(r)' => Evicted(r) \/ (r = owner[t] /\ task[t] = "audit")
  <1>1. TypeOK /\ TasksOwned
    BY DEF SafeInv, TypeInv
  <1>2. owner[t] \in Posts
    BY <1>1, ConstantsAssumption DEF TypeOK, TasksOwned, KillTask, IdleTimeout, KillStep,
       HeartbeatStopped, EvictAudited
  <1>3. /\ UNCHANGED <<postVars, current, owner, disturbed, cache>>
        /\ \E x : task' = [task EXCEPT ![t] = x]
    BY DEF KillTask, IdleTimeout, KillStep, HeartbeatStopped, EvictAudited, StopHeartbeat
  <1>4. \/ /\ IdleTimeout(t) /\ task[t] = "countdown"
           /\ dead' = [dead EXCEPT ![owner[t]] = TRUE]
           /\ killing' = [killing EXCEPT ![owner[t]] = TRUE]
           /\ IF dead[owner[t]] THEN task'[t] \in {"hbstop", "audit"} ELSE task'[t] = "stop"
        \/ /\ task[t] \in Terminating /\ UNCHANGED <<dead, killing>>
           /\ task'[t] \in {"wait", "delete", "hbstop", "audit"}
        \/ /\ task[t] \in {"hbstop", "audit"} /\ UNCHANGED <<dead, killing>>
           /\ task'[t] \in {"audit", "done"}
    <2>1. CASE IdleTimeout(t)
      BY <1>1, <2>1 DEF TypeOK, IdleTimeout, StopHeartbeat
    <2>2. CASE KillStep(t)
      BY <1>1, <2>2 DEF TypeOK, KillStep, StopHeartbeat, Terminating
    <2>3. CASE HeartbeatStopped(t) \/ EvictAudited(t)
      BY <1>1, <2>3 DEF TypeOK, HeartbeatStopped, EvictAudited, dockerVars
    <2>4. QED
      BY <2>1, <2>2, <2>3 DEF KillTask
  <1>5. \A r \in Posts : Evicted(r)' => Evicted(r) \/ (r = owner[t] /\ task[t] = "audit")
    BY DEF Evicted, KillTask, IdleTimeout, KillStep, HeartbeatStopped, EvictAudited
  <1>6. QED
    BY <1>1, <1>2, <1>3, <1>4, <1>5 DEF TypeOK

\* The watcher and the runner leave the warm-idle tasks alone, and nobody comes back to life.
LEMMA OthersLeaveTasks ==
    ASSUME SafeInv, NEW r \in Posts, HeartbeatTask(r) \/ RunnerEvent(r)
    PROVE  /\ UNCHANGED <<postVars, warmVars>>
           /\ \A q \in Posts : dead[q] => dead'[q]
           /\ \A q \in Posts : Evicted(q)' = Evicted(q)
           /\ \A q \in Posts : cache'[q] \in {cache[q], "empty"}
  <1>1. TypeOK
    BY DEF SafeInv, TypeInv
  <1>2. UNCHANGED <<postVars, warmVars>>
    BY DEF HeartbeatTask, HeartbeatTimeout, HeartbeatStep, LostAudited, CrashedAudited, RunnerEvent,
       ContainerExits, CacheExpires, BeforeToolCall, ToolCallDecided, AfterToolCall
  <1>3. dead' = dead \/ dead' = [dead EXCEPT ![r] = TRUE]
    BY DEF HeartbeatTask, HeartbeatTimeout, HeartbeatStep, LostAudited, CrashedAudited, RunnerEvent,
       ContainerExits, CacheExpires, BeforeToolCall, ToolCallDecided, AfterToolCall, dockerVars
  <1>4. \A q \in Posts : Evicted(q)' = Evicted(q)
    BY DEF HeartbeatTask, HeartbeatTimeout, HeartbeatStep, LostAudited, CrashedAudited, RunnerEvent,
       ContainerExits, CacheExpires, BeforeToolCall, ToolCallDecided, AfterToolCall, Evicted
  <1>5. cache' = cache \/ cache' = [cache EXCEPT ![r] = "empty"]
    BY DEF HeartbeatTask, HeartbeatTimeout, HeartbeatStep, LostAudited, CrashedAudited, RunnerEvent,
       ContainerExits, CacheExpires, BeforeToolCall, ToolCallDecided, AfterToolCall
  <1>6. QED
    BY <1>1, <1>2, <1>3, <1>4, <1>5 DEF TypeOK

LEMMA NextTimersCurrent ==
    ASSUME SafeInv, TimersCurrent, Next PROVE TimersCurrent'
  <1>1. TypeOK /\ TasksOwned /\ TypeOK'
    BY NextType DEF SafeInv, TypeInv
  <1>2. ASSUME NEW p \in Posts, PostStep(p) PROVE TimersCurrent'
    <2>1. \A t \in Tasks : task'[t] # "done" => task'[t] = task[t]
      BY <1>2, PostStepTasks
    <2>2. QED
      BY <1>2, <2>1, PostStepTasks DEF TimersCurrent, Terminating
  <1>3. ASSUME NEW p \in Posts, RunEnds(p) PROVE TimersCurrent'
    <2>1. UNCHANGED <<dead, audit>>
      BY <1>3 DEF RunEnds, RunFinished, RunErrored, dockerVars
    <2>2. CASE UNCHANGED <<current, killing, task, owner>>
      BY <2>1, <2>2 DEF TimersCurrent, Evicted
    <2>3. ASSUME NEW r \in Posts, NEW t \in Tasks, FreshTask(t), OnRunFinished(r, p, t)
          PROVE  TimersCurrent'
      <3>1. /\ task'[t] = "countdown" /\ owner'[t] = r
            /\ \A u \in Tasks \ {t} : owner'[u] = owner[u]
            /\ \A x \in Posts : current'[x] = (IF x = r THEN t ELSE current[x])
            /\ \A x \in Posts : killing'[x] = (IF x = r THEN FALSE ELSE killing[x])
        <4>1. /\ task'[t] = "countdown" /\ owner' = [owner EXCEPT ![t] = r]
              /\ current' = [current EXCEPT ![r] = t] /\ killing' = [killing EXCEPT ![r] = FALSE]
          BY <2>3, FinishTasks
        <4>2. QED
          BY <1>1, <4>1 DEF TypeOK
      <3>2. \A u \in Tasks : task[u] # "none" => owner[u] \in Posts
        BY <1>1, ConstantsAssumption DEF TypeOK, TasksOwned
      <3>3. \A u \in Tasks \ {t} : /\ task'[u] \in {task[u], "done"}
                                   /\ owner[u] = r => task'[u] \notin Terminating \cup {"countdown"}
        BY <2>3, FinishTasks
      <3>4. ASSUME NEW u \in Tasks
            PROVE  /\ task'[u] \in Terminating \cup {"countdown"} => current'[owner'[u]] = u
                   /\ task'[u] \in Terminating => killing'[owner'[u]]
                   /\ task'[u] \in Terminating \cup {"hbstop", "audit"} => dead'[owner'[u]]
        <4>1. CASE u = t
          BY <3>1, <4>1 DEF Terminating
        <4>2. CASE u # t
          <5>1. task'[u] \notin {"none", "done"} => task'[u] = task[u] /\ owner[u] \in Posts
            BY <3>2, <3>3, <4>2
          <5>2. owner'[u] = owner[u]
            BY <3>1, <4>2
          <5>3. task'[u] \in Terminating \cup {"countdown"} => owner[u] \in Posts \ {r}
            BY <3>3, <4>2, <5>1 DEF Terminating
          <5>4. task'[u] \in Terminating \cup {"countdown"}
                  => current'[owner[u]] = current[owner[u]] /\ killing'[owner[u]] = killing[owner[u]]
            BY <3>1, <5>3
          <5>5. task'[u] \in Terminating \cup {"countdown", "hbstop", "audit"} => task'[u] = task[u]
            BY <5>1 DEF Terminating
          <5>6. QED
            BY <2>1, <5>2, <5>4, <5>5 DEF TimersCurrent
        <4>3. QED
          BY <4>1, <4>2
      <3>5. QED
        BY <2>1, <3>1, <3>4 DEF TimersCurrent, Evicted
    <2>4. entries[SessionOf[p]] \in Posts \cup {None}
      BY <1>1, ConstantsAssumption DEF TypeOK
    <2>5. QED
      BY <1>3, <2>2, <2>3, <2>4 DEF RunEnds, RunFinished, RunErrored
  <1>4. ASSUME NEW t \in Tasks, KillTask(t) PROVE TimersCurrent'
    <2>1. /\ owner[t] \in Posts /\ UNCHANGED <<current, owner>>
          /\ \A u \in Tasks \ {t} : task'[u] = task[u]
      BY <1>4, KillTaskEffect
    <2>2. \A r \in Posts : (dead[r] => dead'[r]) /\ (killing[r] => killing'[r])
      <3>1. /\ dead' = dead \/ dead' = [dead EXCEPT ![owner[t]] = TRUE]
            /\ killing' = killing \/ killing' = [killing EXCEPT ![owner[t]] = TRUE]
        BY <1>4, KillTaskEffect
      <3>2. QED
        BY <1>1, <3>1 DEF TypeOK
    <2>3. /\ task'[t] \in Terminating \cup {"countdown"} => task[t] \in Terminating \cup {"countdown"}
          /\ task'[t] \in Terminating => killing'[owner[t]]
          /\ task'[t] \in Terminating \cup {"hbstop", "audit"} => dead'[owner[t]]
      BY <1>1, <1>4, KillTaskEffect DEF TypeOK, TimersCurrent, Terminating
    <2>4. \A r \in Posts : (killing'[r] => dead'[r]) /\ (Evicted(r)' => dead'[r])
      BY <1>1, <1>4, <2>2, KillTaskEffect DEF TypeOK, TimersCurrent
    <2>5. \A u \in Tasks : task[u] # "none" => owner[u] \in Posts
      BY <1>1, ConstantsAssumption DEF TypeOK, TasksOwned
    <2>6. QED
      BY <2>1, <2>2, <2>3, <2>4, <2>5 DEF TimersCurrent, Terminating
  <1>5. ASSUME NEW r \in Posts, HeartbeatTask(r) \/ RunnerEvent(r) PROVE TimersCurrent'
    <2>1. \A u \in Tasks : task[u] # "none" => owner[u] \in Posts
      BY <1>1, ConstantsAssumption DEF TypeOK, TasksOwned
    <2>2. QED
      BY <1>5, <2>1, OthersLeaveTasks DEF TimersCurrent, Terminating, warmVars
  <1>6. QED
    BY <1>2, <1>3, <1>4, <1>5 DEF Next

LEMMA NextKillsUnseen ==
    ASSUME SafeInv, ZombieInv, TimersCurrent, KillsUnseen, Next PROVE KillsUnseen'
  <1>1. TypeOK /\ TypeOK'
    BY NextType DEF SafeInv, TypeInv
  <1>2. ASSUME NEW r \in Posts, killing'[r], ~killing[r]
        PROVE  /\ cache'[r] # "alive" /\ pc'[r] # "auditing"
               /\ \A p \in Posts : pc'[p] \in Probing => ent'[p] # r
    <2>1. ASSUME NEW p \in Posts, PostStep(p) \/ RunEnds(p) PROVE FALSE
      <3>1. killing' = killing \/ \E q \in Posts : killing' = [killing EXCEPT ![q] = FALSE]
        BY <1>1, <2>1, PostStepTasks, ConstantsAssumption
        DEF TypeOK, RunEnds, RunFinished, OnRunFinished, RunErrored
      <3>2. QED
        BY <1>1, <1>2, <3>1 DEF TypeOK
    <2>2. ASSUME NEW q \in Posts, HeartbeatTask(q) \/ RunnerEvent(q) PROVE FALSE
      BY <1>2, <2>2, OthersLeaveTasks DEF warmVars
    <2>3. PICK t \in Tasks : KillTask(t)
      BY <2>1, <2>2 DEF Next
    <2>4. IdleTimeout(t) /\ killing' = [killing EXCEPT ![owner[t]] = TRUE] /\ owner[t] \in Posts
      BY <1>2, <2>3, KillTaskEffect
    <2>5. owner[t] = r /\ WindowElapsed(r) /\ UNCHANGED <<cache, pc, ent>>
      BY <1>1, <1>2, <2>4 DEF TypeOK, IdleTimeout, postVars
    <2>6. QED
      BY <2>5 DEF WindowElapsed
  <1>3. ASSUME NEW p \in Posts, pc'[p] \in Probing PROVE ~killing'[ent'[p]]
    <2>1. ent'[p] \in Posts
      BY <1>3, NextProbes DEF SafeInv, ProbesAnEntry
    <2>2. CASE pc[p] \in Probing /\ ent'[p] = ent[p]
      BY <1>2, <1>3, <2>1, <2>2 DEF KillsUnseen
    <2>3. CASE ~dead[ent'[p]] /\ UNCHANGED <<dead, hb, killing>>
      BY <2>1, <2>3 DEF TimersCurrent
    <2>4. QED
      BY <1>3, <2>2, <2>3, ProbeStarts, PostStepLocal, OthersLeavePosts DEF Next, postVars, SafeInv, TypeInv
  <1>4. ASSUME NEW r \in Posts, cache'[r] = "alive" PROVE ~killing'[r]
    BY <1>2, <1>4, CacheFills DEF KillsUnseen
  <1>5. ASSUME NEW r \in Posts, pc'[r] = "auditing" PROVE ~killing'[r]
    <2>1. CASE pc[r] = "auditing"
      BY <1>2, <1>5, <2>1 DEF KillsUnseen
    <2>2. CASE pc[r] # "auditing"
      <3>1. PostStep(r) \/ RunEnds(r)
        BY <1>1, <1>5, <2>2, PostStepLocal, OthersLeavePosts DEF Next, postVars
      <3>2. SpawnReturns(r)
        BY <1>1, <1>5, <2>2, <3>1 DEF TypeOK, PostStep, RunEnds, Begin, KillSettled, Refetch, Return,
           DaemonAnswers, FirstCheckResumes, GetLock, LockGranted, StartSpawn, DoubleCheck,
           SecondCheckResumes, SpawnFails, SpawnAudited, RunFinished, RunErrored
      <3>3. ~dead[r] /\ killing' = killing
        BY <3>2 DEF ZombieInv, SafeInv, RegistrySound, SpawnReturns, warmVars
      <3>4. QED
        BY <3>3 DEF TimersCurrent
    <2>3. QED
      BY <2>1, <2>2
  <1>6. QED
    BY <1>3, <1>4, <1>5 DEF KillsUnseen

\* Returning a runner cancels the countdown that may run on it.
LEMMA ReturnStopsCountdown ==
    ASSUME SafeInv, TimersCurrent, NEW p \in Posts, NEW r \in Posts, Return(p, r), ~killing[r]
    PROVE  ent'[p] = r /\ \A t \in Tasks : owner'[t] = r => task'[t] # "countdown"
  <1>1. TypeOK /\ ent'[p] = r /\ owner' = owner
    BY DEF SafeInv, TypeInv, TypeOK, Return
  <1>2. ASSUME NEW t \in Tasks, owner[t] = r, task'[t] = "countdown" PROVE FALSE
    <2>1. CASE current[r] = None
      <3>1. task' = task
        BY <2>1 DEF Return, OnUserMessage
      <3>2. QED
        BY <1>2, <2>1, <3>1, ConstantsAssumption DEF TimersCurrent
    <2>2. CASE current[r] # None
      <3>1. task' = [task EXCEPT ![current[r]] = Cancelled(@)]
        BY <2>2 DEF Return, OnUserMessage
      <3>2. task[t] = "countdown" => current[r] = t
        BY <1>2 DEF TimersCurrent
      <3>3. QED
        BY <1>1, <1>2, <3>1, <3>2 DEF TypeOK, Cancelled
    <2>3. QED
      BY <2>1, <2>2
  <1>3. QED
    BY <1>1, <1>2

\* get_or_spawn returns a runner it has just asked about, knows to be alive or has spawned.
LEMMA ReturnsUnkilled ==
    ASSUME SafeInv, KillsUnseen, NEW p \in Posts, PostStep(p), pc'[p] = "returned"
    PROVE  \E r \in Posts : Return(p, r) /\ ~killing[r]
  <1>1. TypeOK /\ entries[SessionOf[p]] \in Posts \cup {None}
    BY ConstantsAssumption DEF SafeInv, TypeInv, TypeOK
  <1>2. Refetch(p) \/ FirstCheckResumes(p) \/ DoubleCheck(p) \/ SecondCheckResumes(p) \/ SpawnAudited(p)
    BY <1>1, ZenonT(30) DEF TypeOK, PostStep, Begin, KillSettled, DaemonAnswers,
       GetLock, LockGranted, SpawnReturns, SpawnFails
  <1>3. CASE Refetch(p) \/ DoubleCheck(p)
    <2>1. KnownAlive(entries[SessionOf[p]]) /\ Return(p, entries[SessionOf[p]]) /\ entries[SessionOf[p]] # None
      BY <1>1, <1>3 DEF TypeOK, Refetch, DoubleCheck, StartSpawn
    <2>2. QED
      BY <1>1, <2>1 DEF KnownAlive, KillsUnseen
  <1>4. CASE FirstCheckResumes(p) \/ SecondCheckResumes(p)
    <2>1. Return(p, ent[p]) /\ pc[p] \in Probing
      BY <1>1, <1>4 DEF TypeOK, FirstCheckResumes, SecondCheckResumes, StartSpawn, Probing
    <2>2. QED
      BY <2>1 DEF KillsUnseen, SafeInv, TypeInv, ProbesAnEntry
  <1>5. CASE SpawnAudited(p)
    BY <1>5 DEF SpawnAudited, KillsUnseen
  <1>6. QED
    BY <1>2, <1>3, <1>4, <1>5

LEMMA NextUndisturbedRuns ==
    ASSUME SafeInv, TimersCurrent, KillsUnseen, UndisturbedRuns, Next PROVE UndisturbedRuns'
  <1>1. TypeOK /\ TasksOwned
    BY DEF SafeInv, TypeInv
  <1>2. ASSUME NEW q \in Posts, PostStep(q),
               NEW p \in Posts, NEW t \in Tasks, pc'[p] = "returned", p \notin disturbed', owner'[t] = ent'[p]
        PROVE  task'[t] # "countdown"
    <2>1. CASE p = q
      BY <1>2, <2>1, ReturnsUnkilled, ReturnStopsCountdown
    <2>2. CASE p # q
      <3>1. pc[p] = "returned" /\ ent'[p] = ent[p]
        BY <1>1, <1>2, <2>2, PostStepLocal
      <3>2. QED
        BY <1>2, <3>1, PostStepTasks DEF UndisturbedRuns
    <2>3. QED
      BY <2>1, <2>2
  <1>3. ASSUME NEW q \in Posts, RunEnds(q),
               NEW p \in Posts, NEW t \in Tasks, pc'[p] = "returned", p \notin disturbed', owner'[t] = ent'[p]
        PROVE  task'[t] # "countdown"
    <2>1. pc'[q] \in {"finished", "errored"} /\ ent' = ent
      BY <1>1, <1>3 DEF TypeOK, RunEnds, RunFinished, RunErrored
    <2>2. p # q /\ pc[p] = "returned"
      BY <1>1, <1>3, <2>1, PostStepLocal
    <2>3. CASE UNCHANGED <<task, owner>> /\ disturbed' = disturbed \ {q}
      BY <1>3, <2>1, <2>2, <2>3 DEF UndisturbedRuns
    <2>4. ASSUME NEW r \in Posts, NEW u \in Tasks, FreshTask(u), OnRunFinished(r, q, u)
          PROVE  task'[t] # "countdown"
      <3>1. p \notin disturbed /\ ent[p] # r
        BY <1>3, <2>2, <2>4 DEF OnRunFinished, Running
      <3>2. t # u /\ owner'[t] = owner[t]
        BY <1>1, <1>3, <2>1, <2>4, <3>1, FinishTasks DEF TypeOK
      <3>3. QED
        BY <1>3, <2>1, <2>2, <2>4, <3>1, <3>2, FinishTasks DEF UndisturbedRuns
    <2>5. entries[SessionOf[q]] \in Posts \cup {None}
      BY <1>1, ConstantsAssumption DEF TypeOK
    <2>6. QED
      BY <1>3, <2>3, <2>4, <2>5 DEF RunEnds, RunFinished, RunErrored
  <1>4. ASSUME NEW u \in Tasks, KillTask(u) PROVE UndisturbedRuns'
    <2>1. /\ UNCHANGED <<pc, ent, owner, disturbed>>
          /\ \A t \in Tasks : task'[t] = "countdown" => task[t] = "countdown"
      BY <1>4, KillTaskEffect DEF postVars, Terminating
    <2>2. QED
      BY <2>1 DEF UndisturbedRuns
  <1>5. ASSUME NEW r \in Posts, HeartbeatTask(r) \/ RunnerEvent(r) PROVE UndisturbedRuns'
    BY <1>5, OthersLeaveTasks DEF UndisturbedRuns, postVars, warmVars
  <1>6. QED
    BY <1>2, <1>3, <1>4, <1>5 DEF Next, UndisturbedRuns

LEMMA TimersHold == Spec => [](SafeInv /\ ZombieInv /\ TimerInv)
  <1>1. SafeInv /\ ZombieInv /\ TimerInv /\ [Next]_vars => (ZombieInv /\ TimerInv)'
    <2>1. ASSUME ZombieInv /\ TimerInv, UNCHANGED vars PROVE (ZombieInv /\ TimerInv)'
      BY <2>1 DEF ZombieInv, Zombie, TimerInv, TimersCurrent, KillsUnseen, UndisturbedRuns, Evicted,
         vars, postVars, dockerVars, warmVars
    <2>2. QED
      BY <2>1, NextZombieInv, NextTimersCurrent, NextKillsUnseen, NextUndisturbedRuns DEF TimerInv
  <1>2. QED
    BY Safe, InitZombie, InitTimer, <1>1, PTL DEF Spec

\* A runner is killed under a run only by a countdown that another run's RUN_FINISHED
\* started during that run: on_user_message ends the one that was running, and get_or_spawn
\* returns no runner that is being killed.
THEOREM BusyKillsAreDisturbed == Spec => BusyKillNeedsOtherFinish
  <1>1. ASSUME SafeInv, TimerInv, Next, NEW r \in Posts, killing'[r], ~killing[r]
        PROVE  Running(r) \subseteq disturbed
    <2>1. TypeOK
      BY <1>1 DEF SafeInv, TypeInv
    <2>2. ASSUME NEW p \in Posts, PostStep(p) \/ RunEnds(p) PROVE FALSE
      <3>1. killing' = killing \/ \E q \in Posts : killing' = [killing EXCEPT ![q] = FALSE]
        BY <1>1, <2>1, <2>2, PostStepTasks, ConstantsAssumption
        DEF TypeOK, RunEnds, RunFinished, OnRunFinished, RunErrored
      <3>2. QED
        BY <1>1, <2>1, <3>1 DEF TypeOK
    <2>3. ASSUME NEW q \in Posts, HeartbeatTask(q) \/ RunnerEvent(q) PROVE FALSE
      BY <1>1, <2>3, OthersLeaveTasks DEF warmVars
    <2>4. PICK t \in Tasks : KillTask(t)
      BY <1>1, <2>2, <2>3 DEF Next
    <2>5. task[t] = "countdown" /\ killing' = [killing EXCEPT ![owner[t]] = TRUE] /\ owner[t] \in Posts
      BY <1>1, <2>4, KillTaskEffect
    <2>6. owner[t] = r
      BY <1>1, <2>1, <2>5 DEF TypeOK
    <2>7. QED
      BY <1>1, <2>5, <2>6 DEF TimerInv, UndisturbedRuns, Running
  <1>2. SafeInv /\ TimerInv /\ [Next]_vars =>
          [\A r \in Posts : killing'[r] /\ ~killing[r] => Running(r) \subseteq disturbed]_vars
    BY <1>1
  <1>3. QED
    BY TimersHold, <1>2, PTL DEF Spec, BusyKillNeedsOtherFinish

-----------------------------------------------------------------------------
(* What an eviction leaves.                                                 *)

Gone(r) == container[r] = "deleted" /\ r \notin files

\* A deleted container and its file do not come back: the runner is spawned only once.
LEMMA GoneStays ==
    ASSUME SafeInv, Next, NEW r \in Posts, hb[r] # "none", Gone(r)
    PROVE  Gone(r)'
  <1>1. TypeOK /\ pc[r] \in {"auditing", "returned", "finished", "errored"}
    BY DEF SafeInv, TypeInv, RegistrySound
  <1>2. ASSUME NEW p \in Posts, PostStep(p) PROVE Gone(r)'
    <2>1. files' = files \/ (files' = files \cup {p} /\ p # r)
      BY <1>1, <1>2 DEF PostStep, Begin, KillSettled, Refetch, DaemonAnswers, FirstCheckResumes,
         GetLock, LockGranted, StartSpawn, DoubleCheck, SecondCheckResumes, SpawnReturns,
         SpawnFails, SpawnAudited, dockerVars
    <2>2. container' = container \/ (p # r /\ \E x : container' = [container EXCEPT ![p] = x])
      BY <1>1, <1>2 DEF PostStep, Begin, KillSettled, Refetch, DaemonAnswers, FirstCheckResumes,
         GetLock, LockGranted, StartSpawn, DoubleCheck, SecondCheckResumes, SpawnReturns,
         SpawnFails, SpawnAudited, dockerVars
    <2>3. QED
      BY <1>1, <2>1, <2>2 DEF Gone, TypeOK
  <1>3. ASSUME NEW q \in Posts, NEW phase, Abandon(q, phase) PROVE container'[r] = "deleted"
    BY <1>1, <1>3 DEF Gone, TypeOK, Abandon
  <1>4. ASSUME NEW p \in Posts, RunEnds(p) PROVE Gone(r)'
    <2>1. entries[SessionOf[p]] \in Posts \cup {None}
      BY <1>1, ConstantsAssumption DEF TypeOK
    <2>2. files' = files /\ (container' = container \/ \E q \in Posts : \E phase : Abandon(q, phase))
      BY <1>4, <2>1 DEF RunEnds, RunFinished, OnRunFinished, RunErrored, dockerVars
    <2>3. QED
      BY <1>3, <2>2 DEF Gone
  <1>5. ASSUME NEW q \in Posts, StopReturns(q) \/ WaitReturns(q) \/ DeleteReturns(q) PROVE Gone(r)'
    BY <1>1, <1>5 DEF Gone, TypeOK, StopReturns, WaitReturns, DeleteReturns, Deletes
  <1>6. ASSUME NEW t \in Tasks, KillTask(t) PROVE Gone(r)'
    <2>1. owner[t] \in Posts
      BY <1>6, KillTaskEffect
    <2>2. CASE IdleTimeout(t)
      <3>1. files' = files /\ (container' = container \/ Abandon(owner[t], hb[owner[t]]))
        BY <2>2 DEF IdleTimeout
      <3>2. QED
        BY <1>3, <2>1, <3>1 DEF Gone
    <2>3. CASE KillStep(t)
      BY <1>5, <2>1, <2>3 DEF KillStep
    <2>4. CASE HeartbeatStopped(t) \/ EvictAudited(t)
      BY <2>4 DEF HeartbeatStopped, EvictAudited, dockerVars, Gone
    <2>5. QED
      BY <1>6, <2>2, <2>3, <2>4 DEF KillTask
  <1>7. ASSUME NEW q \in Posts, HeartbeatTask(q) PROVE Gone(r)'
    BY <1>5, <1>7 DEF HeartbeatTask, HeartbeatTimeout, HeartbeatStep, LostAudited, CrashedAudited,
       dockerVars, Gone
  <1>8. ASSUME NEW q \in Posts, RunnerEvent(q) PROVE Gone(r)'
    BY <1>1, <1>8 DEF RunnerEvent, ContainerExits, CacheExpires, BeforeToolCall, ToolCallDecided,
       AfterToolCall, dockerVars, Gone, TypeOK
  <1>9. QED
    BY <1>2, <1>4, <1>6, <1>7, <1>8 DEF Next

\* What a step of a watcher does to its runner.
LEMMA HeartbeatEffect ==
    ASSUME SafeInv, NEW r \in Posts, HeartbeatTask(r)
    PROVE  /\ \A q \in Posts \ {r} : hb'[q] = hb[q] /\ dead'[q] = dead[q]
           /\ cut \subseteq cut'
           /\ \/ /\ hb[r] = "waiting" /\ dead'[r]
                 /\ IF dead[r] THEN hb'[r] \notin Terminating ELSE hb'[r] = "stop"
              \/ /\ hb[r] \in Terminating /\ dead' = dead
                 /\ hb'[r] \in Terminating \/ r \in cut' \/ Gone(r)'
              \/ hb[r] \notin Terminating /\ hb'[r] \notin Terminating /\ dead' = dead
  <1>1. TypeOK
    BY DEF SafeInv, TypeInv
  <1>2. CASE HeartbeatTimeout(r)
    BY <1>1, <1>2 DEF TypeOK, HeartbeatTimeout, CrashCallback, Terminating
  <1>3. CASE HeartbeatStep(r)
    <2>1. DeleteReturns(r) => r \in cut' \/ Gone(r)'
      BY <1>1 DEF TypeOK, DeleteReturns, Deletes, Gone
    <2>2. CASE hb[r] \in {"stop", "wait"}
      BY <1>1, <1>3, <2>2 DEF TypeOK, HeartbeatStep, StopReturns, WaitReturns, Terminating
    <2>3. CASE hb[r] = "delete" /\ DeleteReturns(r) /\ CrashCallback(r)
      BY <1>1, <1>3, <2>1, <2>3
      DEF TypeOK, HeartbeatStep, DeleteReturns, Deletes, CrashCallback, Terminating
    <2>4. QED
      BY <1>3, <2>2, <2>3 DEF HeartbeatStep
  <1>4. CASE LostAudited(r) \/ CrashedAudited(r)
    BY <1>1, <1>4 DEF TypeOK, LostAudited, CrashedAudited, dockerVars, Terminating
  <1>5. QED
    BY <1>2, <1>3, <1>4 DEF HeartbeatTask

\* What a step of a warm-idle task does to the containers and the watcher.
LEMMA KillTaskDocker ==
    ASSUME SafeInv, NEW t \in Tasks, KillTask(t)
    PROVE  /\ \A q \in Posts : hb'[q] = hb[q] \/ (q = owner[t] /\ hb'[q] = "done")
           /\ cut \subseteq cut'
           /\ hb[owner[t]] \in Terminating => hb'[owner[t]] = hb[owner[t]] \/ owner[t] \in cut' \/ task[t] = "delete"
           /\ task[t] \in Terminating => task'[t] \in Terminating \/ owner[t] \in cut' \/ Gone(owner[t])'
  <1>1. TypeOK /\ owner[t] \in Posts /\ owner' = owner
    BY KillTaskEffect DEF SafeInv, TypeInv
  <1>2. CASE IdleTimeout(t)
    BY <1>1, <1>2 DEF TypeOK, IdleTimeout, StopHeartbeat, Abandon, Terminating
  <1>3. CASE KillStep(t)
    <2>1. DeleteReturns(owner[t]) => owner[t] \in cut' \/ Gone(owner[t])'
      BY <1>1 DEF TypeOK, DeleteReturns, Deletes, Gone
    <2>2. CASE task[t] \in {"stop", "wait"}
      BY <1>1, <1>3, <2>2 DEF TypeOK, KillStep, StopReturns, WaitReturns, Terminating
    <2>3. CASE task[t] = "delete" /\ DeleteReturns(owner[t]) /\ StopHeartbeat(t)
      BY <1>1, <1>3, <2>1, <2>3 DEF TypeOK, DeleteReturns, Deletes, StopHeartbeat, Terminating
    <2>4. QED
      BY <1>3, <2>2, <2>3 DEF KillStep
  <1>4. CASE HeartbeatStopped(t) \/ EvictAudited(t)
    BY <1>1, <1>4 DEF TypeOK, HeartbeatStopped, EvictAudited, dockerVars, Terminating
  <1>5. QED
    BY <1>2, <1>3, <1>4 DEF KillTask

LEMMA NextTerminate ==
    ASSUME SafeInv, ZombieInv, TimersCurrent, TerminateInv, Next PROVE TerminateInv'
  <1>1. TypeOK /\ TypeOK' /\ \A t \in Tasks : task[t] # "none" => owner[t] \in Posts
    BY NextType, ConstantsAssumption DEF SafeInv, TypeInv, TypeOK, TasksOwned
  <1>2. \A r \in Posts : dead[r] => hb[r] # "none"
    BY DEF ZombieInv
  <1>3. \A r \in Posts : dead[r] /\ Gone(r) => Gone(r)'
    BY <1>2, GoneStays
  <1>4. ASSUME \A r \in Posts : Terminator(r)' = Terminator(r) /\ dead'[r] = dead[r],
               \A r \in Posts : hb'[r] \in Terminating <=> hb[r] \in Terminating,
               \A t \in Tasks : task'[t] \in {"hbstop", "audit"} => task'[t] = task[t] /\ owner'[t] = owner[t],
               \A r \in Posts : Evicted(r)' => Evicted(r),
               cut \subseteq cut'
        PROVE  TerminateInv'
    BY <1>1, <1>3, <1>4 DEF TerminateInv, Gone
  <1>5. ASSUME NEW p \in Posts, PostStep(p) PROVE TerminateInv'
    <2>1. \A t \in Tasks : task[t] \in Terminating => task'[t] = task[t]
      BY <1>5, PostStepTasks DEF TimersCurrent
    <2>2. \A t \in Tasks : task'[t] \in Terminating \cup {"hbstop", "audit"} => task'[t] = task[t]
      BY <1>5, PostStepTasks DEF Terminating
    <2>3. UNCHANGED <<owner, dead, cut>> /\ \A r \in Posts : Evicted(r)' => Evicted(r)
      BY <1>5, PostStepTasks
    <2>4. \A r \in Posts : Terminator(r)' = Terminator(r)
      BY <2>1, <2>2, <2>3 DEF Terminator
    <2>5. hb' = hb \/ (hb' = [hb EXCEPT ![p] = "waiting"] /\ hb[p] = "none")
      <3>1. hb' = hb \/ SpawnReturns(p)
        BY <1>5 DEF PostStep, Begin, KillSettled, Refetch, DaemonAnswers, FirstCheckResumes, GetLock,
           LockGranted, DoubleCheck, SecondCheckResumes, SpawnFails, SpawnAudited
      <3>2. SpawnReturns(p) => hb' = [hb EXCEPT ![p] = "waiting"] /\ hb[p] = "none"
        BY DEF SpawnReturns, SafeInv, RegistrySound
      <3>3. QED
        BY <3>1, <3>2
    <2>6. \A r \in Posts : hb'[r] \in Terminating <=> hb[r] \in Terminating
      BY <1>1, <2>5 DEF TypeOK, Terminating
    <2>7. QED
      BY <1>4, <2>2, <2>3, <2>4, <2>6
  <1>6. ASSUME NEW p \in Posts, RunEnds(p) PROVE TerminateInv'
    <2>1. UNCHANGED <<dead, hb, audit, files>>
      BY <1>6 DEF RunEnds, RunFinished, RunErrored, dockerVars
    <2>2. CASE UNCHANGED <<task, owner, cut>>
      BY <1>4, <2>1, <2>2 DEF Terminator, Evicted
    <2>3. ASSUME NEW r \in Posts, NEW t \in Tasks, FreshTask(t), OnRunFinished(r, p, t)
          PROVE  TerminateInv'
      <3>1. /\ owner' = [owner EXCEPT ![t] = r] /\ task'[t] = "countdown" /\ task[t] = "none"
            /\ \A u \in Tasks \ {t} : /\ task'[u] \in {task[u], "done"}
                                      /\ task'[u] # task[u] => owner[u] = r
                                      /\ owner[u] = r => task'[u] \notin Terminating \cup {"countdown"}
        BY <2>3, FinishTasks
      <3>2. \A u \in Tasks \ {t} : owner'[u] = owner[u]
        BY <1>1, <3>1 DEF TypeOK
      <3>3. \A x \in Posts : Terminator(x)' = IF x = r THEN {} ELSE Terminator(x)
        BY <1>1, <3>1, <3>2 DEF Terminator, Terminating, TypeOK
      <3>4. cut \subseteq cut' /\ (Terminator(r) # {} => r \in cut')
        <4>1. cut' = IF (IF current[r] = None THEN "none" ELSE task[current[r]]) \in Terminating
                     THEN cut \cup {r} ELSE cut
          BY <2>3 DEF OnRunFinished, Abandon
        <4>2. ASSUME NEW u \in Terminator(r) PROVE current[r] # None /\ task[current[r]] \in Terminating
          <5>1. u \in Tasks /\ owner[u] = r /\ task[u] \in Terminating
            BY DEF Terminator
          <5>2. QED
            BY <5>1, ConstantsAssumption DEF TimersCurrent
        <4>3. QED
          BY <4>1, <4>2
      <3>5. \A u \in Tasks : task'[u] \in {"hbstop", "audit"} => task'[u] = task[u] /\ owner'[u] = owner[u]
        BY <3>1, <3>2
      <3>6. QED
        BY <1>1, <1>3, <2>1, <3>3, <3>4, <3>5 DEF TerminateInv, Gone, Evicted
    <2>4. entries[SessionOf[p]] \in Posts \cup {None}
      BY <1>1, ConstantsAssumption DEF TypeOK
    <2>5. QED
      BY <1>6, <2>2, <2>3, <2>4 DEF RunEnds, RunFinished, RunErrored, dockerVars
  <1>7. ASSUME NEW t \in Tasks, KillTask(t) PROVE TerminateInv'
    <2>0. PICK r \in Posts : r = owner[t]
      BY <1>7, KillTaskEffect
    <2>1. /\ owner[t] = r /\ owner' = owner
          /\ \A u \in Tasks \ {t} : task'[u] = task[u]
          /\ \A q \in Posts : Evicted(q)' => Evicted(q) \/ (q = r /\ task[t] = "audit")
      BY <1>7, <2>0, KillTaskEffect
    <2>2. /\ \A q \in Posts : hb'[q] = hb[q] \/ (q = r /\ hb'[q] = "done")
          /\ cut \subseteq cut'
          /\ hb[r] \in Terminating => hb'[r] = hb[r] \/ r \in cut' \/ task[t] = "delete"
          /\ task[t] \in Terminating => task'[t] \in Terminating \/ r \in cut' \/ Gone(r)'
      <3>1. Gone(owner[t])' <=> Gone(r)'
        BY <2>0, <2>1 DEF Gone
      <3>2. QED
        BY <1>7, <2>0, <3>1, KillTaskDocker
    <2>3. \A q \in Posts \ {r} : Terminator(q)' = Terminator(q)
      BY <2>1 DEF Terminator
    <2>4. Terminator(r)' = IF task'[t] \in Terminating THEN (Terminator(r) \ {t}) \cup {t} ELSE Terminator(r) \ {t}
      BY <2>1 DEF Terminator
    <2>5. task[t] \in Terminating \cup {"countdown"} => Terminator(r) \subseteq {t}
      BY <2>1 DEF Terminator, TimersCurrent
    <2>6. /\ \A q \in Posts \ {r} : dead'[q] = dead[q]
          /\ \/ /\ task[t] = "countdown" /\ dead'[r]
                /\ IF dead[r] THEN task'[t] \in {"hbstop", "audit"} ELSE task'[t] = "stop"
             \/ /\ task[t] \in Terminating /\ dead'[r] = dead[r]
                /\ task'[t] \in {"wait", "delete", "hbstop", "audit"}
             \/ /\ task[t] \in {"hbstop", "audit"} /\ dead'[r] = dead[r]
                /\ task'[t] \in {"audit", "done"}
      BY <1>1, <1>7, <2>1, KillTaskEffect DEF TypeOK
    <2>7. task[t] \notin Terminating => t \notin Terminator(r)
      BY DEF Terminator
    <2>8. task[t] \in Terminating => t \in Terminator(r) /\ dead[r] /\ hb[r] \notin Terminating
      BY <2>1 DEF Terminator, TimersCurrent, TerminateInv
    <2>9. task'[t] \in {"hbstop", "audit", "done"} => Terminator(r)' = {}
      <3>1. CASE task[t] \in Terminating \cup {"countdown"}
        BY <2>4, <2>5, <3>1 DEF Terminating
      <3>2. CASE task[t] \in {"hbstop", "audit"}
        BY <2>1, <2>4, <2>6, <3>2 DEF Terminating, TerminateInv
      <3>3. QED
        BY <2>6, <3>1, <3>2
    <2>10. ASSUME NEW q \in Posts, hb'[q] \in Terminating PROVE dead'[q] /\ Terminator(q)' = {}
      <3>1. hb'[q] = hb[q] /\ dead[q] /\ Terminator(q) = {}
        BY <2>2, <2>10 DEF TerminateInv, Terminating
      <3>2. CASE q # r
        BY <2>3, <2>6, <3>1, <3>2
      <3>3. CASE q = r
        BY <2>4, <2>6, <2>8, <3>1, <3>3 DEF Terminating
      <3>4. QED
        BY <3>2, <3>3
    <2>11. ASSUME NEW u \in Tasks, task'[u] \in {"hbstop", "audit"} PROVE Terminator(owner[u])' = {}
      <3>1. CASE u = t
        BY <2>1, <2>9, <2>11, <3>1
      <3>2. CASE u # t
        <4>1. task[u] \in {"hbstop", "audit"} /\ owner[u] \in Posts /\ dead[owner[u]] /\ Terminator(owner[u]) = {}
          BY <1>1, <2>1, <2>11, <3>2 DEF TerminateInv, TimersCurrent
        <4>2. CASE owner[u] # r
          BY <2>1, <2>3, <4>1, <4>2
        <4>3. CASE owner[u] = r
          BY <2>1, <2>4, <2>6, <2>8, <2>9, <4>1, <4>3 DEF Terminating
        <4>4. QED
          BY <4>2, <4>3
      <3>3. QED
        BY <3>1, <3>2
    <2>12. ASSUME NEW q \in Posts, Evicted(q)' PROVE Terminator(q)' = {}
      <3>1. CASE q = r /\ task[t] = "audit"
        BY <2>6, <2>9, <3>1 DEF Terminating
      <3>2. CASE Evicted(q)
        <4>1. dead[q] /\ Terminator(q) = {}
          BY <3>2 DEF TerminateInv, TimersCurrent
        <4>2. CASE q # r
          BY <2>3, <4>1, <4>2
        <4>3. CASE q = r
          BY <2>4, <2>6, <2>8, <2>9, <4>1, <4>3 DEF Terminating
        <4>4. QED
          BY <4>2, <4>3
      <3>3. QED
        BY <2>1, <2>12, <3>1, <3>2
    <2>13. ASSUME NEW q \in Posts, dead'[q], q \notin cut'
           PROVE  hb'[q] \in Terminating \/ Terminator(q)' # {} \/ Gone(q)'
      <3>1. CASE q # r
        BY <1>3, <2>2, <2>3, <2>6, <2>13, <3>1 DEF TerminateInv, Gone
      <3>2. CASE q = r
        <4>1. CASE ~dead[r]
          BY <2>4, <2>6, <2>8, <3>2, <4>1, <2>1 DEF TimersCurrent, Terminating
        <4>2. CASE dead[r] /\ task[t] \in Terminating
          BY <2>1, <2>2, <2>4, <2>13, <3>2, <4>2
        <4>3. CASE dead[r] /\ task[t] \notin Terminating
          <5>1. hb[r] \in Terminating \/ Terminator(r) # {} \/ Gone(r)
            BY <2>2, <2>13, <3>2, <4>3 DEF TerminateInv, Gone
          <5>2. hb[r] \in Terminating => hb'[r] = hb[r]
            BY <2>2, <2>13, <3>2, <4>3 DEF Terminating
          <5>3. Terminator(r) # {} => Terminator(r)' # {}
            BY <2>4, <2>7, <4>3
          <5>4. Gone(r) => Gone(q)'
            BY <1>3, <3>2, <4>3, <2>13
          <5>5. Terminator(r)' = Terminator(q)'
            BY <3>2, <2>1 DEF Terminator
          <5>6. QED
            BY <3>2, <5>1, <5>2, <5>3, <5>4, <5>5
        <4>4. QED
          BY <4>1, <4>2, <4>3
      <3>3. QED
        BY <3>1, <3>2
    <2>14. QED
      BY <2>1, <2>10, <2>11, <2>12, <2>13 DEF TerminateInv, Gone
  <1>8. ASSUME NEW r \in Posts, HeartbeatTask(r) PROVE TerminateInv'
    <2>1. UNCHANGED <<task, owner>> /\ \A q \in Posts : Evicted(q)' = Evicted(q)
      BY <1>8, OthersLeaveTasks DEF warmVars
    <2>2. \A q : Terminator(q)' = Terminator(q)
      BY <2>1 DEF Terminator
    <2>3. ~dead[r] => Terminator(r) = {}
      BY DEF Terminator, TimersCurrent
    <2>4. \A q \in Posts \ {r} : hb'[q] = hb[q] /\ dead'[q] = dead[q]
      BY <1>8, HeartbeatEffect
    <2>5. /\ cut \subseteq cut'
          /\ \/ /\ hb[r] = "waiting" /\ dead'[r]
                /\ IF dead[r] THEN hb'[r] \notin Terminating ELSE hb'[r] = "stop"
             \/ /\ hb[r] \in Terminating /\ dead'[r] = dead[r]
                /\ hb'[r] \in Terminating \/ r \in cut' \/ Gone(r)'
             \/ hb[r] \notin Terminating /\ hb'[r] \notin Terminating /\ dead'[r] = dead[r]
      BY <1>8, HeartbeatEffect
    <2>6. hb'[r] \in Terminating => dead'[r] /\ Terminator(r) = {}
      BY <2>3, <2>5 DEF TerminateInv
    <2>7. dead'[r] /\ r \notin cut' => hb'[r] \in Terminating \/ Terminator(r) # {} \/ Gone(r)'
      BY <1>3, <2>5 DEF TerminateInv, Gone, Terminating
    <2>8. \A q \in Posts \ {r} : dead'[q] /\ q \notin cut'
             => hb'[q] \in Terminating \/ Terminator(q) # {} \/ Gone(q)'
      BY <1>3, <2>4, <2>5 DEF TerminateInv, Gone
    <2>9. QED
      BY <2>1, <2>2, <2>4, <2>6, <2>7, <2>8 DEF TerminateInv, Gone
  <1>9. ASSUME NEW r \in Posts, RunnerEvent(r) PROVE TerminateInv'
    <2>1. UNCHANGED <<task, owner, dead, hb, audit, cut>>
      BY <1>9 DEF RunnerEvent, ContainerExits, CacheExpires, BeforeToolCall, ToolCallDecided,
         AfterToolCall, dockerVars, warmVars
    <2>2. QED
      BY <1>4, <2>1 DEF Terminator, Evicted
  <1>10. QED
    BY <1>5, <1>6, <1>7, <1>8, <1>9 DEF Next

\* An eviction leaves neither container nor hydration file, whatever else crashes, falls
\* silent or is replayed, unless the terminate itself was cancelled or could not delete.
THEOREM EvictionCleansUp == Spec => []EvictedIsGone
  <1>1. SafeInv /\ ZombieInv /\ TimerInv /\ TerminateInv /\ [Next]_vars => TerminateInv'
    <2>1. ASSUME TerminateInv, UNCHANGED vars PROVE TerminateInv'
      BY <2>1 DEF TerminateInv, Terminator, Evicted, vars, dockerVars, warmVars
    <2>2. QED
      BY <2>1, NextTerminate DEF TimerInv
  <1>2. SafeInv /\ TimerInv /\ TerminateInv => EvictedIsGone
    BY DEF SafeInv, WatchersStopped, TimerInv, TimersCurrent, TerminateInv, Evicted, EvictedIsGone, Terminating
  <1>3. QED
    BY TimersHold, InitTimer, <1>1, <1>2, PTL DEF Spec

-----------------------------------------------------------------------------
(* One live container for a session with one client.                        *)

\* A runner comes to life when it is spawned, and only then.
LEMMA LifeStarts ==
    ASSUME SafeInv, Next, NEW r \in Posts, NotLive(r), ~NotLive(r)' PROVE SpawnReturns(r)
  <1>1. TypeOK
    BY DEF SafeInv, TypeInv
  <1>2. dead[r] => dead'[r]
    <2>1. ASSUME NEW p \in Posts, PostStep(p) \/ RunEnds(p) \/ RunnerEvent(p) PROVE dead' = dead
      BY <2>1, PostStepTasks DEF RunEnds, RunFinished, RunErrored, RunnerEvent, ContainerExits,
         CacheExpires, BeforeToolCall, ToolCallDecided, AfterToolCall, dockerVars
    <2>2. ASSUME NEW t \in Tasks, KillTask(t) PROVE dead' = dead \/ dead' = [dead EXCEPT ![owner[t]] = TRUE]
      BY <2>2, KillTaskEffect
    <2>3. QED
      BY <1>1, <2>1, <2>2, OthersLeaveTasks DEF Next, TypeOK
  <1>3. container[r] # "running" /\ container'[r] = "running"
    BY <1>2 DEF NotLive
  <1>4. ASSUME NEW q \in Posts, NEW phase, Abandon(q, phase) PROVE FALSE
    BY <1>1, <1>3, <1>4 DEF TypeOK, Abandon
  <1>5. ASSUME NEW q \in Posts, StopReturns(q) \/ WaitReturns(q) \/ DeleteReturns(q) PROVE FALSE
    BY <1>1, <1>3, <1>5 DEF TypeOK, StopReturns, WaitReturns, DeleteReturns, Deletes
  <1>6. ASSUME NEW p \in Posts, RunEnds(p) PROVE FALSE
    <2>1. entries[SessionOf[p]] \in Posts \cup {None}
      BY <1>1, ConstantsAssumption DEF TypeOK
    <2>2. container' = container \/ \E q \in Posts : \E phase : Abandon(q, phase)
      BY <1>6, <2>1 DEF RunEnds, RunFinished, OnRunFinished, RunErrored, dockerVars
    <2>3. QED
      BY <1>3, <1>4, <2>2
  <1>7. ASSUME NEW t \in Tasks, KillTask(t) PROVE FALSE
    <2>1. owner[t] \in Posts
      BY <1>7, KillTaskEffect
    <2>2. container' = container \/ (\E phase : Abandon(owner[t], phase))
          \/ StopReturns(owner[t]) \/ WaitReturns(owner[t]) \/ DeleteReturns(owner[t])
      BY <1>7 DEF KillTask, IdleTimeout, KillStep, HeartbeatStopped, EvictAudited, dockerVars
    <2>3. QED
      BY <1>3, <1>4, <1>5, <2>1, <2>2
  <1>8. ASSUME NEW q \in Posts, HeartbeatTask(q) \/ RunnerEvent(q) PROVE FALSE
    <2>1. HeartbeatTask(q) => container' = container \/ StopReturns(q) \/ WaitReturns(q) \/ DeleteReturns(q)
      BY DEF HeartbeatTask, HeartbeatTimeout, HeartbeatStep, LostAudited, CrashedAudited, dockerVars
    <2>2. RunnerEvent(q) => container' = container \/ container' = [container EXCEPT ![q] = "exited"]
      BY DEF RunnerEvent, ContainerExits, CacheExpires, BeforeToolCall, ToolCallDecided, AfterToolCall,
         dockerVars
    <2>3. QED
      BY <1>1, <1>3, <1>5, <1>8, <2>1, <2>2 DEF TypeOK
  <1>9. PICK p \in Posts : PostStep(p)
    BY <1>6, <1>7, <1>8 DEF Next
  <1>10. container' = container \/ container' = [container EXCEPT ![p] = "exited"] \/ SpawnReturns(p)
    BY <1>9 DEF PostStep, Begin, KillSettled, Refetch, DaemonAnswers, FirstCheckResumes, GetLock,
       LockGranted, StartSpawn, DoubleCheck, SecondCheckResumes, SpawnReturns, SpawnFails,
       SpawnAudited, dockerVars
  <1>11. SpawnReturns(p) /\ p # r => container'[r] = container[r]
    BY <1>1 DEF SpawnReturns, TypeOK
  <1>12. QED
    BY <1>1, <1>3, <1>10, <1>11 DEF TypeOK

\* The background tasks remove entries of runners that are marked dead.
LEMMA TasksRemoveDead ==
    ASSUME SafeInv, TimersCurrent, TerminateInv,
           (\E t \in Tasks : KillTask(t)) \/ (\E r \in Posts : HeartbeatTask(r)),
           NEW s \in Sessions, entries'[s] # entries[s]
    PROVE  entries'[s] = None /\ dead'[entries[s]]
  <1>1. TypeOK
    BY DEF SafeInv, TypeInv
  <1>2. ASSUME NEW r \in Posts, RemoveEntry(SessionOf[r], r) PROVE entries'[s] = None /\ entries[s] = r
    <2>1. SessionOf[r] \in Sessions /\ r # None
      BY ConstantsAssumption
    <2>2. QED
      BY <1>1, <1>2, <2>1 DEF TypeOK, RemoveEntry, Stale, registryVars
  <1>3. ASSUME NEW t \in Tasks, KillTask(t) PROVE entries'[s] = None /\ dead'[entries[s]]
    <2>1. owner[t] \in Posts /\ RemoveEntry(SessionOf[owner[t]], owner[t])
      BY <1>3, KillTaskEffect DEF KillTask, IdleTimeout, KillStep, HeartbeatStopped, EvictAudited,
         StopHeartbeat, registryVars
    <2>2. dead'[owner[t]]
      BY <1>1, <1>3, <2>1, KillTaskEffect DEF TypeOK, TimersCurrent, Terminating
    <2>3. QED
      BY <1>2, <2>1, <2>2
  <1>4. ASSUME NEW r \in Posts, HeartbeatTask(r) PROVE entries'[s] = None /\ dead'[entries[s]]
    <2>1. /\ RemoveEntry(SessionOf[r], r)
          /\ \/ hb[r] \in Terminating /\ dead' = dead
             \/ dead' = [dead EXCEPT ![r] = TRUE]
      BY <1>4 DEF HeartbeatTask, HeartbeatTimeout, HeartbeatStep, LostAudited, CrashedAudited,
         CrashCallback, registryVars, Terminating
    <2>2. dead'[r]
      BY <1>1, <2>1 DEF TypeOK, TerminateInv
    <2>3. QED
      BY <1>2, <2>1, <2>2
  <1>5. QED
    BY <1>3, <1>4

\* What a POST that is alone in its session does to the entry, the cache and its local state.
LEMMA PostStepLive ==
    ASSUME SafeInv, LiveInv, OneClient, NEW p \in Posts, PostStep(p)
    PROVE  /\ \A s \in Sessions \ {SessionOf[p]} : entries'[s] = entries[s]
           /\ \/ entries' = entries
              \/ entries'[SessionOf[p]] = None /\ NotLive(entries[SessionOf[p]])
              \/ entries'[SessionOf[p]] = None /\ entries[SessionOf[p]] = None
              \/ SpawnReturns(p)
           /\ \A r \in Posts : cache'[r] = "dead" => cache[r] = "dead" \/ (NotLive(r) /\ hb[r] # "none")
           /\ pc'[p] \in Probing => entries' = entries /\ hb[ent'[p]] # "none" /\ entries[SessionOf[p]] \in {ent'[p], None}
           /\ pc'[p] \in {"answered1", "answered2"} /\ ~answer'[p] => NotLive(ent'[p])
           /\ pc'[p] = "spawning" => entries' = entries /\ (entries[SessionOf[p]] = None \/ NotLive(entries[SessionOf[p]]))
           /\ \A q \in Posts \ {p} : answer'[q] = answer[q]
  <1>1. TypeOK /\ SessionOf[p] \in Sessions /\ entries[SessionOf[p]] \in Posts \cup {None}
    BY ConstantsAssumption DEF SafeInv, TypeInv, TypeOK
  <1>2. entries[SessionOf[p]] # None => hb[entries[SessionOf[p]]] # "none"
    BY <1>1 DEF SafeInv, RegistrySound
  <1>3. pc[p] \in Probing => ent[p] \in Posts /\ hb[ent[p]] # "none" /\ entries[SessionOf[p]] \in {ent[p], None}
    BY DEF SafeInv, TypeInv, ProbesAnEntry, LiveInv
  <1>4. entries[SessionOf[p]] # None /\ KnownDead(entries[SessionOf[p]]) => NotLive(entries[SessionOf[p]])
    BY <1>1 DEF KnownDead, LiveInv, NotLive
  <1>5. ASSUME NEW e \in Posts, NEW a \in BOOLEAN, CacheAnswer(e, a), ~a => NotLive(e) /\ hb[e] # "none"
        PROVE  \A r \in Posts : cache'[r] = "dead" => cache[r] = "dead" \/ (NotLive(r) /\ hb[r] # "none")
    BY <1>1, <1>5 DEF CacheAnswer, TypeOK
  <1>6. ASSUME RemoveEntry(SessionOf[p], None)
        PROVE  entries'[SessionOf[p]] = None /\ \A s \in Sessions \ {SessionOf[p]} : entries'[s] = entries[s]
    BY <1>1, <1>6 DEF RemoveEntry, Stale, TypeOK
  <1>7. CASE Begin(p) \/ KillSettled(p) \/ GetLock(p) \/ LockGranted(p) \/ SpawnFails(p) \/ SpawnAudited(p)
    BY <1>1, <1>7 DEF Begin, KillSettled, GetLock, LockGranted, SpawnFails, SpawnAudited, Return,
       registryVars, TypeOK, Probing
  <1>8. CASE SpawnReturns(p)
    BY <1>1, <1>8 DEF SpawnReturns, TypeOK, Probing
  <1>9. CASE DaemonAnswers(p)
    <2>1. answer' = [answer EXCEPT ![p] = container[ent[p]] = "running"] /\ ent' = ent
      BY <1>9 DEF DaemonAnswers, OneClient
    <2>2. UNCHANGED <<entries, cache>> /\ pc[p] \in Probing /\ pc'[p] \in Probing
      BY <1>1, <1>9 DEF DaemonAnswers, registryVars, Probing, TypeOK
    <2>3. ~answer'[p] => NotLive(ent'[p])
      BY <1>1, <2>1 DEF NotLive, TypeOK
    <2>4. \A q \in Posts \ {p} : answer'[q] = answer[q]
      BY <1>1, <2>1 DEF TypeOK
    <2>5. pc'[p] # "spawning"
      BY <2>2 DEF Probing
    <2>6. QED
      BY <1>3, <2>1, <2>2, <2>3, <2>4, <2>5
  <1>10. CASE Refetch(p)
    <2> DEFINE e == entries[SessionOf[p]]
    <2>1. CASE e = None \/ KnownAlive(e)
      <3>1. \/ /\ UNCHANGED <<registryVars, answer, cache>> /\ pc' = [pc EXCEPT ![p] = "getlock"]
            \/ Return(p, e) /\ UNCHANGED <<registryVars, cache>>
        BY <1>10, <2>1 DEF Refetch, KnownAlive, KnownDead
      <3>2. QED
        BY <1>1, <3>1 DEF Return, registryVars, TypeOK, Probing
    <2>2. CASE e # None /\ ~KnownAlive(e) /\ KnownDead(e)
      <3>1. /\ CacheAnswer(e, FALSE) /\ RemoveEntry(SessionOf[p], None)
            /\ pc' = [pc EXCEPT ![p] = "getlock"] /\ answer' = answer
        BY <1>10, <2>2 DEF Refetch
      <3>2. QED
        BY <1>1, <1>2, <1>4, <1>5, <1>6, <2>2, <3>1 DEF TypeOK, Probing
    <2>3. CASE e # None /\ ~KnownAlive(e) /\ ~KnownDead(e)
      <3>1. /\ UNCHANGED <<entries, cache, answer>>
            /\ pc' = [pc EXCEPT ![p] = "probe1"] /\ ent' = [ent EXCEPT ![p] = e]
        BY <1>10, <2>3 DEF Refetch, registryVars
      <3>2. QED
        BY <1>1, <1>2, <2>3, <3>1 DEF TypeOK
    <2>4. QED
      BY <2>1, <2>2, <2>3
  <1>11. CASE DoubleCheck(p)
    <2> DEFINE e == entries[SessionOf[p]]
    <2>0. entries' = entries
      BY <1>11 DEF DoubleCheck, registryVars
    <2>1. CASE e = None \/ KnownAlive(e)
      <3>1. (e = None /\ StartSpawn(p) /\ cache' = cache) \/ (Return(p, e) /\ cache' = cache)
        BY <1>11, <2>1 DEF DoubleCheck, KnownAlive, KnownDead
      <3>2. QED
        BY <1>1, <2>0, <3>1 DEF StartSpawn, Return, TypeOK, Probing
    <2>2. CASE e # None /\ ~KnownAlive(e) /\ KnownDead(e)
      <3>1. CacheAnswer(e, FALSE) /\ StartSpawn(p)
        BY <1>11, <2>2 DEF DoubleCheck
      <3>2. QED
        BY <1>1, <1>2, <1>4, <1>5, <2>0, <2>2, <3>1 DEF StartSpawn, TypeOK, Probing
    <2>3. CASE e # None /\ ~KnownAlive(e) /\ ~KnownDead(e)
      <3>1. /\ UNCHANGED <<cache, answer>>
            /\ pc' = [pc EXCEPT ![p] = "probe2"] /\ ent' = [ent EXCEPT ![p] = e]
        BY <1>11, <2>3 DEF DoubleCheck
      <3>2. QED
        BY <1>1, <1>2, <2>0, <2>3, <3>1 DEF TypeOK
    <2>4. QED
      BY <2>1, <2>2, <2>3
  <1>12. CASE FirstCheckResumes(p) \/ SecondCheckResumes(p)
    <2>1. /\ pc[p] \in {"answered1", "answered2"} /\ CacheAnswer(ent[p], answer[p])
          /\ IF answer[p] THEN Return(p, ent[p]) /\ UNCHANGED registryVars
             ELSE \/ /\ RemoveEntry(SessionOf[p], None) /\ pc' = [pc EXCEPT ![p] = "getlock"]
                     /\ answer' = answer
                  \/ StartSpawn(p) /\ UNCHANGED registryVars
      BY <1>12 DEF FirstCheckResumes, SecondCheckResumes
    <2>2. /\ ent[p] \in Posts /\ hb[ent[p]] # "none" /\ entries[SessionOf[p]] \in {ent[p], None}
          /\ ~answer[p] => NotLive(ent[p])
      BY <1>3, <2>1 DEF Probing, LiveInv
    <2>3. \A r \in Posts : cache'[r] = "dead" => cache[r] = "dead" \/ (NotLive(r) /\ hb[r] # "none")
      BY <1>1, <1>5, <2>1, <2>2 DEF TypeOK
    <2>4. CASE answer[p]
      BY <1>1, <2>1, <2>3, <2>4 DEF Return, registryVars, TypeOK, Probing
    <2>5. CASE ~answer[p] /\ RemoveEntry(SessionOf[p], None) /\ pc' = [pc EXCEPT ![p] = "getlock"]
               /\ answer' = answer
      BY <1>1, <1>6, <2>2, <2>3, <2>5 DEF TypeOK, Probing
    <2>6. CASE ~answer[p] /\ StartSpawn(p) /\ UNCHANGED registryVars
      BY <1>1, <2>2, <2>3, <2>6 DEF StartSpawn, registryVars, TypeOK, Probing
    <2>7. QED
      BY <2>1, <2>4, <2>5, <2>6
  <1>13. QED
    BY <1>7, <1>8, <1>9, <1>10, <1>11, <1>12 DEF PostStep

LEMMA NextLive ==
    ASSUME SafeInv, ZombieInv, TimersCurrent, TerminateInv, LiveInv, OneClient, Next PROVE LiveInv'
  <1>1. TypeOK /\ TypeOK' /\ \A p \in Posts : SessionOf[p] \in Sessions
    BY NextType, ConstantsAssumption DEF SafeInv, TypeInv
  <1>2. \A r \in Posts : hb[r] # "none" => hb'[r] # "none"
    BY NextHb DEF SafeInv
  <1>3. \A r \in Posts : NotLive(r) /\ hb[r] # "none" => NotLive(r)'
    BY LifeStarts DEF SafeInv, RegistrySound, SpawnReturns
  <1>4. \A p \in Posts : pc[p] \in Probing => ent[p] \in Posts /\ hb[ent[p]] # "none"
    BY DEF SafeInv, TypeInv, ProbesAnEntry, LiveInv
  <1>5. \A s \in Sessions : entries[s] # None => entries[s] \in Posts /\ hb[entries[s]] # "none"
    BY <1>1 DEF TypeOK, SafeInv, RegistrySound
  <1>6. CASE \E p \in Posts : PostStep(p)
    <2>1. PICK p \in Posts : PostStep(p)
      BY <1>6
    <2>2. \A q \in Posts \ {p} : pc'[q] = pc[q] /\ ent'[q] = ent[q] /\ answer'[q] = answer[q]
      BY <1>1, <2>1, PostStepLocal, PostStepLive
    <2>3. \A q \in Posts \ {p} : SessionOf[q] = SessionOf[p] => ~Waiting(q)
      <3>1. CASE Begin(p)
        BY <3>1 DEF Begin, OneClient, Waiting
      <3>2. CASE ~Begin(p)
        <4>1. Waiting(p)
          BY <2>1, <3>2 DEF PostStep, KillSettled, Refetch, DaemonAnswers, FirstCheckResumes, GetLock,
             LockGranted, DoubleCheck, SecondCheckResumes, SpawnReturns, SpawnFails, SpawnAudited,
             Waiting, Settled
        <4>2. QED
          BY <4>1 DEF LiveInv
      <3>3. QED
        BY <3>1, <3>2
    <2>4. \A q \in Posts \ {p} : SessionOf[q] = SessionOf[p] => ~Waiting(q)' /\ pc'[q] \notin Probing \cup {"spawning"}
      BY <2>2, <2>3 DEF Waiting, Settled, Probing
    <2>5. \A q \in Posts \ {p} : SessionOf[q] # SessionOf[p] => entries'[SessionOf[q]] = entries[SessionOf[q]]
      BY <1>1, <2>1, PostStepLive
    <2>6. \A q, r \in Posts : SessionOf[q] = SessionOf[r] /\ Waiting(q)' /\ Waiting(r)' => q = r
      <3>1. ASSUME NEW q \in Posts, NEW r \in Posts, SessionOf[q] = SessionOf[r], Waiting(q)', Waiting(r)', q # r
            PROVE  FALSE
        <4>1. CASE q = p \/ r = p
          BY <2>4, <3>1, <4>1
        <4>2. CASE q # p /\ r # p
          <5>1. Waiting(q) /\ Waiting(r)
            BY <2>2, <3>1, <4>2 DEF Waiting
          <5>2. QED
            BY <3>1, <5>1 DEF LiveInv
        <4>3. QED
          BY <4>1, <4>2
      <3>2. QED
        BY <3>1
    <2>7. ASSUME NEW q \in Posts, pc'[q] \in Probing
          PROVE  hb'[ent'[q]] # "none" /\ entries'[SessionOf[q]] \in {ent'[q], None}
      <3>1. CASE q = p
        <4>1. ent'[p] \in Posts
          BY <2>7, <3>1, NextProbes DEF SafeInv, ProbesAnEntry
        <4>2. QED
          BY <1>2, <2>1, <2>7, <3>1, <4>1, PostStepLive
      <3>2. CASE q # p
        BY <1>2, <1>4, <2>2, <2>4, <2>5, <2>7, <3>2 DEF LiveInv
      <3>3. QED
        BY <3>1, <3>2
    <2>8. ASSUME NEW q \in Posts, pc'[q] \in {"answered1", "answered2"}, ~answer'[q]
          PROVE  (container'[ent'[q]] # "running" \/ dead'[ent'[q]])
      <3>1. ent'[q] \in Posts /\ pc'[q] \in Probing
        BY <2>8, NextProbes DEF SafeInv, ProbesAnEntry, Probing
      <3>2. NotLive(ent'[q]) /\ hb[ent'[q]] # "none"
        BY <1>4, <2>1, <2>2, <2>8, <3>1, PostStepLive DEF LiveInv, Probing
      <3>3. PICK e \in Posts : e = ent'[q]
        BY <3>1
      <3>4. QED
        BY <1>3, <3>2, <3>3 DEF NotLive
    <2>9. ASSUME NEW r \in Posts, cache'[r] = "dead" PROVE NotLive(r)' /\ hb'[r] # "none"
      BY <1>2, <1>3, <2>1, <2>9, PostStepLive DEF LiveInv
    <2>10. ASSUME NEW q \in Posts, pc'[q] = "spawning"
           PROVE  entries'[SessionOf[q]] = entries[SessionOf[q]]
                  /\ (entries[SessionOf[q]] = None \/ NotLive(entries[SessionOf[q]]))
      <3>1. CASE q = p
        BY <2>1, <2>10, <3>1, PostStepLive
      <3>2. CASE q # p
        BY <2>2, <2>4, <2>5, <2>10, <3>2 DEF LiveInv
      <3>3. QED
        BY <3>1, <3>2
    <2>11. ASSUME NEW r \in Posts, ~NotLive(r)' PROVE entries'[SessionOf[r]] = r
      <3>1. CASE SpawnReturns(r)
        BY <1>1, <3>1 DEF SpawnReturns, TypeOK
      <3>2. CASE ~SpawnReturns(r)
        <4>1. ~NotLive(r) /\ entries[SessionOf[r]] = r
          BY <2>11, <3>2, LifeStarts DEF LiveInv
        <4>2. SpawnReturns(p) => SessionOf[p] # SessionOf[r]
          BY <4>1, ConstantsAssumption DEF SpawnReturns, LiveInv
        <4>3. CASE SessionOf[p] # SessionOf[r]
          BY <1>1, <2>1, <4>1, <4>3, PostStepLive
        <4>4. CASE SessionOf[p] = SessionOf[r]
          BY <2>1, <4>1, <4>2, <4>4, PostStepLive, ConstantsAssumption
        <4>5. QED
          BY <4>3, <4>4
      <3>3. QED
        BY <3>1, <3>2
    <2>12. \A q \in Posts : pc'[q] = "spawning" => entries'[SessionOf[q]] = None \/ (container'[entries'[SessionOf[q]]] # "running" \/ dead'[entries'[SessionOf[q]]])
      <3>1. ASSUME NEW q \in Posts, pc'[q] = "spawning", entries'[SessionOf[q]] # None
            PROVE  (container'[entries'[SessionOf[q]]] # "running" \/ dead'[entries'[SessionOf[q]]])
        <4>1. PICK e \in Posts : e = entries[SessionOf[q]] /\ hb[e] # "none"
          BY <1>1, <1>5, <2>10, <3>1
        <4>2. NotLive(e)' /\ entries'[SessionOf[q]] = e
          BY <1>3, <2>10, <3>1, <4>1
        <4>3. QED
          BY <4>2 DEF NotLive
      <3>2. QED
        BY <3>1
    <2>13. QED
      BY <2>6, <2>7, <2>8, <2>9, <2>11, <2>12 DEF LiveInv, NotLive
  <1>7. CASE ~(\E p \in Posts : PostStep(p))
    <2>1. /\ UNCHANGED <<ent, answer>>
          /\ \A p \in Posts : pc'[p] = pc[p] \/ (pc'[p] \in {"finished", "errored"})
          /\ \A r \in Posts : cache'[r] = "dead" => cache[r] = "dead"
      <3>1. ASSUME NEW p \in Posts, RunEnds(p)
            PROVE  /\ UNCHANGED <<ent, answer, cache>>
                   /\ \E x \in {"finished", "errored"} : pc' = [pc EXCEPT ![p] = x]
        BY <3>1 DEF RunEnds, RunFinished, RunErrored
      <3>2. ASSUME NEW t \in Tasks, KillTask(t) PROVE UNCHANGED <<ent, answer, cache, pc>>
        BY <3>2, KillTaskEffect DEF postVars
      <3>3. ASSUME NEW r \in Posts, HeartbeatTask(r) \/ RunnerEvent(r) PROVE UNCHANGED <<ent, answer, pc>>
        BY <3>3, OthersLeaveTasks DEF postVars
      <3>4. QED
        BY <1>1, <1>7, <3>1, <3>2, <3>3, OthersLeaveTasks DEF Next, TypeOK
    <2>2. \A s \in Sessions : entries'[s] = entries[s]
                              \/ (entries'[s] = None /\ entries[s] \in Posts /\ dead'[entries[s]])
      <3>1. ((\E p \in Posts : RunEnds(p)) \/ (\E r \in Posts : RunnerEvent(r))) => entries' = entries
        BY DEF RunEnds, RunFinished, RunErrored, RunnerEvent, ContainerExits, CacheExpires,
           BeforeToolCall, ToolCallDecided, AfterToolCall, registryVars
      <3>2. ((\E t \in Tasks : KillTask(t)) \/ (\E r \in Posts : HeartbeatTask(r)))
              => \A s \in Sessions : entries'[s] # entries[s] => entries'[s] = None /\ dead'[entries[s]]
        BY TasksRemoveDead
      <3>3. QED
        BY <1>1, <1>7, <3>1, <3>2 DEF Next, TypeOK
    <2>3. \A p, q \in Posts : SessionOf[p] = SessionOf[q] /\ Waiting(p)' /\ Waiting(q)' => p = q
      BY <2>1 DEF LiveInv, Waiting, Settled
    <2>4. \A p \in Posts : pc'[p] \in Probing \cup {"spawning"} => pc'[p] = pc[p]
      BY <2>1 DEF Probing
    <2>5. \A p \in Posts : pc'[p] \in Probing => hb'[ent[p]] # "none" /\ entries'[SessionOf[p]] \in {ent[p], None}
      BY <1>1, <1>2, <1>4, <2>2, <2>4 DEF LiveInv
    <2>6. \A p \in Posts : pc'[p] \in {"answered1", "answered2"} /\ ~answer[p] => (container'[ent'[p]] # "running" \/ dead'[ent'[p]])
      <3>1. ASSUME NEW p \in Posts, pc'[p] \in {"answered1", "answered2"}, ~answer[p] PROVE (container'[ent'[p]] # "running" \/ dead'[ent'[p]])
        <4>1. PICK e \in Posts : e = ent[p] /\ NotLive(e) /\ hb[e] # "none"
          BY <1>4, <2>4, <3>1 DEF LiveInv, Probing
        <4>2. NotLive(e)'
          BY <1>3, <4>1
        <4>3. QED
          BY <2>1, <4>1, <4>2 DEF NotLive
      <3>2. QED
        BY <3>1
    <2>7. \A r \in Posts : cache'[r] = "dead" => NotLive(r)' /\ hb'[r] # "none"
      BY <1>2, <1>3, <2>1 DEF LiveInv
    <2>8. ASSUME NEW p \in Posts, pc'[p] = "spawning", entries'[SessionOf[p]] # None
          PROVE  (container'[entries'[SessionOf[p]]] # "running" \/ dead'[entries'[SessionOf[p]]])
      <3>1. PICK e \in Posts : e = entries[SessionOf[p]] /\ hb[e] # "none" /\ NotLive(e)
        BY <1>1, <1>5, <2>2, <2>4, <2>8 DEF LiveInv
      <3>2. NotLive(e)' /\ entries'[SessionOf[p]] = e
        BY <1>1, <1>3, <2>2, <2>8, <3>1
      <3>3. QED
        BY <3>2 DEF NotLive
    <2>9. ASSUME NEW r \in Posts, ~NotLive(r)' PROVE entries'[SessionOf[r]] = r
      <3>1. ~SpawnReturns(r)
        BY <1>7 DEF PostStep
      <3>2. entries[SessionOf[r]] = r /\ ~dead'[r]
        BY <2>9, <3>1, LifeStarts DEF LiveInv, NotLive
      <3>3. QED
        BY <1>1, <2>2, <3>2
    <2>10. QED
      BY <2>1, <2>3, <2>5, <2>6, <2>7, <2>8, <2>9 DEF LiveInv, NotLive
  <1>8. QED
    BY <1>6, <1>7

\* A client that posts one message after the other never has two live containers for its
\* session: a runner that still runs beside another has been marked dead, by a terminate
\* that is under way or was cut short by a RUN_FINISHED.
THEOREM SessionHasOneLiveContainer == OneClient => (Spec => []OneLiveContainer)
  <1> SUFFICES ASSUME OneClient PROVE Spec => []OneLiveContainer
    OBVIOUS
  <1>1. SafeInv /\ ZombieInv /\ TimerInv /\ TerminateInv /\ [Next]_vars => TerminateInv'
    <2>1. ASSUME TerminateInv, UNCHANGED vars PROVE TerminateInv'
      BY <2>1 DEF TerminateInv, Terminator, Evicted, vars, dockerVars, warmVars
    <2>2. QED
      BY <2>1, NextTerminate DEF TimerInv
  <1>2. SafeInv /\ ZombieInv /\ TimerInv /\ TerminateInv /\ LiveInv /\ [Next]_vars => LiveInv'
    <2>1. ASSUME LiveInv, UNCHANGED vars PROVE LiveInv'
      BY <2>1 DEF LiveInv, NotLive, Waiting, vars, registryVars, postVars, dockerVars
    <2>2. QED
      BY <2>1, NextLive DEF TimerInv
  <1>3. LiveInv => OneLiveContainer
    BY DEF LiveInv, NotLive, OneLiveContainer
  <1>4. QED
    BY TimersHold, InitTimer, <1>1, <1>2, <1>3, PTL DEF Spec
=============================================================================
