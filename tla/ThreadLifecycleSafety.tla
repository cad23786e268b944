------------------------ MODULE ThreadLifecycleSafety ------------------------
(***************************************************************************)
(* Safety theorems about ThreadLifecycle.  The first part holds for every  *)
(* program, the second for programs whose threads end themselves.          *)
(***************************************************************************)
EXTENDS ThreadLifecycleProofs, SequenceTheorems

-----------------------------------------------------------------------------
(* The vector of threads.                                                  *)

\* Only addThread() and removeThread() touch m_threads and the life of a
\* Thread object.
LEMMA RegistrySteps ==
    ASSUME [Next]_vars
    PROVE  \/ UNCHANGED <<m_threads, life>>
           \/ \E t \in Thread : /\ life[t] = "new" /\ AppLockFree
                                /\ m_threads' = Append(m_threads, t)
                                /\ life' = [life EXCEPT ![t] = "live"]
                                /\ UNCHANGED <<appQueue, stopVars>>
           \/ \E t \in Thread : AppRemoves(t)
<1> USE DEF appVars, stopVars, flagVars, startVars
<1>1. CASE UNCHANGED vars
  BY <1>1 DEF vars
<1>2. ASSUME NEW t \in Thread, AddPaused(t) \/ AddStarted(t) \/ EndStart(t)
      PROVE  \/ UNCHANGED <<m_threads, life>>
             \/ \E u \in Thread : /\ life[u] = "new" /\ AppLockFree
                                  /\ m_threads' = Append(m_threads, u)
                                  /\ life' = [life EXCEPT ![u] = "live"]
                                  /\ UNCHANGED <<appQueue, stopVars>>
  BY <1>2 DEF AddPaused, AddStarted, EndStart
<1>3. ASSUME NEW r \in Run, RunStep(r)
      PROVE  UNCHANGED <<m_threads, life>>
  BY <1>3 DEF RunStep, RunPostBeforeWork, RunPostWork, RunLoop, RunReadsNullThread,
     RunExec, RunTick, RunMarkDeleting, RunShutdownWorker, RunTerminatesItself, RunResetWorker,
     RunClearReady, RunQuit, RunPunts, RunHandlerPunts, RunUnlock, RunLogsNullWorker,
         RunOnFreed
<1>4. ASSUME AppStep
      PROVE  UNCHANGED <<m_threads, life>> \/ \E t \in Thread : AppRemoves(t)
  BY <1>4 DEF AppStep, AppRefusesToRemove, AppRemovesAgain, AppGetsStuck, AppThreadsGone, AppShutdown,
     StopBegins, StopAsksForWorker, StopReadsStaleSlot, StopReadsType,
     StopReadsNullWorker, StopTerminates, StopAsksIfStarted, StopQuits, StopPunts,
     StopReadsDeleting, StopJoins, StopNextType
<1>5. ASSUME NEW type \in {"Close", "Shutdown"}, Outside(type)
      PROVE  UNCHANGED <<m_threads, life>>
  BY <1>5 DEF Outside
<1> QED BY <1>1, <1>2, <1>3, <1>4, <1>5 DEF Next

\* Everything but t is still in the vector after std::remove.
LEMMA SlotsKept ==
    ASSUME m_threads \in Seq(Thread), NEW t, NEW u \in Slots, u # t,
           m_threads' = StdRemove(m_threads, t)
    PROVE  u \in Slots'
<1>1. PICK i \in 1 .. Len(m_threads) : m_threads[i] = u
  BY DEF Slots
<1>2. PICK k \in 1 .. Len(m_threads) : StdRemove(m_threads, t)[k] = m_threads[i]
  BY <1>1, StdRemoveKeeps
<1>3. Len(StdRemove(m_threads, t)) = Len(m_threads)
  BY StdRemoveKeeps
<1> QED BY <1>1, <1>2, <1>3 DEF Slots

LEMMA LiveThreadsListedStep ==
    TypeOK /\ LiveThreadsListed /\ [Next]_vars => LiveThreadsListed'
<1> SUFFICES ASSUME TypeOK, LiveThreadsListed, [Next]_vars,
                    NEW u \in Thread, life'[u] = "live"
             PROVE  u \in Slots'
  BY DEF LiveThreadsListed
<1> m_threads \in Seq(Thread) /\ Len(m_threads) \in Nat
  BY DEF TypeOK
<1>1. CASE UNCHANGED <<m_threads, life>>
  BY <1>1 DEF LiveThreadsListed, Slots
<1>2. ASSUME NEW t \in Thread, m_threads' = Append(m_threads, t),
             life' = [life EXCEPT ![t] = "live"]
      PROVE  u \in Slots'
  <2>1. /\ Len(m_threads') = Len(m_threads) + 1
        /\ m_threads'[Len(m_threads) + 1] = t
        /\ \A i \in 1 .. Len(m_threads) : m_threads'[i] = m_threads[i]
    BY <1>2
  <2>2. CASE u = t
    BY <2>1, <2>2 DEF Slots
  <2>3. CASE u # t
    <3>1. life[u] = "live"
      BY <1>2, <2>3 DEF TypeOK
    <3>2. PICK i \in 1 .. Len(m_threads) : m_threads[i] = u
      BY <3>1 DEF LiveThreadsListed, Slots
    <3> QED BY <2>1, <3>2 DEF Slots
  <2> QED BY <2>2, <2>3
<1>3. ASSUME NEW t \in Thread, AppRemoves(t)
      PROVE  u \in Slots'
  <2>1. u # t /\ life[u] = "live"
    BY <1>3 DEF AppRemoves, TypeOK
  <2>2. u \in Slots
    BY <2>1 DEF LiveThreadsListed
  <2> QED BY <1>3, <2>1, <2>2, SlotsKept DEF AppRemoves
<1> QED BY <1>1, <1>2, <1>3, RegistrySteps

\* std::remove loses nobody: an added thread that was not deleted is in
\* m_threads, whatever calls are made.
THEOREM LiveThreadsStayListed == Spec => []LiveThreadsListed
<1>1. Init => LiveThreadsListed
  BY DEF Init, LiveThreadsListed
<1>2. TypeOK /\ LiveThreadsListed /\ [Next]_vars => LiveThreadsListed'
  BY LiveThreadsListedStep
<1> QED BY <1>1, <1>2, TypeCorrect, PTL DEF Spec

\* removeThread() announces ThreadsGone only when no added thread is left.
THEOREM GoneIsTrue == Spec => GoneMeansNoneLeft
<1> DEFINE Gone == AppEvent("ThreadsGone")
           Announces == /\ appQueue # <<>> /\ appQueue' # appQueue
                        /\ appQueue' = Append(Tail(appQueue), Gone)
<1>1. ASSUME TypeOK, LiveThreadsListed, Next, Announces
      PROVE  \E t \in Thread : AppRemoves(t) /\ Distance(m_threads, t) = 0
  <2> USE DEF appVars, stopVars, flagVars, startVars, Unchanged_App
  <2>0. /\ appQueue \in Seq(AppEvents) /\ appQueue # <<>>
        /\ Len(appQueue') = Len(appQueue)
        /\ appQueue'[Len(appQueue)] = Gone
        /\ Len(Tail(appQueue)) # Len(appQueue)
        /\ \A e : Len(Append(appQueue, e)) # Len(appQueue)
    <3>1. appQueue \in Seq(AppEvents) /\ appQueue # <<>>
      BY <1>1 DEF TypeOK
    <3>2. /\ Len(appQueue) \in Nat \ {0} /\ Len(Tail(appQueue)) = Len(appQueue) - 1
          /\ Tail(appQueue) \in Seq(AppEvents)
      BY <3>1
    <3>3. Len(appQueue') = Len(appQueue) /\ appQueue'[Len(appQueue)] = Gone
      <4>1. appQueue' = Append(Tail(appQueue), Gone) /\ Gone \in AppEvents
        BY <1>1, AppEventsTyped
      <4> HIDE DEF Gone
      <4>2. /\ Len(appQueue') = Len(Tail(appQueue)) + 1
            /\ appQueue'[Len(Tail(appQueue)) + 1] = Gone
        BY <3>2, <4>1, AppendProperties
      <4> QED BY <3>2, <4>2
    <3>4. \A e : Len(Append(appQueue, e)) # Len(appQueue)
      BY <1>1 DEF TypeOK
    <3>5. Len(Tail(appQueue)) # Len(appQueue)
      <4> DEFINE n == Len(appQueue)
                 m == Len(Tail(appQueue))
      <4>1. n \in Nat /\ m = n - 1
        BY <3>2, Zenon
      <4> HIDE DEF n, m
      <4>2. m # n
        BY <4>1
      <4> QED BY <4>2 DEF n, m
    <3> QED BY <3>1, <3>3, <3>4, <3>5, Zenon
  <2>1. ASSUME NEW t \in Thread, AddPaused(t) \/ AddStarted(t) \/ EndStart(t)
        PROVE  FALSE
    BY <1>1, <2>1 DEF AddPaused, AddStarted, EndStart
  <2>2. ASSUME NEW r \in Run, RunStep(r)
        PROVE  FALSE
    <3>1. appQueue' = appQueue \/ \E e : appQueue' = Append(appQueue, e)
      BY <2>2 DEF RunStep, RunPostBeforeWork, RunPostWork, RunLoop, RunReadsNullThread,
         RunExec, RunTick, RunMarkDeleting, RunShutdownWorker, RunTerminatesItself, RunResetWorker,
         RunClearReady, RunQuit, RunPunts, RunHandlerPunts, RunUnlock, RunLogsNullWorker,
         RunOnFreed, Post
    <3> QED BY <1>1, <2>0, <3>1, Zenon
  <2>3. CASE AppStep
    <3>1. \/ appQueue' = appQueue \/ appQueue' = Tail(appQueue)
          \/ \E e : appQueue' = Append(appQueue, e)
          \/ AppThreadsGone \/ \E t \in Thread : AppRemoves(t)
      BY <2>3 DEF AppStep, AppRefusesToRemove, AppRemovesAgain, AppGetsStuck, AppShutdown,
         StopBegins, StopAsksForWorker, StopReadsStaleSlot, StopReadsType,
         StopReadsNullWorker, StopTerminates, StopAsksIfStarted, StopQuits, StopPunts,
         StopReadsDeleting, StopJoins, StopNextType, Post
    <3>2. ~AppThreadsGone
      <4> SUFFICES ASSUME AppThreadsGone PROVE FALSE
        OBVIOUS
      <4>1. appQueue' = Append(Tail(appQueue), AppEvent("Shutdown"))
        BY DEF AppThreadsGone
      <4>2. appQueue'[Len(appQueue)] = AppEvent("Shutdown")
        <5> DEFINE q == Tail(appQueue)
        <5>1. q \in Seq(AppEvents) /\ Len(q) + 1 = Len(appQueue)
          BY <2>0
        <5>2. Append(q, AppEvent("Shutdown"))[Len(q) + 1] = AppEvent("Shutdown")
          BY <5>1, AppEventsTyped
        <5> QED BY <4>1, <5>1, <5>2
      <4> QED BY <2>0, <4>2 DEF AppEvent
    <3>3. PICK t \in Thread : AppRemoves(t)
      BY <1>1, <2>0, <3>1, <3>2, Zenon
    <3>4. Distance(m_threads, t) = 0
      BY <2>0, <3>3 DEF AppRemoves
    <3> QED BY <3>3, <3>4
  <2>4. ASSUME NEW type \in {"Close", "Shutdown"}, Outside(type)
        PROVE  FALSE
    BY <1>1, <2>0, <2>4, Zenon DEF Outside, Post
  <2> QED BY <1>1, <2>1, <2>2, <2>3, <2>4 DEF Next
<1>2. TypeOK /\ LiveThreadsListed /\ [Next]_vars
      => [Announces => \A t \in Thread : life'[t] # "live"]_vars
  <2> SUFFICES ASSUME TypeOK, LiveThreadsListed, Next, Announces, NEW u \in Thread
               PROVE  life'[u] # "live"
    BY DEF vars, appVars
  <2>1. PICK t \in Thread : AppRemoves(t) /\ Distance(m_threads, t) = 0
    BY <1>1
  <2>2. \A i \in 1 .. Len(m_threads) : m_threads[i] = t
    BY <2>1, DistanceZero DEF TypeOK
  <2>3. u # t => life[u] # "live"
    BY <2>2 DEF LiveThreadsListed, Slots
  <2> QED BY <2>1, <2>3 DEF AppRemoves, TypeOK
<1> QED BY <1>2, TypeCorrect, LiveThreadsStayListed, PTL DEF Spec, GoneMeansNoneLeft

-----------------------------------------------------------------------------
(* Application::stop.                                                      *)

\* While stop() is under way the threads it has selected are not deleted.
StopInv ==
    /\ apc \in {"scan", "type", "wait", "quit", "punt", "waitDeleting", "join"} =>
           \A i \in 1 .. Len(stopSel) : life[stopSel[i]] = "live"
    /\ apc = "type" => life[m_threads[stopPos]] = "live"

LEMMA StopInvStep == TypeOK /\ StopInv /\ [Next]_vars => StopInv'
<1> SUFFICES ASSUME TypeOK, StopInv, [Next]_vars
             PROVE  StopInv'
  OBVIOUS
<1> USE DEF appVars, stopVars, flagVars, startVars
<1>1. ASSUME UNCHANGED <<m_threads, life>>, UNCHANGED stopVars
      PROVE  StopInv'
  BY <1>1 DEF StopInv
<1>2. CASE UNCHANGED vars
  BY <1>1, <1>2 DEF vars
<1>3. ASSUME NEW t \in Thread, AddPaused(t) \/ AddStarted(t)
      PROVE  StopInv'
  <2>1. /\ life[t] = "new" /\ life' = [life EXCEPT ![t] = "live"]
        /\ apc # "type" /\ UNCHANGED stopVars
    BY <1>3 DEF AddPaused, AddStarted, AppLockFree
  <2>2. \A i \in 1 .. Len(stopSel) : stopSel[i] \in Thread
    BY DEF TypeOK
  <2> QED BY <2>1, <2>2 DEF StopInv, TypeOK
<1>4. ASSUME NEW t \in Thread, EndStart(t)
      PROVE  StopInv'
  BY <1>1, <1>4 DEF EndStart
<1>5. ASSUME NEW r \in Run, RunStep(r)
      PROVE  StopInv'
  <2>1. UNCHANGED <<m_threads, life, stopVars>>
    BY <1>5 DEF RunStep, RunPostBeforeWork, RunPostWork, RunLoop, RunReadsNullThread,
       RunExec, RunTick, RunMarkDeleting, RunShutdownWorker, RunTerminatesItself, RunResetWorker,
       RunClearReady, RunQuit, RunPunts, RunHandlerPunts, RunUnlock, RunLogsNullWorker,
         RunOnFreed
  <2> QED BY <1>1, <2>1
<1>6. ASSUME NEW type \in {"Close", "Shutdown"}, Outside(type)
      PROVE  StopInv'
  BY <1>1, <1>6 DEF Outside
<1>7. CASE AppStep
  <2>1. ASSUME NEW t \in Thread,
               \/ AppRemoves(t) \/ AppRefusesToRemove(t)
               \/ AppRemovesAgain(t) \/ AppGetsStuck(t)
        PROVE  StopInv'
    BY <2>1 DEF AppRemoves, AppRefusesToRemove, AppRemovesAgain, AppGetsStuck, Pulls, StopInv
  <2>2. CASE AppThreadsGone \/ AppShutdown
    BY <2>2 DEF AppThreadsGone, AppShutdown, Pulls, StopInv
  <2>3. CASE StopBegins
    BY <2>3 DEF StopBegins, ScanFrom, StopInv
  <2>4. CASE StopAsksForWorker
    BY <2>4 DEF StopAsksForWorker, InScan, StopInv
  <2>5. CASE StopReadsStaleSlot \/ StopReadsNullWorker
    BY <2>5 DEF StopReadsStaleSlot, StopReadsNullWorker, StopInv
  <2>6. CASE StopReadsType
    <3>1. /\ life' = life /\ apc' = "scan" /\ apc = "type"
          /\ stopSel' = stopSel \/ stopSel' = Append(stopSel, m_threads[stopPos])
      BY <2>6 DEF StopReadsType
    <3>2. life[m_threads[stopPos]] = "live" /\ m_threads[stopPos] \in Thread
      BY <3>1 DEF StopInv, TypeOK
    <3>3. \A i \in 1 .. Len(stopSel) : life[stopSel[i]] = "live"
      BY <3>1 DEF StopInv
    <3>4. stopSel \in Seq(Thread)
      BY DEF TypeOK
    <3>5. \A i \in 1 .. Len(stopSel') : life[stopSel'[i]] = "live"
      BY <3>1, <3>2, <3>3, <3>4
    <3> QED BY <3>1, <3>5 DEF StopInv
  <2>7. CASE StopTerminates \/ StopAsksIfStarted \/ StopQuits \/ StopPunts \/ StopReadsDeleting \/ StopJoins
    BY <2>7 DEF StopTerminates, StopAsksIfStarted, StopQuits, StopPunts, StopReadsDeleting, StopJoins,
       StopNext, StopGoesOn, StopInv
  <2>8. CASE StopNextType
    BY <2>8 DEF StopNextType, ScanFrom, StopInv
  <2> QED BY <1>7, <2>1, <2>2, <2>3, <2>4, <2>5, <2>6, <2>7, <2>8 DEF AppStep
<1> QED BY <1>2, <1>3, <1>4, <1>5, <1>6, <1>7 DEF Next

\* The Thread pointers that stop() copied stay valid until it returns.
THEOREM StopHolds == Spec => []StopHoldsItsThreads
<1>1. Init => StopInv
  BY DEF Init, StopInv
<1>2. TypeOK /\ StopInv /\ [Next]_vars => StopInv'
  BY StopInvStep
<1>3. StopInv => StopHoldsItsThreads
  BY DEF StopInv, StopHoldsItsThreads, Selected
<1> QED BY <1>1, <1>2, <1>3, TypeCorrect, PTL DEF Spec

-----------------------------------------------------------------------------
(* The runs of one Thread and its worker.                                  *)

\* What worker code does to the run it is in: it goes on, or starts a run of another thread.
WorkerMoves(r, next) == \E to \in {next, IF next = "reset" THEN "shutdownStuck" ELSE "stuck", StartsFrom[next]} :
    \/ m_ready' = m_ready /\ pc' = [pc EXCEPT ![r] = to]
    \/ \E u \in Thread : BeginRun(u, [pc EXCEPT ![r] = to])

\* What a worker does never takes back m_terminated, and starts at most one
\* thread.
LEMMA WorkerCodeFrame ==
    ASSUME TypeOK, NEW r \in Run, NEW q, NEW next \in {"unlock", "loop", "reset"},
           WorkerCode(r, q, next)
    PROVE  /\ \A u \in Thread : m_terminated[u] => m_terminated'[u]
           /\ WorkerMoves(r, next)
<1>1. CASE WorkerReturns(r, q, next)
  BY <1>1 DEF WorkerMoves, WorkerReturns, GoTo
<1>2. CASE WorkerTerminates(r, q, next)
  BY <1>2 DEF WorkerMoves, WorkerTerminates, GoTo, TypeOK
<1>3. CASE \E u \in Thread, kind \in {"work", "shutdown"} : WorkerSends(r, u, kind, q, next)
  BY <1>3 DEF WorkerMoves, WorkerSends, GoTo
<1>4. CASE \E u \in Thread : WorkerSendsToWorkerless(r, u, q, next)
  BY <1>4 DEF WorkerMoves, WorkerSendsToWorkerless, GoTo
<1>5. CASE \E u \in Thread : WorkerStarts(r, u, q, next)
  BY <1>5 DEF WorkerMoves, WorkerStarts
<1>6. CASE WorkerReadsStaleSlot(r, q, next)
  BY <1>6 DEF WorkerMoves, WorkerReadsStaleSlot, GoTo
<1>7. CASE WorkerGetsStuck(r, q, next)
  BY <1>7 DEF WorkerMoves, WorkerGetsStuck, GoTo
<1> QED BY <1>1, <1>2, <1>3, <1>4, <1>5, <1>6, <1>7 DEF WorkerCode

\* WorkerInv on given values of pc, m_ready, m_worker, m_deleting and
\* m_terminated.
InLoop(p, r)    == p[r] \notin {"idle", "quit", "punt", "end"}
HandsOut        == {"exec", "unlock", "tick"} \cup Handling
LeftTheLoop     == {"worker", "reset"} \cup ShuttingDown
RunsInv(p, ready, worker, leaving) ==
    /\ \A r \in Run : InLoop(p, r) => ready[r[1]]
    /\ \A r, s \in Run : InLoop(p, r) /\ InLoop(p, s) /\ r[1] = s[1] => r = s
    /\ \A r \in Run : p[r] \in HandsOut => worker[r[1]]
    /\ \A r \in Run : p[r] \in LeftTheLoop => leaving[r[1]]
    /\ \A t \in Thread : ~worker[t] => leaving[t]

\* Starting a Thread that is not ready adds its only run before m_ready = false.
LEMMA BeginRunKeeps ==
    ASSUME NEW p \in [Run -> Pc], NEW worker, NEW leaving, TypeOK,
           RunsInv(p, m_ready, worker, leaving), NEW u \in Thread, BeginRun(u, p)
    PROVE  RunsInv(pc', m_ready', worker, leaving)
<1> DEFINE n == <<u, runs[u] + 1>>
<1>1. n \in Run /\ n[1] = u
  BY ConstantsAssumption DEF BeginRun, Run, TypeOK
<1>2. /\ pc' = [p EXCEPT ![n] = "beforeWork"]
      /\ m_ready' = [m_ready EXCEPT ![u] = TRUE]
      /\ ~m_ready[u]
  BY DEF BeginRun
<1>3. \A r \in Run : r[1] \in Thread
  BY DEF Run
<1>4. \A r \in Run : InLoop(p, r) => r[1] # u
  BY <1>2 DEF RunsInv
<1>5. \A r \in Run : pc'[r] = IF r = n THEN "beforeWork" ELSE p[r]
  BY <1>2
<1>6. m_ready'[u] /\ \A t \in Thread : m_ready[t] => m_ready'[t]
  BY <1>2 DEF TypeOK
<1>7. \A r \in Run : InLoop(pc', r) => m_ready'[r[1]]
  <2> SUFFICES ASSUME NEW r \in Run, InLoop(pc', r)
               PROVE  m_ready'[r[1]]
    OBVIOUS
  <2>1. CASE r = n
    BY <1>6, <2>1
  <2>2. CASE r # n
    BY <1>3, <1>5, <1>6, <2>2 DEF RunsInv, InLoop
  <2> QED BY <2>1, <2>2
<1>8. \A r, s \in Run : InLoop(pc', r) /\ InLoop(pc', s) /\ r[1] = s[1] => r = s
  BY <1>1, <1>4, <1>5 DEF RunsInv, InLoop
<1>9. \A r \in Run : /\ pc'[r] \in HandsOut => worker[r[1]]
                     /\ pc'[r] \in LeftTheLoop => leaving[r[1]]
  BY <1>5 DEF RunsInv, HandsOut, Handling, LeftTheLoop, ShuttingDown
<1> HIDE DEF n
<1> QED BY <1>7, <1>8, <1>9 DEF RunsInv

Leaving == [t \in Thread |-> m_deleting[t] \/ m_terminated[t]]

LEMMA WorkerInvIsRunsInv == WorkerInv <=> RunsInv(pc, m_ready, m_worker, Leaving)
<1>1. \A r \in Run : r[1] \in Thread
  BY DEF Run
<1>2. \A t \in Thread : Leaving[t] <=> (m_deleting[t] \/ m_terminated[t])
  BY DEF Leaving
<1> HIDE DEF Leaving
<1> QED BY <1>1, <1>2 DEF WorkerInv, RunsInv, InLoop, Active, HandsOut, LeftTheLoop

\* Marks that are only ever set keep RunsInv.
LEMMA RunsInvGrows ==
    ASSUME NEW p, NEW ready, NEW worker, NEW before, NEW after,
           RunsInv(p, ready, worker, before),
           \A t \in Thread : before[t] => after[t]
    PROVE  RunsInv(p, ready, worker, after)
<1>1. \A r \in Run : r[1] \in Thread
  BY DEF Run
<1> QED BY <1>1 DEF RunsInv

\* A run that moves to another point of the loop, without leaving it.
LEMMA RunsInvMoves ==
    ASSUME NEW p \in [Run -> Pc], NEW ready, NEW worker, NEW leaving,
           RunsInv(p, ready, worker, leaving),
           NEW r \in Run, InLoop(p, r), NEW to,
           to \in HandsOut => worker[r[1]],
           to \in LeftTheLoop => leaving[r[1]]
    PROVE  RunsInv([p EXCEPT ![r] = to], ready, worker, leaving)
<1> DEFINE n == [p EXCEPT ![r] = to]
<1>1. \A s \in Run : n[s] = IF s = r THEN to ELSE p[s]
  OBVIOUS
<1> HIDE DEF n
<1>2. \A s \in Run : InLoop(n, s) => InLoop(p, s)
  BY <1>1 DEF InLoop
<1>3. RunsInv(n, ready, worker, leaving)
  BY <1>1, <1>2 DEF RunsInv
<1> QED BY <1>3 DEF n

LEMMA WorkerInvStep == TypeOK /\ WorkerInv /\ [Next]_vars => WorkerInv'
<1> DEFINE IInv == RunsInv(pc, m_ready, m_worker, Leaving)
<1> SUFFICES ASSUME TypeOK, IInv, [Next]_vars
             PROVE  RunsInv(pc', m_ready', m_worker', Leaving')
  <2>1. WorkerInv' <=> RunsInv(pc', m_ready', m_worker', Leaving')
    BY WorkerInvIsRunsInv DEF WorkerInv, RunsInv, InLoop, Active, HandsOut, LeftTheLoop, Leaving, Run
  <2> QED BY <2>1, WorkerInvIsRunsInv
<1> USE DEF appVars, stopVars, flagVars, startVars
<1>0. pc \in [Run -> Pc]
  BY DEF TypeOK
<1>00. ASSUME m_deleting' = m_deleting,
              \A t \in Thread : m_terminated[t] => m_terminated'[t]
       PROVE  \A t \in Thread : Leaving[t] => Leaving'[t]
  BY <1>00 DEF Leaving
<1>1. ASSUME UNCHANGED <<pc, m_ready, m_worker, m_deleting>>,
             \A t \in Thread : m_terminated[t] => m_terminated'[t]
      PROVE  RunsInv(pc', m_ready', m_worker', Leaving')
  BY <1>00, <1>1, RunsInvGrows
<1>2. CASE UNCHANGED vars
  BY <1>1, <1>2 DEF vars
<1>3. ASSUME NEW t \in Thread, AddPaused(t)
      PROVE  RunsInv(pc', m_ready', m_worker', Leaving')
  BY <1>1, <1>3 DEF AddPaused
<1>8. ASSUME NEW t \in Thread, EndStart(t)
      PROVE  RunsInv(pc', m_ready', m_worker', Leaving')
  <2>1. /\ UNCHANGED <<m_ready, m_worker, m_deleting, m_terminated>>
        /\ \A r \in Run : pc'[r] = IF pc[r] = "execStarts" THEN "unlock"
                                   ELSE IF pc[r] = "tickStarts" THEN "loop"
                                   ELSE IF pc[r] = "shutdownStarts" THEN "reset" ELSE pc[r]
    BY <1>8 DEF EndStart
  <2>2. Leaving' = Leaving
    BY <2>1 DEF Leaving
  <2>3. \A r \in Run : InLoop(pc', r) => InLoop(pc, r)
    BY <2>1 DEF InLoop
  <2>4. \A r \in Run : pc'[r] \in HandsOut => m_worker[r[1]]
    BY <2>1 DEF RunsInv, HandsOut, Handling
  <2>5. \A r \in Run : pc'[r] \in LeftTheLoop => Leaving[r[1]]
    BY <2>1 DEF RunsInv, LeftTheLoop, ShuttingDown
  <2> QED BY <2>1, <2>2, <2>3, <2>4, <2>5 DEF RunsInv
<1>4. ASSUME NEW t \in Thread, AddStarted(t)
      PROVE  RunsInv(pc', m_ready', m_worker', Leaving')
  <2>1. BeginRun(t, pc) /\ UNCHANGED <<m_deleting, m_terminated, m_worker>>
    BY <1>4 DEF AddStarted
  <2>2. RunsInv(pc', m_ready', m_worker, Leaving)
    BY <1>0, <2>1, BeginRunKeeps
  <2>3. Leaving' = Leaving
    BY <2>1 DEF Leaving
  <2> QED BY <2>1, <2>2, <2>3
<1>5. ASSUME NEW r \in Run, RunStep(r)
      PROVE  RunsInv(pc', m_ready', m_worker', Leaving')
  <2> r[1] \in Thread
    BY DEF Run
  <2>1. ASSUME NEW to, pc' = [pc EXCEPT ![r] = to], InLoop(pc, r),
               UNCHANGED <<m_ready, m_worker, m_deleting, m_terminated>>,
               to \in HandsOut => m_worker[r[1]],
               to \in LeftTheLoop => Leaving[r[1]]
        PROVE  RunsInv(pc', m_ready', m_worker', Leaving')
    <3>1. Leaving' = Leaving
      BY <2>1 DEF Leaving
    <3>2. RunsInv([pc EXCEPT ![r] = to], m_ready, m_worker, Leaving)
      BY <1>0, <2>1, RunsInvMoves
    <3> QED BY <2>1, <3>1, <3>2
  <2>2. CASE RunPostBeforeWork(r)
    BY <2>1, <2>2 DEF RunPostBeforeWork, At, GoTo, InLoop, HandsOut, Handling, LeftTheLoop,
       ShuttingDown
  <2>3. CASE RunPostWork(r)
    BY <2>1, <2>3 DEF RunPostWork, At, GoTo, InLoop, Leaving, HandsOut, Handling, LeftTheLoop, ShuttingDown
  <2>4. CASE RunLoop(r)
    <3>1. KeepsRunning(r[1]) => m_worker[r[1]]
      BY DEF KeepsRunning, RunsInv, Leaving
    <3>2. "deleting" \notin HandsOut /\ \A x \in {"exec", "unlock", "deleting"} : x \notin LeftTheLoop
      BY DEF HandsOut, Handling, LeftTheLoop, ShuttingDown
    <3> QED BY <2>1, <2>4, <3>1, <3>2 DEF RunLoop, At, GoTo, InLoop
  <2>5. CASE RunReadsNullThread(r) \/ RunLogsNullWorker(r) \/ RunOnFreed(r)
    BY <1>1, <2>5 DEF RunReadsNullThread, RunLogsNullWorker, RunOnFreed
  <2>6. ASSUME NEW q, NEW next \in {"unlock", "loop", "reset"}, InLoop(pc, r), m_worker[r[1]],
               next = "reset" => Leaving[r[1]],
               UNCHANGED <<m_deleting, m_worker>>,
               WorkerCode(r, q, next)
        PROVE  RunsInv(pc', m_ready', m_worker', Leaving')
    <3>0. PICK to \in {next, IF next = "reset" THEN "shutdownStuck" ELSE "stuck", StartsFrom[next]} :
                 \/ m_ready' = m_ready /\ pc' = [pc EXCEPT ![r] = to]
                 \/ \E u \in Thread : BeginRun(u, [pc EXCEPT ![r] = to])
      <4>1. WorkerMoves(r, next)
        BY <2>6, WorkerCodeFrame
      <4> QED BY <4>1 DEF WorkerMoves
    <3> DEFINE p == [pc EXCEPT ![r] = to]
    <3>6. to \in LeftTheLoop => next = "reset"
      BY <2>6, <3>0 DEF LeftTheLoop, ShuttingDown, StartsFrom
    <3>1. RunsInv(p, m_ready, m_worker, Leaving)
      BY <1>0, <2>6, <3>6, RunsInvMoves
    <3>2. p \in [Run -> Pc]
      <4>1. to \in Pc
        BY <2>6, <3>0 DEF Pc, Handling, ShuttingDown, StartsFrom
      <4> QED BY <1>0, <4>1
    <3>3. (m_ready' = m_ready /\ pc' = p) \/ \E u \in Thread : BeginRun(u, p)
      BY <3>0
    <3> HIDE DEF p
    <3>4. RunsInv(pc', m_ready', m_worker, Leaving)
      <4>1. CASE m_ready' = m_ready /\ pc' = p
        BY <3>1, <4>1
      <4>2. CASE \E u \in Thread : BeginRun(u, p)
        BY <3>1, <3>2, <4>2, BeginRunKeeps
      <4> QED BY <3>3, <4>1, <4>2
    <3>5. \A u \in Thread : Leaving[u] => Leaving'[u]
      <4>1. \A u \in Thread : m_terminated[u] => m_terminated'[u]
        BY <2>6, WorkerCodeFrame
      <4> QED BY <1>00, <2>6, <4>1
    <3> QED BY <2>6, <3>4, <3>5, RunsInvGrows
  <2>7. CASE RunExec(r)
    <3> DEFINE q == [m_queue EXCEPT ![r[1]] = Tail(@)]
    <3>1. InLoop(pc, r) /\ m_worker[r[1]] /\ UNCHANGED <<m_deleting, m_worker>>
      BY <2>7 DEF RunExec, At, InLoop
    <3>2. CASE WorkerReturns(r, m_queue, "unlock")
      <4>1. WorkerCode(r, m_queue, "unlock")
        BY <3>2 DEF WorkerCode
      <4> QED BY <2>6, <3>1, <4>1
    <3>3. CASE WorkerCode(r, q, "unlock")
      BY <2>6, <3>1, <3>3
    <3>4. CASE ThreadQuits(r, q)
      BY <2>1, <3>1, <3>4 DEF ThreadQuits, GoTo, LeftTheLoop, ShuttingDown
    <3> QED BY <2>7, <3>2, <3>3, <3>4 DEF RunExec
  <2>14. CASE RunHandlerPunts(r) \/ RunUnlock(r)
    <3>1. pc[r] \in HandsOut /\ InLoop(pc, r)
      BY <2>14 DEF RunHandlerPunts, RunUnlock, At, HandsOut, Handling, InLoop
    <3>2. m_worker[r[1]]
      BY <3>1 DEF RunsInv
    <3> QED BY <2>1, <2>14, <3>1, <3>2 DEF RunHandlerPunts, RunUnlock, GoTo, LeftTheLoop, ShuttingDown
  <2>8. CASE RunTick(r)
    BY <2>6, <2>8 DEF RunTick, At, InLoop
  <2>9. CASE RunMarkDeleting(r)
    <3>1. /\ pc' = [pc EXCEPT ![r] = "worker"] /\ InLoop(pc, r)
          /\ UNCHANGED <<m_ready, m_worker, m_terminated>>
          /\ m_deleting' = [m_deleting EXCEPT ![r[1]] = TRUE]
      BY <2>9 DEF RunMarkDeleting, At, GoTo, InLoop
    <3>2. Leaving'[r[1]] /\ \A t \in Thread : Leaving[t] => Leaving'[t]
      BY <3>1 DEF Leaving, TypeOK
    <3>3. RunsInv(pc, m_ready, m_worker, Leaving')
      BY <3>2, RunsInvGrows
    <3>4. "worker" \notin HandsOut
      BY DEF HandsOut, Handling
    <3> QED BY <1>0, <3>1, <3>2, <3>3, <3>4, RunsInvMoves
  <2>15. CASE RunShutdownWorker(r)
    <3>1. InLoop(pc, r) /\ m_worker[r[1]] /\ UNCHANGED <<m_deleting, m_worker>>
          /\ WorkerCode(r, m_queue, "reset") /\ pc[r] \in LeftTheLoop
      BY <2>15 DEF RunShutdownWorker, At, InLoop, LeftTheLoop
    <3>2. Leaving[r[1]]
      BY <3>1 DEF RunsInv
    <3> QED BY <2>6, <3>1, <3>2
  <2>10. CASE RunTerminatesItself(r)
    <3>1. /\ pc' = [pc EXCEPT ![r] = "ready"]
          /\ pc[r] = "worker" /\ InLoop(pc, r)
          /\ UNCHANGED <<m_ready, m_worker, m_deleting>>
          /\ m_terminated' = [m_terminated EXCEPT ![r[1]] = TRUE]
      BY <2>10 DEF RunTerminatesItself, At, GoTo, InLoop
    <3>2. \A t \in Thread : m_terminated[t] => m_terminated'[t]
      BY <3>1 DEF TypeOK
    <3>3. \A t \in Thread : Leaving[t] => Leaving'[t]
      BY <1>00, <3>1, <3>2
    <3>4. RunsInv(pc, m_ready, m_worker, Leaving')
      BY <3>3, RunsInvGrows
    <3>5. "ready" \notin HandsOut /\ "ready" \notin LeftTheLoop
      BY DEF HandsOut, Handling, LeftTheLoop, ShuttingDown
    <3> QED BY <1>0, <3>1, <3>4, <3>5, RunsInvMoves
  <2>11. CASE RunResetWorker(r)
    <3>1. /\ \A s \in Run : pc'[s] = IF s = r THEN "ready" ELSE pc[s]
          /\ pc[r] = "reset"
          /\ UNCHANGED <<m_ready, m_deleting, m_terminated>>
          /\ \A t \in Thread : m_worker'[t] = IF t = r[1] THEN FALSE ELSE m_worker[t]
      BY <2>11 DEF RunResetWorker, At, GoTo, TypeOK
    <3>2. Leaving' = Leaving
      BY <3>1 DEF Leaving
    <3>3. \A s \in Run : s[1] = r[1] /\ s # r => ~InLoop(pc, s)
      BY <3>1 DEF RunsInv, InLoop
    <3>4. Leaving[r[1]]
      BY <3>1 DEF RunsInv, LeftTheLoop
    <3>5. \A s \in Run : s[1] \in Thread
      BY DEF Run
    <3>6. "ready" \notin HandsOut \cup LeftTheLoop
      BY DEF HandsOut, Handling, LeftTheLoop, ShuttingDown
    <3>7. \A s \in Run : InLoop(pc', s) => InLoop(pc, s)
      BY <3>1 DEF InLoop
    <3>8. ASSUME NEW s \in Run, pc'[s] \in HandsOut PROVE m_worker'[s[1]]
      <4>1. s # r /\ pc[s] \in HandsOut  BY <3>1, <3>6, <3>8
      <4>2. InLoop(pc, s)  BY <4>1 DEF InLoop, HandsOut, Handling
      <4>3. s[1] # r[1]  BY <3>3, <4>1, <4>2
      <4>4. m_worker[s[1]]  BY <4>1 DEF RunsInv
      <4>5. QED  BY <3>1, <3>5, <4>3, <4>4
    <3>9. ASSUME NEW s \in Run, pc'[s] \in LeftTheLoop PROVE Leaving'[s[1]]
      <4>1. pc[s] \in LeftTheLoop  BY <3>1, <3>6, <3>9
      <4>2. QED  BY <3>2, <4>1 DEF RunsInv
    <3>10. ASSUME NEW t \in Thread, ~m_worker'[t] PROVE Leaving'[t]
      <4>1. t = r[1] \/ ~m_worker[t]  BY <3>1, <3>10
      <4>2. QED  BY <3>2, <3>4, <4>1 DEF RunsInv
    <3>11. \A s \in Run : InLoop(pc', s) => m_ready'[s[1]]
      BY <3>1, <3>7 DEF RunsInv
    <3>12. \A s, u \in Run : InLoop(pc', s) /\ InLoop(pc', u) /\ s[1] = u[1] => s = u
      BY <3>7 DEF RunsInv
    <3> QED BY <3>8, <3>9, <3>10, <3>11, <3>12 DEF RunsInv
  <2>12. CASE RunClearReady(r)
    <3>1. /\ \A s \in Run : pc'[s] = IF s = r THEN "quit" ELSE pc[s]
          /\ pc[r] = "ready"
          /\ UNCHANGED <<m_worker, m_deleting, m_terminated>>
          /\ \A t \in Thread : t # r[1] => m_ready'[t] = m_ready[t]
      BY <2>12 DEF RunClearReady, At, GoTo, TypeOK
    <3>2. Leaving' = Leaving
      BY <3>1 DEF Leaving
    <3>3. \A s \in Run : s[1] = r[1] /\ s # r => ~InLoop(pc, s)
      BY <3>1 DEF RunsInv, InLoop
    <3>5. \A s \in Run : s[1] \in Thread
      BY DEF Run
    <3> QED BY <3>1, <3>2, <3>3, <3>5 DEF RunsInv, InLoop, HandsOut, Handling, LeftTheLoop, ShuttingDown
  <2>13. CASE RunQuit(r) \/ RunPunts(r)
    <3>1. /\ \A s \in Run : pc'[s] = IF s = r THEN pc'[r] ELSE pc[s]
          /\ pc'[r] \in {"punt", "end"}
          /\ UNCHANGED <<m_ready, m_worker, m_deleting, m_terminated>>
      BY <1>0, <2>13 DEF RunQuit, RunPunts, At, GoTo
    <3>2. Leaving' = Leaving
      BY <3>1 DEF Leaving
    <3> QED BY <3>1, <3>2 DEF RunsInv, InLoop, HandsOut, Handling, LeftTheLoop, ShuttingDown
  <2> QED BY <1>5, <2>2, <2>3, <2>4, <2>5, <2>7, <2>8, <2>9, <2>10, <2>11, <2>12,
             <2>13, <2>14, <2>15 DEF RunStep
<1>6. CASE AppStep
  <2>1. /\ UNCHANGED <<pc, m_ready, m_worker, m_deleting>>
        /\ m_terminated' = m_terminated
           \/ m_terminated' = [t \in Thread |-> m_terminated[t] \/ t \in Selected]
    BY <1>6 DEF AppStep, AppRemoves, AppRefusesToRemove, AppRemovesAgain, AppGetsStuck, AppThreadsGone,
       AppShutdown, StopBegins, StopAsksForWorker, StopReadsStaleSlot, StopReadsType,
       StopReadsNullWorker, StopTerminates, StopAsksIfStarted, StopQuits, StopPunts,
       StopReadsDeleting, StopJoins, StopNextType, Unchanged_App
  <2> QED BY <1>1, <2>1
<1>7. ASSUME NEW type \in {"Close", "Shutdown"}, Outside(type)
      PROVE  RunsInv(pc', m_ready', m_worker', Leaving')
  BY <1>1, <1>7 DEF Outside
<1> QED BY <1>2, <1>3, <1>4, <1>5, <1>6, <1>7, <1>8 DEF Next

\* No event or tick is ever handed to a Thread whose worker was reset, even
\* when the Thread is started again.
THEOREM WorkerPresent == Spec => []HandlerHasWorker
<1>1. Init => WorkerInv
  BY DEF Init, WorkerInv, Active, Handling, ShuttingDown
<1>2. TypeOK /\ WorkerInv /\ [Next]_vars => WorkerInv'
  BY WorkerInvStep
<1>3. WorkerInv => HandlerHasWorker
  BY DEF WorkerInv, HandlerHasWorker
<1> QED BY <1>1, <1>2, <1>3, TypeCorrect, PTL DEF Spec

-----------------------------------------------------------------------------
(* Programs whose threads end themselves.                                  *)

LEMMA EventsDiffer ==
    /\ \A t \in Thread : \A k : Remove(t) # AppEvent(k)
    /\ \A t, u \in Thread : Remove(t) = Remove(u) => t = u
    /\ \A k, l : AppEvent(k) = AppEvent(l) => k = l
<1>1. ASSUME NEW t \in Thread, NEW k
      PROVE  Remove(t) # AppEvent(k)
  <2>1. Remove(t).thread = t /\ AppEvent(k).thread = NoThread
    BY DEF Remove, AppEvent
  <2>2. t # NoThread
    BY ConstantsAssumption
  <2> QED BY <2>1, <2>2
<1>2. ASSUME NEW t \in Thread, NEW u \in Thread, Remove(t) = Remove(u)
      PROVE  t = u
  <2>1. Remove(t).thread = t /\ Remove(u).thread = u
    BY DEF Remove
  <2> QED BY <1>2, <2>1
<1>3. ASSUME NEW k, NEW l, AppEvent(k) = AppEvent(l)
      PROVE  k = l
  <2>1. AppEvent(k).type = k /\ AppEvent(l).type = l
    BY DEF AppEvent
  <2> QED BY <1>3, <2>1
<1> QED BY <1>1, <1>2, <1>3

LEMMA RemovalsAppend ==
    ASSUME NEW q \in Seq(AppEvents), NEW e \in AppEvents, NEW t
    PROVE  Removals(Append(q, e), t)
             = Removals(q, t) \cup (IF e = Remove(t) THEN {Len(q) + 1} ELSE {})
<1>1. /\ Len(q) \in Nat /\ Len(Append(q, e)) = Len(q) + 1
      /\ Append(q, e)[Len(q) + 1] = e
      /\ \A i \in 1 .. Len(q) : Append(q, e)[i] = q[i]
  OBVIOUS
<1> DEFINE a == Append(q, e)
<1> HIDE DEF a
<1>2. /\ Len(q) \in Nat /\ Len(a) = Len(q) + 1 /\ a[Len(q) + 1] = e
      /\ \A i \in 1 .. Len(q) : a[i] = q[i]
  BY <1>1 DEF a
<1>3. Removals(a, t) = Removals(q, t) \cup (IF e = Remove(t) THEN {Len(q) + 1} ELSE {})
  BY <1>2 DEF Removals
<1> QED BY <1>3 DEF a

LEMMA RemovalsTail ==
    ASSUME NEW q \in Seq(AppEvents), q # <<>>, NEW t
    PROVE  /\ \A i \in Removals(Tail(q), t) : i \in Nat \ {0} /\ i + 1 \in Removals(q, t)
           /\ Head(q) = Remove(t) => 1 \in Removals(q, t)
<1>1. /\ Len(q) \in Nat \ {0} /\ Len(Tail(q)) = Len(q) - 1 /\ Head(q) = q[1]
      /\ \A i \in 1 .. Len(Tail(q)) : Tail(q)[i] = q[i + 1]
  OBVIOUS
<1> QED BY <1>1 DEF Removals

\* The part of SelfInv that is about an Application queue q.
QueueInv(q, lf, p) ==
    /\ \A i \in 1 .. Len(q) : q[i] # AppEvent("Close")
    /\ \A t \in Thread : Removals(q, t) # {} => lf[t] = "live" /\ p[<<t, 1>>] = "end"
    /\ \A t \in Thread : \A i, j \in Removals(q, t) : i = j

LEMMA QueueInvAppend ==
    ASSUME NEW q \in Seq(AppEvents), NEW lf, NEW p, QueueInv(q, lf, p),
           NEW k \in {"ThreadsGone", "Shutdown"}
    PROVE  QueueInv(Append(q, AppEvent(k)), lf, p)
<1> DEFINE e == AppEvent(k)
<1>1. e \in AppEvents /\ e # AppEvent("Close") /\ \A t \in Thread : e # Remove(t)
  BY AppEventsTyped, EventsDiffer
<1> HIDE DEF e
<1>2. ASSUME NEW t \in Thread
      PROVE  Removals(Append(q, e), t) = Removals(q, t)
  <2>1. Removals(Append(q, e), t)
          = Removals(q, t) \cup (IF e = Remove(t) THEN {Len(q) + 1} ELSE {})
    BY <1>1, RemovalsAppend
  <2> QED BY <1>1, <2>1
<1>3. \A i \in 1 .. Len(Append(q, e)) : Append(q, e)[i] # AppEvent("Close")
  BY <1>1 DEF QueueInv
<1>4. QueueInv(Append(q, e), lf, p)
  BY <1>2, <1>3 DEF QueueInv
<1> QED BY <1>4 DEF e

LEMMA QueueInvTail ==
    ASSUME NEW q \in Seq(AppEvents), q # <<>>, NEW lf, NEW p, QueueInv(q, lf, p)
    PROVE  /\ QueueInv(Tail(q), lf, p)
           /\ \A t \in Thread : Head(q) = Remove(t) =>
                  Removals(Tail(q), t) = {} /\ lf[t] = "live" /\ p[<<t, 1>>] = "end"
           /\ Head(q) # AppEvent("Close")
<1>1. /\ Len(q) \in Nat \ {0} /\ Len(Tail(q)) = Len(q) - 1 /\ Head(q) = q[1]
      /\ \A i \in 1 .. Len(Tail(q)) : Tail(q)[i] = q[i + 1]
  OBVIOUS
<1>2. \A i \in 1 .. Len(Tail(q)) : Tail(q)[i] # AppEvent("Close")
  BY <1>1 DEF QueueInv
<1>3. Head(q) # AppEvent("Close")
  BY <1>1 DEF QueueInv
<1>4. \A t \in Thread : Removals(Tail(q), t) # {} => Removals(q, t) # {}
  BY RemovalsTail
<1>5. \A t \in Thread : \A i, j \in Removals(Tail(q), t) : i = j
  <2> SUFFICES ASSUME NEW t \in Thread, NEW i \in Removals(Tail(q), t),
                      NEW j \in Removals(Tail(q), t)
               PROVE  i = j
    OBVIOUS
  <2>1. /\ i \in Nat /\ j \in Nat
        /\ i + 1 \in Removals(q, t) /\ j + 1 \in Removals(q, t)
    BY RemovalsTail
  <2>2. i + 1 = j + 1
    BY <2>1 DEF QueueInv
  <2> QED BY <2>1, <2>2
<1>6. ASSUME NEW t \in Thread, Head(q) = Remove(t)
      PROVE  Removals(Tail(q), t) = {} /\ lf[t] = "live" /\ p[<<t, 1>>] = "end"
  <2>1. 1 \in Removals(q, t)
    BY <1>6, RemovalsTail
  <2>2. ASSUME NEW i \in Removals(Tail(q), t)
        PROVE  FALSE
    <3>1. i \in Nat \ {0} /\ i + 1 \in Removals(q, t)
      BY RemovalsTail
    <3>2. i + 1 = 1
      BY <2>1, <3>1 DEF QueueInv
    <3> QED BY <3>1, <3>2
  <2> QED BY <2>1, <2>2 DEF QueueInv
<1> QED BY <1>2, <1>3, <1>4, <1>5, <1>6 DEF QueueInv

\* SelfInv in three parts: the queue, the runs, and the rest.
RunsOnce(lf, ready, started, worker, p) ==
    /\ \A r \in Run : p[r] # "idle" => r[2] = 1 /\ lf[r[1]] # "new"
    /\ \A r \in Run : p[r] # "handlerPunt"
    /\ \A t \in Thread : lf[t] = "new" => started[t] = 0
    /\ \A t \in Thread : lf[t] = "freed" => p[<<t, 1>>] = "end"
    /\ \A t \in Thread : p[<<t, 1>>] \in {"quit", "punt", "end"} => ~ready[t]
    /\ \A t \in Thread : ~worker[t] => p[<<t, 1>>] \in {"ready", "quit", "punt", "end"}

Quiet(where, q) ==
    /\ where \in {"exec", "stuck", "returned"}
    /\ \A t \in Thread : \A i \in 1 .. Len(q[t]) : q[t][i] # "shutdown"

LEMMA SelfInvParts ==
    SelfInv <=> /\ QueueInv(appQueue, life, pc) /\ RunsOnce(life, m_ready, runs, m_worker, pc)
                /\ Quiet(apc, m_queue) /\ OnlyStartAndSlotsFail
BY DEF SelfInv, QueueInv, RunsOnce, Quiet

\* A run that moves between two points before "m_worker.reset()".
Early == {"beforeWork", "work", "loop", "exec", "unlock", "tick", "deleting", "worker",
          "reset"} \cup (Handling \ {"handlerPunt"}) \cup ShuttingDown
LEMMA SelfMoves ==
    ASSUME NEW p \in [Run -> Pc], NEW r \in Run, p[r] \in Early, NEW to \in Early, NEW q,
           QueueInv(q, life, p), RunsOnce(life, m_ready, runs, m_worker, p)
    PROVE  /\ QueueInv(q, life, [p EXCEPT ![r] = to])
           /\ RunsOnce(life, m_ready, runs, m_worker, [p EXCEPT ![r] = to])
<1> DEFINE n == [p EXCEPT ![r] = to]
<1>1. \A s \in Run : n[s] = IF s = r THEN to ELSE p[s]
  OBVIOUS
<1>2. \A t \in Thread : <<t, 1>> \in Run
  BY ConstantsAssumption DEF Run
<1> HIDE DEF n
<1>0. \A x \in Early : x \notin {"idle", "handlerPunt", "ready", "quit", "punt", "end"}
  BY DEF Early, Handling, ShuttingDown
<1>3. \A t \in Thread, x \in {"ready", "quit", "punt", "end"} :
          p[<<t, 1>>] = x <=> n[<<t, 1>>] = x
  BY <1>0, <1>1, <1>2
<1>4. QueueInv(q, life, n)
  BY <1>3 DEF QueueInv
<1>5. RunsOnce(life, m_ready, runs, m_worker, n)
  <2>1. \A s \in Run : n[s] # "idle" => s[2] = 1 /\ life[s[1]] # "new"
    BY <1>0, <1>1 DEF RunsOnce
  <2>2. \A t \in Thread : life[t] = "new" => runs[t] = 0
    BY DEF RunsOnce
  <2>3. \A t \in Thread : life[t] = "freed" => n[<<t, 1>>] = "end"
    BY <1>3 DEF RunsOnce
  <2>4. \A t \in Thread : n[<<t, 1>>] \in {"quit", "punt", "end"} => ~m_ready[t]
    BY <1>3 DEF RunsOnce
  <2>5. \A t \in Thread : ~m_worker[t] => n[<<t, 1>>] \in {"ready", "quit", "punt", "end"}
    BY <1>3 DEF RunsOnce
  <2>6. \A s \in Run : n[s] # "handlerPunt"
    BY <1>0, <1>1 DEF RunsOnce
  <2> QED BY <2>1, <2>2, <2>3, <2>4, <2>5, <2>6 DEF RunsOnce
<1> QED BY <1>4, <1>5 DEF n

\* A run that moves anywhere, with what the new place asks of its Thread.
LEMMA RunsOnceMoves ==
    ASSUME NEW t \in Thread, NEW to, pc \in [Run -> Pc],
           RunsOnce(life, m_ready, runs, m_worker, pc),
           pc[<<t, 1>>] \notin {"idle", "end"}, pc' = [pc EXCEPT ![<<t, 1>>] = to],
           UNCHANGED <<life, runs>>,
           \A u \in Thread : u # t => m_ready'[u] = m_ready[u] /\ m_worker'[u] = m_worker[u],
           to # "handlerPunt", to \in {"quit", "punt", "end"} => ~m_ready'[t],
           ~m_worker'[t] => to \in {"ready", "quit", "punt", "end"}
    PROVE  RunsOnce(life', m_ready', runs', m_worker', pc')
<1>1. \A u \in Thread : <<u, 1>> \in Run /\ (<<u, 1>> = <<t, 1>> <=> u = t)
  BY ConstantsAssumption DEF Run
<1>2. /\ \A s \in Run : pc'[s] = IF s = <<t, 1>> THEN to ELSE pc[s]
      /\ \A u \in Thread : pc'[<<u, 1>>] = IF u = t THEN to ELSE pc[<<u, 1>>]
  BY <1>1
<1>3. \A s \in Run : pc'[s] # "idle" => pc[s] # "idle"
  BY <1>1, <1>2
<1>4. \A s \in Run : pc'[s] # "idle" => s[2] = 1 /\ life'[s[1]] # "new"
  BY <1>3 DEF RunsOnce
<1>5. \A u \in Thread : life'[u] = "new" => runs'[u] = 0
  BY DEF RunsOnce
<1>6. \A u \in Thread : life'[u] = "freed" => pc'[<<u, 1>>] = "end"
  BY <1>2 DEF RunsOnce
<1>7. \A u \in Thread : pc'[<<u, 1>>] \in {"quit", "punt", "end"} => ~m_ready'[u]
  BY <1>2 DEF RunsOnce
<1>8. \A u \in Thread : ~m_worker'[u] => pc'[<<u, 1>>] \in {"ready", "quit", "punt", "end"}
  BY <1>2 DEF RunsOnce
<1>9. \A s \in Run : pc'[s] # "handlerPunt"
  BY <1>2 DEF RunsOnce
<1> QED BY <1>4, <1>5, <1>6, <1>7, <1>8, <1>9 DEF RunsOnce

\* In a self-terminating program a worker may only return, terminate itself,
\* send work, get stuck, or run into a thread that has ended.
LEMMA SelfWorkerCode ==
    ASSUME SelfTerminating, TypeOK, LiveThreadsListed, NEW r \in Run, life[r[1]] = "live",
           NEW q \in [Thread -> Seq(ThreadEvent)], NEW next, WorkerCode(r, q, next),
           fault = "none", Quiet(apc, q), apc' = apc
    PROVE  /\ UNCHANGED <<m_ready, runs>>
           /\ GoTo(r, next) \/ GoTo(r, "stuck") \/ GoTo(r, "shutdownStuck")
           /\ Quiet(apc', m_queue')
           /\ fault' \in {"none", "staleSlot", "nullTarget"}
<1>1. r[1] \in Thread /\ r[1] \in Slots
  <2>1. r[1] \in Thread
    BY DEF Run
  <2> QED BY <2>1 DEF LiveThreadsListed
<1>2. CASE WorkerReturns(r, q, next)
  BY <1>2 DEF WorkerReturns
<1>3. CASE WorkerTerminates(r, q, next)
  BY <1>1, <1>3 DEF WorkerTerminates
<1>4. ASSUME NEW u \in Thread, NEW kind \in {"work", "shutdown"}, WorkerSends(r, u, kind, q, next)
      PROVE  /\ UNCHANGED <<m_ready, runs>>
             /\ GoTo(r, next) \/ GoTo(r, "stuck") \/ GoTo(r, "shutdownStuck")
             /\ Quiet(apc', m_queue')
             /\ fault' \in {"none", "staleSlot", "nullTarget"}
  <2>1. kind = "work"
    BY <1>4 DEF WorkerSends, SelfTerminating
  <2>2. /\ \A v \in Thread : v # u => m_queue'[v] = q[v]
        /\ m_queue'[u] = Append(q[u], "work")
    BY <1>4, <2>1 DEF WorkerSends
  <2>3. \A i \in 1 .. Len(m_queue'[u]) : m_queue'[u][i] # "shutdown"
    <3>1. q[u] \in Seq(ThreadEvent) /\ \A i \in 1 .. Len(q[u]) : q[u][i] # "shutdown"
      BY DEF Quiet
    <3> QED BY <2>2, <3>1
  <2> QED BY <1>4, <2>2, <2>3 DEF WorkerSends, Quiet
<1>5. CASE \E u \in Thread : WorkerSendsToWorkerless(r, u, q, next)
  BY <1>5 DEF WorkerSendsToWorkerless
<1>6. CASE \E u \in Thread : WorkerStarts(r, u, q, next)
  BY <1>6 DEF WorkerStarts, SelfTerminating
<1>7. CASE WorkerReadsStaleSlot(r, q, next)
  BY <1>7 DEF WorkerReadsStaleSlot
<1>8. CASE WorkerGetsStuck(r, q, next)
  BY <1>8 DEF WorkerGetsStuck
<1> QED BY <1>2, <1>3, <1>4, <1>5, <1>6, <1>7, <1>8 DEF WorkerCode

\* Adding a thread or deleting one that has ended disturbs no part of RunsOnce.
LEMMA RunsOnceLife ==
    ASSUME NEW lf, NEW lf2, NEW ready, NEW started, NEW worker, NEW p,
           RunsOnce(lf, ready, started, worker, p),
           \A r \in Run : r[1] \in Thread,
           \A u \in Thread : \/ lf2[u] = lf[u]
                             \/ lf2[u] = "live"
                             \/ lf2[u] = "freed" /\ p[<<u, 1>>] = "end"
    PROVE  RunsOnce(lf2, ready, started, worker, p)
<1>1. \A r \in Run : p[r] # "idle" => r[2] = 1 /\ lf2[r[1]] # "new"
  BY DEF RunsOnce
<1>2. \A t \in Thread : lf2[t] = "new" => started[t] = 0
  BY DEF RunsOnce
<1>3. \A t \in Thread : lf2[t] = "freed" => p[<<t, 1>>] = "end"
  BY DEF RunsOnce
<1> QED BY <1>1, <1>2, <1>3 DEF RunsOnce

LEMMA SelfInvStep ==
    ASSUME SelfTerminating
    PROVE  TypeOK /\ LiveThreadsListed /\ SelfInv /\ [Next]_vars => SelfInv'
<1> SUFFICES ASSUME TypeOK, LiveThreadsListed, SelfInv, [Next]_vars
             PROVE  /\ QueueInv(appQueue', life', pc')
                    /\ RunsOnce(life', m_ready', runs', m_worker', pc')
                    /\ Quiet(apc', m_queue')
                    /\ OnlyStartAndSlotsFail'
  BY DEF SelfInv, QueueInv, RunsOnce, Quiet, Removals
<1> DEFINE Goal == /\ QueueInv(appQueue', life', pc')
                   /\ RunsOnce(life', m_ready', runs', m_worker', pc')
                   /\ Quiet(apc', m_queue')
                   /\ OnlyStartAndSlotsFail'
<1> USE DEF appVars, stopVars, flagVars, startVars
<1>0. /\ QueueInv(appQueue, life, pc) /\ RunsOnce(life, m_ready, runs, m_worker, pc)
      /\ Quiet(apc, m_queue) /\ OnlyStartAndSlotsFail
  BY SelfInvParts
<1>00. /\ pc \in [Run -> Pc] /\ appQueue \in Seq(AppEvents)
       /\ m_queue \in [Thread -> Seq(ThreadEvent)]
       /\ \A r \in Run : r[1] \in Thread
       /\ \A t \in Thread : <<t, 1>> \in Run /\ <<t, 1>>[1] = t
  <2>1. /\ pc \in [Run -> Pc] /\ appQueue \in Seq(AppEvents)
        /\ m_queue \in [Thread -> Seq(ThreadEvent)]
    BY DEF TypeOK
  <2>2. \A r \in Run : r[1] \in Thread
    BY DEF Run
  <2>3. \A t \in Thread : <<t, 1>> \in Run /\ <<t, 1>>[1] = t
    BY ConstantsAssumption DEF Run
  <2> QED BY <2>1, <2>2, <2>3
<1>1. ASSUME UNCHANGED <<appQueue, life, m_ready, m_worker, runs, pc, apc, m_queue>>,
             fault' \in {"none", "nullThread", "staleSlot", "nullTarget"}
      PROVE  Goal
  <2>1. /\ appQueue' = appQueue /\ life' = life /\ m_ready' = m_ready /\ m_worker' = m_worker
        /\ runs' = runs /\ pc' = pc /\ apc' = apc /\ m_queue' = m_queue
    BY <1>1
  <2>2. QueueInv(appQueue', life', pc')
    BY <1>0, <2>1
  <2>3. RunsOnce(life', m_ready', runs', m_worker', pc')
    BY <1>0, <2>1
  <2>4. Quiet(apc', m_queue')
    BY <1>0, <2>1
  <2>5. OnlyStartAndSlotsFail'
    BY <1>1 DEF OnlyStartAndSlotsFail
  <2> QED BY <2>2, <2>3, <2>4, <2>5
<1>2. CASE UNCHANGED vars
  <2>1. UNCHANGED <<appQueue, life, m_ready, m_worker, runs, pc, apc, m_queue, fault>>
    BY <1>2 DEF vars
  <2>2. /\ appQueue' = appQueue /\ life' = life /\ m_ready' = m_ready /\ m_worker' = m_worker
        /\ runs' = runs /\ pc' = pc /\ apc' = apc /\ m_queue' = m_queue
    BY <2>1
  <2>3. QueueInv(appQueue', life', pc')
    BY <1>0, <2>2
  <2>4. RunsOnce(life', m_ready', runs', m_worker', pc')
    BY <1>0, <2>2
  <2>5. Quiet(apc', m_queue')
    BY <1>0, <2>2
  <2>6. OnlyStartAndSlotsFail'
    BY <1>0, <2>1 DEF OnlyStartAndSlotsFail
  <2> QED BY <2>3, <2>4, <2>5, <2>6
<1>3. ASSUME NEW t \in Thread, AddPaused(t)
      PROVE  Goal
  <2>1. /\ UNCHANGED <<appQueue, m_ready, m_worker, runs, pc, apc, m_queue, fault>>
        /\ life[t] = "new" /\ \A u \in Thread : life'[u] = IF u = t THEN "live" ELSE life[u]
    BY <1>3 DEF AddPaused, TypeOK
  <2>2. QueueInv(appQueue', life', pc')
    BY <1>0, <2>1 DEF QueueInv
  <2>3. RunsOnce(life', m_ready, runs, m_worker, pc)
    BY <1>0, <1>00, <2>1, RunsOnceLife
  <2>4. RunsOnce(life', m_ready', runs', m_worker', pc')
    BY <2>1, <2>3
  <2> QED BY <1>0, <2>1, <2>2, <2>4 DEF OnlyStartAndSlotsFail
<1>4. ASSUME NEW t \in Thread, AddStarted(t)
      PROVE  Goal
  <2>1. /\ UNCHANGED <<appQueue, apc, m_worker, fault>>
        /\ life[t] = "new" /\ \A u \in Thread : life'[u] = IF u = t THEN "live" ELSE life[u]
        /\ \A u \in Thread : u # t => m_ready'[u] = m_ready[u] /\ runs'[u] = runs[u]
        /\ pc' = [pc EXCEPT ![<<t, runs[t] + 1>>] = "beforeWork"]
        /\ m_queue' = [m_queue EXCEPT ![t] = Append(@, "notify")]
    BY <1>4 DEF AddStarted, BeginRun, TypeOK
  <2>2. runs[t] = 0
    BY <1>0, <2>1 DEF RunsOnce
  <2>3. pc' = [pc EXCEPT ![<<t, 1>>] = "beforeWork"]
    BY <2>1, <2>2
  <2>4. \A r \in Run : pc'[r] = IF r = <<t, 1>> THEN "beforeWork" ELSE pc[r]
    BY <1>00, <2>3
  <2>5. pc[<<t, 1>>] = "idle"
    BY <1>0, <1>00, <2>1 DEF RunsOnce
  <2>6. \A u \in Thread : u # t => pc'[<<u, 1>>] = pc[<<u, 1>>]
    BY <1>00, <2>4
  <2>7. QueueInv(appQueue', life', pc')
    BY <1>0, <2>1, <2>6 DEF QueueInv
  <2>8. RunsOnce(life', m_ready', runs', m_worker', pc')
    <3>1. \A r \in Run : pc'[r] # "idle" => r[2] = 1 /\ life'[r[1]] # "new"
      <4> SUFFICES ASSUME NEW r \in Run, pc'[r] # "idle"
                   PROVE  r[2] = 1 /\ life'[r[1]] # "new"
        OBVIOUS
      <4>1. CASE r = <<t, 1>>
        <5>1. r[1] = t /\ r[2] = 1
          BY <4>1
        <5> QED BY <2>1, <5>1
      <4>2. CASE r # <<t, 1>>
        <5>1. r[1] \in Thread /\ pc[r] # "idle"
          BY <1>00, <2>4, <4>2
        <5>2. r[2] = 1 /\ life[r[1]] # "new"
          BY <1>0, <5>1 DEF RunsOnce
        <5> QED BY <2>1, <5>1, <5>2
      <4> QED BY <4>1, <4>2
    <3>2. \A u \in Thread : life'[u] = "new" => runs'[u] = 0
      BY <1>0, <2>1 DEF RunsOnce
    <3>3. \A u \in Thread : life'[u] = "freed" => pc'[<<u, 1>>] = "end"
      BY <1>0, <2>1, <2>6 DEF RunsOnce
    <3>4. pc'[<<t, 1>>] = "beforeWork" /\ m_worker[t]
      BY <1>0, <1>00, <2>4, <2>5 DEF RunsOnce
    <3>5. \A u \in Thread : pc'[<<u, 1>>] \in {"quit", "punt", "end"} => ~m_ready'[u]
      BY <1>0, <2>1, <2>6, <3>4 DEF RunsOnce
    <3>6. \A u \in Thread : ~m_worker'[u] => pc'[<<u, 1>>] \in {"ready", "quit", "punt", "end"}
      BY <1>0, <2>1, <2>6, <3>4 DEF RunsOnce
    <3>7. \A r \in Run : pc'[r] # "handlerPunt"
      BY <1>0, <2>4 DEF RunsOnce
    <3> QED BY <3>1, <3>2, <3>3, <3>5, <3>6, <3>7 DEF RunsOnce
  <2>9. Quiet(apc', m_queue')
    <3>1. /\ m_queue[t] \in Seq(ThreadEvent) /\ m_queue'[t] = Append(m_queue[t], "notify")
          /\ \A u \in Thread : u # t => m_queue'[u] = m_queue[u]
      BY <1>00, <2>1
    <3>2. \A i \in 1 .. Len(m_queue'[t]) : m_queue'[t][i] # "shutdown"
      BY <1>0, <3>1 DEF Quiet
    <3> QED BY <1>0, <2>1, <3>1, <3>2 DEF Quiet
  <2> QED BY <1>0, <2>1, <2>7, <2>8, <2>9 DEF OnlyStartAndSlotsFail
<1>5. ASSUME NEW t \in Thread, EndStart(t)
      PROVE  Goal
  <2>1. /\ UNCHANGED <<appQueue, life, m_ready, m_worker, runs, apc, m_queue, fault>>
        /\ \A r \in Run : pc'[r] = IF pc[r] = "execStarts" THEN "unlock"
                                   ELSE IF pc[r] = "tickStarts" THEN "loop"
                                   ELSE IF pc[r] = "shutdownStarts" THEN "reset" ELSE pc[r]
    BY <1>5 DEF EndStart
  <2>2. \A r \in Run, x \in {"idle", "handlerPunt", "ready", "quit", "punt", "end"} : pc'[r] = x <=> pc[r] = x
    BY <2>1
  <2>3. QueueInv(appQueue', life', pc')
    BY <1>0, <1>00, <2>1, <2>2 DEF QueueInv
  <2>4. RunsOnce(life', m_ready', runs', m_worker', pc')
    BY <1>0, <1>00, <2>1, <2>2 DEF RunsOnce
  <2> QED BY <1>0, <2>1, <2>3, <2>4 DEF OnlyStartAndSlotsFail
<1>6. ASSUME NEW r \in Run, RunStep(r), fault = "none"
      PROVE  Goal
  <2> DEFINE t == r[1]
  <2>0. t \in Thread /\ (pc[r] # "idle" => r = <<t, 1>>)
    BY <1>0, <1>00 DEF RunsOnce, Run
  <2>1. ASSUME NEW to \in Early, pc[r] \in Early, pc' = [pc EXCEPT ![r] = to],
               UNCHANGED <<appQueue, life, m_ready, m_worker, runs>>,
               Quiet(apc', m_queue'),
               fault' \in {"none", "nullThread", "staleSlot", "nullTarget"}
        PROVE  Goal
    BY <1>0, <1>00, <2>1, SelfMoves DEF OnlyStartAndSlotsFail
  <2>00. \A x \in {"beforeWork", "work", "loop", "exec", "unlock", "tick", "deleting",
                   "worker", "reset", "stuck", "shutdownStuck"} : x \in Early
    BY DEF Early, Handling, ShuttingDown
  <2>2. ASSUME NEW e \in {"notify", "work"}, UNCHANGED apc,
               m_queue' = [m_queue EXCEPT ![t] = Append(@, e)]
        PROVE  Quiet(apc', m_queue')
    <3>1. /\ m_queue[t] \in Seq(ThreadEvent) /\ m_queue'[t] = Append(m_queue[t], e)
          /\ \A u \in Thread : u # t => m_queue'[u] = m_queue[u]
      BY <1>00, <2>0, <2>2
    <3>2. \A i \in 1 .. Len(m_queue'[t]) : m_queue'[t][i] # "shutdown"
      BY <1>0, <2>0, <3>1 DEF Quiet
    <3> QED BY <1>0, <2>2, <3>1, <3>2 DEF Quiet
  <2>3. CASE RunPostBeforeWork(r)
    BY <1>6, <2>00, <2>1, <2>2, <2>3 DEF RunPostBeforeWork, At, GoTo
  <2>4. CASE RunPostWork(r)
    <3>1. /\ pc[r] = "work" /\ pc' = [pc EXCEPT ![r] = IF m_terminated[r[1]] THEN "worker" ELSE "loop"]
          /\ UNCHANGED <<appQueue, life, m_ready, m_worker, runs, apc, fault>>
          /\ m_queue' = [m_queue EXCEPT ![t] = Append(@, "work")]
      BY <2>4 DEF RunPostWork, At, GoTo
    <3>2. Quiet(apc', m_queue')
      BY <2>2, <3>1
    <3> QED BY <1>6, <2>00, <2>1, <3>1, <3>2
  <2>5. CASE RunLoop(r)
    <3>1. /\ pc[r] = "loop" /\ UNCHANGED <<appQueue, life, m_ready, m_worker, runs, apc, m_queue, fault>>
          /\ \E to \in {"exec", "unlock", "deleting"} : pc' = [pc EXCEPT ![r] = to]
      BY <2>5 DEF RunLoop, At, GoTo
    <3> QED BY <1>0, <1>6, <2>00, <2>1, <3>1
  <2>6. CASE RunReadsNullThread(r)
    BY <1>1, <2>6 DEF RunReadsNullThread
  <2>7. ASSUME NEW q \in [Thread -> Seq(ThreadEvent)], Quiet(apc, q),
               NEW to \in {"loop", "unlock", "reset"}, At(r, "exec") \/ At(r, "tick") \/ At(r, "worker"),
               UNCHANGED <<appQueue, apc, life, m_worker>>, WorkerCode(r, q, to)
        PROVE  Goal
    <3>1. life[t] = "live" /\ pc[r] \in Early
      BY <1>0, <2>0, <2>00, <2>7 DEF At, RunsOnce, TypeOK
    <3>2. /\ UNCHANGED <<m_ready, runs>>
          /\ GoTo(r, to) \/ GoTo(r, "stuck") \/ GoTo(r, "shutdownStuck")
          /\ Quiet(apc', m_queue')
          /\ fault' \in {"none", "staleSlot", "nullTarget"}
      BY <1>6, <2>0, <2>7, <3>1, SelfWorkerCode
    <3> QED BY <2>00, <2>1, <2>7, <3>1, <3>2 DEF GoTo
  <2>8. CASE RunExec(r)
    <3> DEFINE q == [m_queue EXCEPT ![t] = Tail(@)]
    <3>1. At(r, "exec") /\ UNCHANGED <<appQueue, apc, life, m_worker>>
      BY <2>8 DEF RunExec
    <3>2. CASE WorkerReturns(r, m_queue, "unlock")
      <4>1. WorkerCode(r, m_queue, "unlock")
        BY <3>2 DEF WorkerCode
      <4> QED BY <1>0, <1>00, <2>7, <3>1, <4>1
    <3>3. ASSUME m_queue[t] # <<>>
          PROVE  /\ q \in [Thread -> Seq(ThreadEvent)] /\ Quiet(apc, q)
                 /\ Head(m_queue[t]) # "shutdown"
      <4>1. /\ m_queue[t] \in Seq(ThreadEvent) /\ m_queue[t] # <<>>
            /\ \A i \in 1 .. Len(m_queue[t]) : m_queue[t][i] # "shutdown"
        BY <1>0, <1>00, <2>0, <3>3 DEF Quiet
      <4>2. /\ Head(m_queue[t]) = m_queue[t][1] /\ Len(m_queue[t]) \in Nat \ {0}
            /\ Tail(m_queue[t]) \in Seq(ThreadEvent)
            /\ Len(Tail(m_queue[t])) = Len(m_queue[t]) - 1
            /\ \A i \in 1 .. Len(Tail(m_queue[t])) : Tail(m_queue[t])[i] = m_queue[t][i + 1]
        BY <4>1
      <4>3. \A i \in 1 .. Len(Tail(m_queue[t])) : Tail(m_queue[t])[i] # "shutdown"
        BY <4>1, <4>2
      <4>4. \A u \in Thread : q[u] = IF u = t THEN Tail(m_queue[t]) ELSE m_queue[u]
        BY <1>00
      <4> QED BY <1>0, <1>00, <4>1, <4>2, <4>3, <4>4 DEF Quiet
    <3>4. CASE m_queue[t] # <<>> /\ WorkerCode(r, q, "unlock")
      BY <2>7, <3>1, <3>3, <3>4
    <3> QED BY <2>8, <3>2, <3>3, <3>4 DEF RunExec
  <2>9. CASE RunTick(r)
    BY <1>0, <1>00, <2>7, <2>9 DEF RunTick
  <2>16. ~RunHandlerPunts(r) /\ ~RunLogsNullWorker(r)
    <3>1. pc[r] # "handlerPunt"
      BY <1>0, <2>0 DEF RunsOnce
    <3>2. pc[r] = "work" => m_worker[t]
      BY <1>0, <2>0 DEF RunsOnce
    <3> QED BY <3>1, <3>2 DEF RunHandlerPunts, RunLogsNullWorker, At
  <2>17. CASE RunUnlock(r)
    BY <1>0, <1>6, <2>00, <2>1, <2>17 DEF RunUnlock, At, GoTo
  <2>10. CASE RunMarkDeleting(r)
    BY <1>0, <1>6, <2>00, <2>1, <2>10 DEF RunMarkDeleting, At, GoTo
  <2>11. CASE RunShutdownWorker(r)
    BY <1>0, <1>00, <2>7, <2>11 DEF RunShutdownWorker
  <2>21. ~RunTerminatesItself(r)
    BY <1>0, <2>0 DEF RunTerminatesItself, At, RunsOnce
  <2>20. ASSUME pc[r] \notin {"idle", "end"}, NEW to, pc' = [pc EXCEPT ![r] = to],
                UNCHANGED <<appQueue, life, runs, apc, m_queue, fault>>,
                \A u \in Thread : u # t => m_ready'[u] = m_ready[u] /\ m_worker'[u] = m_worker[u],
                to # "handlerPunt", to \in {"quit", "punt", "end"} => ~m_ready'[t],
                ~m_worker'[t] => to \in {"ready", "quit", "punt", "end"}
         PROVE  Goal
    <3>1. RunsOnce(life', m_ready', runs', m_worker', pc')
      BY <1>0, <1>00, <2>0, <2>20, RunsOnceMoves
    <3>2. \A u \in Thread : pc[<<u, 1>>] = "end" => pc'[<<u, 1>>] = "end"
      BY <1>00, <2>20
    <3>3. QueueInv(appQueue', life', pc')
      BY <1>0, <2>20, <3>2 DEF QueueInv
    <3> QED BY <1>0, <2>20, <3>1, <3>3 DEF OnlyStartAndSlotsFail
  <2>12. CASE RunResetWorker(r)
    BY <2>20, <2>12 DEF RunResetWorker, At, GoTo, TypeOK
  <2>13. CASE RunClearReady(r)
    BY <1>0, <2>0, <2>20, <2>13 DEF RunClearReady, At, GoTo, TypeOK, RunsOnce
  <2>14. CASE RunQuit(r)
    <3>1. pc[r] = "quit" /\ pc' = [pc EXCEPT ![r] = "punt"]
          /\ UNCHANGED <<appQueue, life, runs, apc, m_queue, m_ready, m_worker, fault>>
      BY <2>14 DEF RunQuit, At, GoTo
    <3>2. ~m_ready[t]
      BY <1>0, <2>0, <3>1 DEF RunsOnce
    <3> QED BY <2>20, <3>1, <3>2
  <2>18. CASE RunPunts(r)
    <3>1. /\ pc[r] = "punt" /\ life[t] # "freed"
          /\ UNCHANGED <<life, runs, apc, m_queue, m_ready, m_worker, fault>>
          /\ appQueue' = Append(appQueue, Remove(t))
          /\ pc' = [pc EXCEPT ![r] = "end"]
          /\ \A s \in Run : pc'[s] = IF s = r THEN "end" ELSE pc[s]
      BY <1>00, <2>18 DEF RunPunts, At, GoTo, Post
    <3>2. r = <<t, 1>> /\ life[t] = "live"
      BY <1>0, <2>0, <3>1 DEF RunsOnce, TypeOK
    <3>3. pc'[<<t, 1>>] = "end" /\ pc[<<t, 1>>] = "punt"
      BY <1>00, <2>0, <3>1, <3>2
    <3>4. Removals(appQueue, t) = {}
      BY <1>0, <2>0, <3>3 DEF QueueInv
    <3>5. \A u \in Thread : pc[<<u, 1>>] = "end" => pc'[<<u, 1>>] = "end"
      BY <1>00, <3>1
    <3>6. \A u \in Thread : Removals(appQueue', u) = Removals(appQueue, u)
                \cup (IF u = t THEN {Len(appQueue) + 1} ELSE {})
      <4> SUFFICES ASSUME NEW u \in Thread
                   PROVE  Removals(appQueue', u) = Removals(appQueue, u)
                             \cup (IF u = t THEN {Len(appQueue) + 1} ELSE {})
        OBVIOUS
      <4>1. Remove(t) \in AppEvents /\ (Remove(t) = Remove(u) <=> u = t)
        BY <2>0, AppEventsTyped, EventsDiffer
      <4>2. Removals(Append(appQueue, Remove(t)), u) = Removals(appQueue, u)
              \cup (IF Remove(t) = Remove(u) THEN {Len(appQueue) + 1} ELSE {})
        BY <1>00, <4>1, RemovalsAppend
      <4> QED BY <3>1, <4>1, <4>2
    <3>7. \A i \in 1 .. Len(appQueue') : appQueue'[i] # AppEvent("Close")
      <4>1. Remove(t) # AppEvent("Close") /\ Remove(t) \in AppEvents
        BY <2>0, EventsDiffer, AppEventsTyped
      <4>2. \A i \in 1 .. Len(appQueue) : appQueue[i] # AppEvent("Close")
        BY <1>0 DEF QueueInv
      <4> DEFINE e == Remove(t)
      <4> HIDE DEF e
      <4>3. e # AppEvent("Close") /\ appQueue' = Append(appQueue, e)
        BY <3>1, <4>1 DEF e
      <4> QED BY <1>00, <4>2, <4>3
    <3>8. QueueInv(appQueue', life', pc')
      <4>1. ASSUME NEW u \in Thread, Removals(appQueue', u) # {}
            PROVE  life'[u] = "live" /\ pc'[<<u, 1>>] = "end"
        <5>1. CASE u = t
          BY <2>0, <3>1, <3>2, <3>3, <5>1
        <5>2. CASE u # t
          <6>1. Removals(appQueue, u) # {}
            BY <3>6, <4>1, <5>2
          <6>2. life[u] = "live" /\ pc[<<u, 1>>] = "end"
            BY <1>0, <6>1 DEF QueueInv
          <6> QED BY <3>1, <3>5, <6>2
        <5> QED BY <5>1, <5>2
      <4>2. ASSUME NEW u \in Thread PROVE \A i, j \in Removals(appQueue', u) : i = j
        <5>1. \A i, j \in Removals(appQueue, u) : i = j
          BY <1>0 DEF QueueInv
        <5> QED BY <3>4, <3>6, <5>1
      <4> QED BY <3>7, <4>1, <4>2 DEF QueueInv
    <3>9. RunsOnce(life', m_ready', runs', m_worker', pc')
      <4>1. ~m_ready[t]
        BY <1>0, <2>0, <3>3 DEF RunsOnce
      <4> QED BY <1>0, <1>00, <2>0, <3>1, <3>2, <4>1, RunsOnceMoves
    <3> QED BY <1>0, <3>1, <3>8, <3>9 DEF OnlyStartAndSlotsFail
  <2>15. ~RunOnFreed(r)
    BY <1>0, <2>0 DEF RunOnFreed, RunsOnce
  <2> QED BY <1>6, <2>3, <2>4, <2>5, <2>6, <2>8, <2>9, <2>10, <2>11, <2>12, <2>13,
             <2>14, <2>15, <2>16, <2>17, <2>18, <2>21 DEF RunStep
<1>7. ASSUME AppStep, fault = "none"
      PROVE  Goal
  <2> USE DEF Unchanged_App
  <2>0. ASSUME appQueue # <<>>
        PROVE  /\ QueueInv(Tail(appQueue), life, pc)
               /\ \A t \in Thread : Head(appQueue) = Remove(t) =>
                    Removals(Tail(appQueue), t) = {} /\ life[t] = "live" /\ pc[<<t, 1>>] = "end"
               /\ Head(appQueue) # AppEvent("Close")
               /\ Tail(appQueue) \in Seq(AppEvents)
    BY <1>0, <1>00, <2>0, QueueInvTail
  <2>1. ASSUME NEW t \in Thread, AppRemoves(t)
        PROVE  Goal
    <3>1. /\ UNCHANGED <<runs, m_ready, m_worker, pc, apc, m_queue, fault>>
          /\ \A u \in Thread : life'[u] = IF u = t THEN "freed" ELSE life[u]
          /\ appQueue # <<>> /\ Head(appQueue) = Remove(t) /\ life[t] = "live"
          /\ \/ appQueue' = Append(Tail(appQueue), AppEvent("ThreadsGone"))
             \/ appQueue' = Tail(appQueue)
      BY <2>1 DEF AppRemoves, Pulls, TypeOK
    <3>2. Removals(Tail(appQueue), t) = {} /\ pc[<<t, 1>>] = "end"
      BY <2>0, <3>1
    <3>3. QueueInv(Tail(appQueue), life', pc)
      BY <2>0, <3>1, <3>2 DEF QueueInv
    <3>4. QueueInv(appQueue', life', pc')
      BY <2>0, <3>1, <3>3, QueueInvAppend
    <3>5. RunsOnce(life', m_ready, runs, m_worker, pc)
      <4>1. \A u \in Thread : life'[u] = life[u] \/ (life'[u] = "freed" /\ pc[<<u, 1>>] = "end")
        BY <3>1, <3>2
      <4>2. RunsOnce(life, m_ready, runs, m_worker, pc) /\ \A r \in Run : r[1] \in Thread
        BY <1>0, <1>00
      <4> QED BY <4>1, <4>2, RunsOnceLife
    <3>6. RunsOnce(life', m_ready', runs', m_worker', pc')
      BY <3>1, <3>5
    <3> QED BY <1>0, <3>1, <3>4, <3>6 DEF OnlyStartAndSlotsFail
  <2>2. ASSUME NEW t \in Thread, AppRefusesToRemove(t)
        PROVE  FALSE
    <3>1. pc[<<t, 1>>] = "end" /\ m_ready[t]
      BY <2>0, <2>2 DEF AppRefusesToRemove, Pulls
    <3> QED BY <1>0, <3>1 DEF RunsOnce
  <2>3. ASSUME NEW t \in Thread, AppRemovesAgain(t)
        PROVE  FALSE
    BY <2>0, <2>3 DEF AppRemovesAgain, Pulls
  <2>8. ASSUME NEW t \in Thread, AppGetsStuck(t)
        PROVE  Goal
    <3>1. /\ appQueue # <<>> /\ appQueue' = Tail(appQueue) /\ apc' = "stuck"
          /\ UNCHANGED <<life, runs, m_ready, m_worker, pc, m_queue, fault>>
      BY <2>8 DEF AppGetsStuck, Pulls
    <3>2. Quiet(apc', m_queue')
      BY <1>0, <3>1 DEF Quiet
    <3> QED BY <1>0, <2>0, <3>1, <3>2 DEF OnlyStartAndSlotsFail
  <2>4. CASE AppThreadsGone
    <3>1. /\ appQueue # <<>> /\ appQueue' = Append(Tail(appQueue), AppEvent("Shutdown"))
          /\ UNCHANGED <<life, runs, m_ready, m_worker, pc, apc, m_queue, fault>>
      BY <2>4 DEF AppThreadsGone, Pulls
    <3>2. QueueInv(appQueue', life', pc')
      BY <2>0, <3>1, QueueInvAppend
    <3> QED BY <1>0, <3>1, <3>2 DEF OnlyStartAndSlotsFail
  <2>5. CASE AppShutdown
    <3>1. /\ appQueue # <<>> /\ appQueue' = Tail(appQueue) /\ apc' = "returned"
          /\ UNCHANGED <<life, runs, m_ready, m_worker, pc, m_queue, fault>>
      BY <2>5 DEF AppShutdown, Pulls
    <3>2. Quiet(apc', m_queue')
      BY <1>0, <3>1 DEF Quiet
    <3> QED BY <1>0, <2>0, <3>1, <3>2 DEF OnlyStartAndSlotsFail
  <2>6. ~StopBegins
    BY <2>0 DEF StopBegins, Pulls
  <2>7. apc \notin {"scan", "type", "wait", "quit", "punt", "waitDeleting", "join"}
    BY <1>0 DEF Quiet
  <2> QED BY <1>7, <2>1, <2>2, <2>3, <2>4, <2>5, <2>6, <2>7, <2>8 DEF AppStep,
        StopAsksForWorker, InScan, StopReadsStaleSlot, StopReadsType,
        StopReadsNullWorker, StopTerminates, StopAsksIfStarted, StopQuits, StopPunts,
        StopReadsDeleting, StopJoins, StopNextType
<1>8. ASSUME NEW type \in {"Close", "Shutdown"}, Outside(type)
      PROVE  Goal
  <2>1. /\ type = "Shutdown" /\ appQueue' = Append(appQueue, AppEvent("Shutdown"))
        /\ UNCHANGED <<life, runs, m_ready, m_worker, pc, apc, m_queue, fault>>
    BY <1>8 DEF Outside, Post, SelfTerminating
  <2>2. QueueInv(appQueue', life', pc')
    BY <1>0, <1>00, <2>1, QueueInvAppend
  <2> QED BY <1>0, <2>1, <2>2 DEF OnlyStartAndSlotsFail
<1> QED BY <1>2, <1>3, <1>4, <1>5, <1>6, <1>7, <1>8 DEF Next

LEMMA SelfInvInvariant ==
    ASSUME SelfTerminating
    PROVE  Spec => []SelfInv
<1>1. Init => SelfInv
  BY DEF Init, SelfInv, Removals, OnlyStartAndSlotsFail, Run
<1>2. TypeOK /\ LiveThreadsListed /\ SelfInv /\ [Next]_vars => SelfInv'
  BY SelfInvStep
<1> QED BY <1>1, <1>2, TypeCorrect, LiveThreadsStayListed, PTL DEF Spec

\* Every Thread of a self-terminating program is removed at most once ...
THEOREM RemovalIsUnique == ASSUME SelfTerminating PROVE Spec => []RemovedOnce
<1>1. SelfInv => RemovedOnce
  BY DEF SelfInv, RemovedOnce
<1> QED BY <1>1, SelfInvInvariant, PTL

\* ... never while its run() is under way ...
THEOREM NoRunOnDeletedThread == ASSUME SelfTerminating PROVE Spec => []RunOwnsItsThread
<1>1. SelfInv => RunOwnsItsThread
  <2> SUFFICES ASSUME SelfInv, NEW r \in Run, life[r[1]] = "freed"
               PROVE  pc[r] \in {"idle", "end"}
    BY DEF RunOwnsItsThread
  <2>1. pc[r] # "idle" => r = <<r[1], 1>>
    BY DEF SelfInv, Run
  <2>2. r[1] \in Thread /\ pc[<<r[1], 1>>] = "end"
    BY DEF SelfInv, Run
  <2> QED BY <2>1, <2>2
<1> QED BY <1>1, SelfInvInvariant, PTL

\* ... and nothing else than the start of run() and a deleted thread that is
\* still in m_threads can go wrong.
THEOREM SelfTerminationIsClean ==
    ASSUME SelfTerminating PROVE Spec => []OnlyStartAndSlotsFail
<1>1. SelfInv => OnlyStartAndSlotsFail
  BY DEF SelfInv
<1> QED BY <1>1, SelfInvInvariant, PTL

-----------------------------------------------------------------------------
(* Third part: ThreadLifecycle implements ThreadRegistry when the threads end   *)
(* themselves and no signal announces the end before they do.                   *)

\* Neither stop(), nor a late start, nor DrumlinEventThreadShutdown, nor a signal.
LeftToItself == SelfTerminating /\ "signal" \notin Calls

Announcement(e) == e.type \in {"ThreadsGone", "Shutdown"}
Announced(q) == \E i \in 1 .. Len(q) : Announcement(q[i])

LEMMA AnnouncedAppend ==
    ASSUME NEW q \in Seq(AppEvents), NEW e \in AppEvents
    PROVE  Announced(Append(q, e)) <=> Announced(q) \/ Announcement(e)
<1> DEFINE a == Append(q, e)
<1>1. /\ Len(q) \in Nat /\ Len(a) = Len(q) + 1 /\ a[Len(q) + 1] = e
      /\ \A i \in 1 .. Len(q) : a[i] = q[i]
  OBVIOUS
<1> HIDE DEF a
<1>2. Announced(a) <=> Announced(q) \/ Announcement(e)  BY <1>1 DEF Announced
<1>3. QED  BY <1>2 DEF a

LEMMA AnnouncedTail ==
    ASSUME NEW q \in Seq(AppEvents), q # <<>>
    PROVE  Announced(q) <=> Announced(Tail(q)) \/ Announcement(Head(q))
<1> DEFINE a == Tail(q)
<1>1. /\ Len(q) \in Nat \ {0} /\ Len(a) = Len(q) - 1 /\ Head(q) = q[1]
      /\ \A i \in 1 .. Len(a) : a[i] = q[i + 1]
  OBVIOUS
<1> HIDE DEF a
<1>2. ASSUME NEW i \in 1 .. Len(q) PROVE i = 1 \/ (i - 1 \in 1 .. Len(a) /\ a[i - 1] = q[i])
  BY <1>1
<1>3. \A i \in 1 .. Len(a) : i + 1 \in 1 .. Len(q)  BY <1>1
<1>4. Announced(q) <=> Announced(a) \/ Announcement(Head(q))
  BY <1>1, <1>2, <1>3 DEF Announced
<1>5. QED  BY <1>4 DEF a

LEMMA Announcements ==
    /\ \A t \in Thread : Remove(t) \in AppEvents /\ ~Announcement(Remove(t))
    /\ \A k \in {"ThreadsGone", "Shutdown"} : AppEvent(k) \in AppEvents /\ Announcement(AppEvent(k))
BY DEF Announcement, AppEvents, Remove, AppEvent

-----------------------------------------------------------------------------
(* What a step does to the two variables of the registry.                       *)

Ended(p, t) == \E i \in 1 .. MaxRuns : p[<<t, i>>] = "end"

StatusIn(lf, p) ==
    [t \in Thread |-> IF lf[t] = "new" THEN "absent"
                      ELSE IF lf[t] = "freed" THEN "removed"
                      ELSE IF Ended(p, t) THEN "leaving" ELSE "added"]

LEMMA StatusOf ==
    TypeOK => registryStatus = StatusIn(life, pc) /\ registryStatus' = StatusIn(life', pc')
BY DEF registryStatus, StatusIn, Ended

LEMMA EndedKept ==
    ASSUME NEW p, NEW n, \A r \in Run : n[r] = "end" <=> p[r] = "end", NEW t \in Thread
    PROVE  Ended(n, t) <=> Ended(p, t)
BY DEF Ended, Run

LEMMA StatusKept ==
    ASSUME TypeOK, life' = life, \A r \in Run : pc'[r] = "end" <=> pc[r] = "end"
    PROVE  registryStatus' = registryStatus
<1>1. \A t \in Thread : Ended(pc', t) <=> Ended(pc, t)  BY EndedKept
<1>2. StatusIn(life', pc') = StatusIn(life, pc)  BY <1>1 DEF StatusIn
<1>3. QED  BY <1>2, StatusOf

LEMMA GoneKept ==
    ASSUME terminated' = terminated, Announced(appQueue') <=> Announced(appQueue)
    PROVE  goneAnnounced' = goneAnnounced
<1>1. goneAnnounced' <=> goneAnnounced  BY DEF goneAnnounced, Announced, Announcement
<1>2. QED  BY <1>1 DEF goneAnnounced
-----------------------------------------------------------------------------
(* The steps of the registry.                                                   *)

RegistryVars == <<registryStatus, goneAnnounced>>

LEMMA AddIsAdd ==
    ASSUME TypeOK, SelfInv, NEW t \in Thread, AddPaused(t) \/ AddStarted(t)
    PROVE  Registry!Add(t)
<1> USE DEF appVars, stopVars, flagVars, startVars
<1>1. /\ life[t] = "new" /\ life' = [life EXCEPT ![t] = "live"]
      /\ UNCHANGED <<appQueue, terminated>>
  BY DEF AddPaused, AddStarted
<1>2. \A r \in Run : r[1] = t => pc[r] = "idle"  BY <1>1 DEF SelfInv
<1>3. pc' = pc \/ pc' = [pc EXCEPT ![<<t, runs[t] + 1>>] = "beforeWork"]
  BY DEF AddPaused, AddStarted, BeginRun
<1>4. ASSUME NEW r \in Run PROVE pc'[r] = "end" <=> pc[r] = "end"
  <2> DEFINE n == <<t, runs[t] + 1>>
  <2>1. CASE pc' = pc  BY <2>1
  <2>2. CASE pc' = [pc EXCEPT ![n] = "beforeWork"]
    <3>1. pc'[r] = IF r = n THEN "beforeWork" ELSE pc[r]  BY <2>2 DEF TypeOK
    <3>2. r = n => pc[r] = "idle"
      <4>1. r = n => r[1] = t  OBVIOUS
      <4>2. QED  BY <1>2, <4>1
    <3>3. QED  BY <3>1, <3>2
  <2>3. QED  BY <1>3, <2>1, <2>2
<1>5. \A u \in Thread : Ended(pc', u) <=> Ended(pc, u)  BY <1>4, EndedKept
<1>6. ~Ended(pc, t)
  <2>1. \A i \in 1 .. MaxRuns : <<t, i>> \in Run /\ <<t, i>>[1] = t  BY DEF Run
  <2>2. \A i \in 1 .. MaxRuns : pc[<<t, i>>] = "idle"  BY <1>2, <2>1
  <2>3. QED  BY <2>2 DEF Ended
<1>7. StatusIn(life', pc') = [StatusIn(life, pc) EXCEPT ![t] = "added"]
  BY <1>1, <1>5, <1>6 DEF StatusIn, TypeOK
<1>8. StatusIn(life, pc)[t] = "absent"  BY <1>1 DEF StatusIn
<1>9. goneAnnounced' = goneAnnounced  BY <1>1, GoneKept
<1>10. QED  BY <1>7, <1>8, <1>9, StatusOf DEF Registry!Add

(* The end of run() is the only step to "end": the thread asks to be removed.   *)
LEMMA PuntIsLeave ==
    ASSUME TypeOK, SelfInv, NEW r \in Run, RunPunts(r)
    PROVE  Registry!Leave(r[1])
<1> DEFINE t == r[1]
<1>1. /\ pc[r] = "punt" /\ life[t] # "freed" /\ pc' = [pc EXCEPT ![r] = "end"] /\ life' = life
      /\ appQueue' = Append(appQueue, Remove(t)) /\ terminated' = terminated
  BY DEF RunPunts, At, GoTo, Post, flagVars
<1>2. t \in Thread /\ r = <<t, 1>> /\ 1 \in 1 .. MaxRuns /\ life[t] # "new"
  BY <1>1, ConstantsAssumption DEF SelfInv, Run
<1>3. life[t] = "live"  BY <1>1, <1>2 DEF TypeOK
<1>4. \A i \in 1 .. MaxRuns : pc[<<t, i>>] # "end"
  <2>1. ASSUME NEW i \in 1 .. MaxRuns PROVE pc[<<t, i>>] # "end"
    <3>1. <<t, i>> \in Run /\ <<t, i>>[2] = i  BY <1>2 DEF Run
    <3>2. pc[<<t, i>>] = "end" => i = 1  BY <3>1 DEF SelfInv
    <3>3. QED  BY <1>1, <1>2, <3>2
  <2>2. QED  BY <2>1
<1>5. pc'[<<t, 1>>] = "end"  BY <1>1, <1>2 DEF TypeOK
<1>6. ASSUME NEW u \in Thread, u # t PROVE Ended(pc', u) <=> Ended(pc, u)
  <2>1. \A i \in 1 .. MaxRuns : <<u, i>> \in Run /\ <<u, i>> # r  BY <1>2, <1>6 DEF Run
  <2>2. \A i \in 1 .. MaxRuns : pc'[<<u, i>>] = pc[<<u, i>>]  BY <1>1, <2>1 DEF TypeOK
  <2>3. QED  BY <2>2 DEF Ended
<1>7. ~Ended(pc, t) /\ Ended(pc', t)  BY <1>2, <1>4, <1>5 DEF Ended
<1> HIDE DEF t
<1>8. StatusIn(life', pc') = [StatusIn(life, pc) EXCEPT ![t] = "leaving"]
  BY <1>1, <1>2, <1>3, <1>6, <1>7 DEF StatusIn
<1>9. StatusIn(life, pc)[t] = "added"  BY <1>2, <1>3, <1>7 DEF StatusIn
<1>10. Announced(appQueue') <=> Announced(appQueue)
  BY <1>1, <1>2, AnnouncedAppend, Announcements DEF TypeOK
<1>11. goneAnnounced' = goneAnnounced  BY <1>1, <1>10, GoneKept
<1>12. QED  BY <1>8, <1>9, <1>11, StatusOf DEF Registry!Leave, t

(* The thread that is removed has asked for it, and when std::remove() keeps    *)
(* nothing no other thread is left.                                             *)
LEMMA RemoveIsRemove ==
    ASSUME TypeOK, SelfInv, LiveThreadsListed, NEW t \in Thread, AppRemoves(t)
    PROVE  Registry!RemoveThread(t)
<1>1. /\ appQueue # <<>> /\ Head(appQueue) = Remove(t) /\ life[t] = "live"
      /\ life' = [life EXCEPT ![t] = "freed"] /\ pc' = pc /\ terminated' = terminated
      /\ appQueue' = IF Distance(m_threads, t) = 0
                     THEN Append(Tail(appQueue), AppEvent("ThreadsGone"))
                     ELSE Tail(appQueue)
  BY DEF AppRemoves, Pulls, Unchanged_App
<1>2. appQueue \in Seq(AppEvents) /\ Tail(appQueue) \in Seq(AppEvents)  BY <1>1 DEF TypeOK
<1>3. Ended(pc, t)
  <2>1. Removals(appQueue, t) # {}  BY <1>1, <1>2, RemovalsTail
  <2>2. pc[<<t, 1>>] = "end"  BY <2>1 DEF SelfInv
  <2>3. QED  BY <2>2, ConstantsAssumption DEF Ended
<1>4. StatusIn(life', pc') = [StatusIn(life, pc) EXCEPT ![t] = "removed"]
  BY <1>1 DEF StatusIn, TypeOK
<1>5. StatusIn(life, pc)[t] = "leaving"  BY <1>1, <1>3 DEF StatusIn
<1>6. Announced(Tail(appQueue)) <=> Announced(appQueue)
  BY <1>1, <1>2, AnnouncedTail, Announcements
<1>7. CASE Distance(m_threads, t) # 0
  <2>1. goneAnnounced' = goneAnnounced  BY <1>1, <1>6, <1>7, GoneKept
  <2>2. QED  BY <1>4, <1>5, <2>1, StatusOf DEF Registry!RemoveThread
<1>8. CASE Distance(m_threads, t) = 0
  <2>1. goneAnnounced'
    <3>1. Announced(appQueue')  BY <1>1, <1>2, <1>8, AnnouncedAppend, Announcements
    <3>2. QED  BY <3>1 DEF goneAnnounced, Announced, Announcement
  <2>2. \A u \in Thread : u # t => life[u] # "live"
    <3>1. m_threads \in Seq(Thread)  BY DEF TypeOK
    <3>2. \A i \in 1 .. Len(m_threads) : m_threads[i] = t  BY <1>8, <3>1, DistanceZero
    <3>3. QED  BY <3>2 DEF LiveThreadsListed, Slots
  <2>3. \A u \in Thread : StatusIn(life', pc')[u] \in {"absent", "removed"}
    BY <1>1, <2>2 DEF StatusIn, TypeOK
  <2>4. QED  BY <1>4, <1>5, <2>1, <2>3, StatusOf DEF Registry!RemoveThread
<1>9. QED  BY <1>7, <1>8
(* What changes neither variable of the registry.                               *)
Stutters == UNCHANGED RegistryVars

LEMMA StuttersIf ==
    ASSUME TypeOK, life' = life, terminated' = terminated,
           \A r \in Run : pc'[r] = "end" <=> pc[r] = "end",
           Announced(appQueue') <=> Announced(appQueue)
    PROVE  Stutters
BY StatusKept, GoneKept DEF Stutters, RegistryVars

LEMMA RunStutters ==
    ASSUME TypeOK, SelfTerminating, NEW r \in Run, RunStep(r), ~RunPunts(r)
    PROVE  Stutters
<1> USE DEF appVars, stopVars, flagVars, startVars
<1>1. life' = life /\ terminated' = terminated
  BY DEF RunStep, RunPostBeforeWork, RunPostWork, RunLoop, RunReadsNullThread,
     RunExec, RunTick, RunMarkDeleting, RunShutdownWorker, RunTerminatesItself, RunResetWorker,
     RunClearReady, RunQuit, RunHandlerPunts, RunUnlock, RunLogsNullWorker, RunOnFreed
<1>2. appQueue' = appQueue \/ appQueue' = Append(appQueue, Remove(r[1]))
  BY DEF RunStep, RunPostBeforeWork, RunPostWork, RunLoop, RunReadsNullThread,
     RunExec, RunTick, RunMarkDeleting, RunShutdownWorker, RunTerminatesItself, RunResetWorker,
     RunClearReady, RunQuit, RunHandlerPunts, RunUnlock, RunLogsNullWorker, RunOnFreed, Post
<1>3. ASSUME NEW q, NEW next \in {"unlock", "loop", "reset"}, WorkerCode(r, q, next)
      PROVE  \E to \in Pc \ {"end"} : pc' = [pc EXCEPT ![r] = to]
  <2>1. GoTo(r, next) \/ GoTo(r, "stuck") \/ GoTo(r, "shutdownStuck")
    BY <1>3 DEF WorkerCode, WorkerReturns, WorkerTerminates, WorkerSends, WorkerSendsToWorkerless,
       WorkerStarts, WorkerReadsStaleSlot, WorkerGetsStuck, SelfTerminating
  <2>2. QED  BY <2>1 DEF GoTo, Pc, Handling, ShuttingDown
<1>4. ASSUME RunExec(r) \/ RunTick(r) \/ RunShutdownWorker(r)
      PROVE  pc[r] # "end" /\ \E to \in Pc \ {"end"} : pc' = [pc EXCEPT ![r] = to]
  <2>1. /\ pc[r] # "end"
        /\ \/ \E q : WorkerReturns(r, q, "unlock") \/ WorkerCode(r, q, "unlock")
                     \/ ThreadQuits(r, q) \/ WorkerCode(r, q, "loop") \/ WorkerCode(r, q, "reset")
    BY <1>4 DEF RunExec, RunTick, RunShutdownWorker, At
  <2>2. \E to \in Pc \ {"end"} : pc' = [pc EXCEPT ![r] = to]
    <3>1. ASSUME NEW q, WorkerReturns(r, q, "unlock") \/ ThreadQuits(r, q)
          PROVE  \E to \in Pc \ {"end"} : pc' = [pc EXCEPT ![r] = to]
      BY <3>1 DEF WorkerReturns, ThreadQuits, GoTo, Pc, Handling
    <3>2. QED  BY <1>3, <2>1, <3>1
  <2>3. QED  BY <2>1, <2>2
<1>5. ASSUME ~(RunExec(r) \/ RunTick(r) \/ RunShutdownWorker(r))
      PROVE  pc' = pc \/ (pc[r] # "end" /\ \E to \in Pc \ {"end"} : pc' = [pc EXCEPT ![r] = to])
  BY <1>5 DEF RunStep, RunPostBeforeWork, RunPostWork, RunLoop, RunReadsNullThread,
     RunMarkDeleting, RunShutdownWorker, RunTerminatesItself, RunResetWorker, RunClearReady, RunQuit,
     RunHandlerPunts, RunUnlock, RunLogsNullWorker, RunOnFreed, At, GoTo, Pc, Handling
<1>6. pc' = pc \/ (pc[r] # "end" /\ \E to \in Pc \ {"end"} : pc' = [pc EXCEPT ![r] = to])
  BY <1>4, <1>5
<1>7. \A s \in Run : pc'[s] = "end" <=> pc[s] = "end"  BY <1>6 DEF TypeOK
<1>8. Announced(appQueue') <=> Announced(appQueue)
  <2>1. Remove(r[1]) \in AppEvents /\ ~Announcement(Remove(r[1]))  BY Announcements DEF Run
  <2>2. appQueue \in Seq(AppEvents)  BY DEF TypeOK
  <2>3. Announced(Append(appQueue, Remove(r[1]))) <=> Announced(appQueue)
    BY <2>1, <2>2, AnnouncedAppend
  <2>4. CASE appQueue' = appQueue  BY <2>4
  <2>5. CASE appQueue' = Append(appQueue, Remove(r[1]))  BY <2>3, <2>5
  <2>6. QED  BY <1>2, <2>4, <2>5
<1>9. QED  BY <1>1, <1>7, <1>8, StuttersIf

LEMMA AppStutters ==
    ASSUME TypeOK, SelfInv, AppStep, \A t \in Thread : ~AppRemoves(t)
    PROVE  Stutters
<1> USE DEF appVars, stopVars, flagVars, startVars, Unchanged_App
<1>1. appQueue \in Seq(AppEvents) /\ apc \in {"exec", "stuck", "returned"}  BY DEF TypeOK, SelfInv
<1>2. ASSUME NEW t \in Thread, AppRefusesToRemove(t) \/ AppGetsStuck(t) PROVE Stutters
  <2>1. /\ appQueue # <<>> /\ Head(appQueue) = Remove(t) /\ appQueue' = Tail(appQueue)
        /\ UNCHANGED <<life, terminated, pc>>
    BY <1>2 DEF AppRefusesToRemove, AppGetsStuck, Pulls
  <2>2. Announced(appQueue') <=> Announced(appQueue)
    BY <1>1, <2>1, AnnouncedTail, Announcements
  <2>3. QED  BY <2>1, <2>2, StuttersIf
<1>3. ASSUME NEW t \in Thread, AppRemovesAgain(t) PROVE Stutters
  BY <1>3, StuttersIf DEF AppRemovesAgain
<1>4. CASE AppThreadsGone
  <2>1. /\ appQueue # <<>> /\ Head(appQueue) = AppEvent("ThreadsGone")
        /\ appQueue' = Append(Tail(appQueue), AppEvent("Shutdown"))
        /\ UNCHANGED <<life, terminated, pc>>
    BY <1>4 DEF AppThreadsGone, Pulls
  <2>2. Tail(appQueue) \in Seq(AppEvents)  BY <1>1, <2>1
  <2>3. Announced(appQueue) /\ Announced(appQueue')
    BY <1>1, <2>1, <2>2, AnnouncedTail, AnnouncedAppend, Announcements
  <2>4. QED  BY <2>1, <2>3, StuttersIf
<1>5. CASE AppShutdown
  <2>1. /\ appQueue # <<>> /\ Head(appQueue) = AppEvent("Shutdown") /\ terminated' = TRUE
        /\ UNCHANGED <<life, pc>>
    BY <1>5 DEF AppShutdown, Pulls
  <2>2. Announced(appQueue)  BY <1>1, <2>1, AnnouncedTail, Announcements
  <2>3. goneAnnounced /\ goneAnnounced'  BY <2>1, <2>2 DEF goneAnnounced, Announced, Announcement
  <2>4. registryStatus' = registryStatus  BY <2>1, StatusKept
  <2>5. goneAnnounced' = goneAnnounced  BY <2>3 DEF goneAnnounced
  <2>6. QED  BY <2>4, <2>5 DEF Stutters, RegistryVars
<1>6. ~StopBegins
  <2>1. appQueue # <<>> => Head(appQueue) # AppEvent("Close")
    BY <1>1, QueueInvTail DEF SelfInv, QueueInv
  <2>2. QED  BY <2>1 DEF StopBegins, Pulls
<1>7. QED
  BY <1>1, <1>2, <1>3, <1>4, <1>5, <1>6 DEF AppStep, StopAsksForWorker, InScan, StopReadsStaleSlot,
     StopReadsType, StopReadsNullWorker, StopTerminates, StopAsksIfStarted, StopQuits, StopPunts,
     StopReadsDeleting, StopJoins, StopNextType

LEMMA RegistryStep ==
    ASSUME LeftToItself
    PROVE  TypeOK /\ LiveThreadsListed /\ SelfInv /\ [Next]_vars => [Registry!Next]_RegistryVars
<1> SUFFICES ASSUME TypeOK, LiveThreadsListed, SelfInv, [Next]_vars
             PROVE  Registry!Next \/ Stutters
  BY DEF Stutters
<1>1. CASE UNCHANGED vars
  BY <1>1, StuttersIf DEF vars, appVars, flagVars
<1>2. ASSUME NEW t \in Thread, AddPaused(t) \/ AddStarted(t) PROVE Registry!Next
  BY <1>2, AddIsAdd DEF Registry!Next
<1>3. ASSUME NEW t \in Thread, EndStart(t) PROVE Stutters
  <2>1. UNCHANGED <<life, terminated, appQueue>>  BY <1>3 DEF EndStart, appVars, flagVars
  <2>2. \A r \in Run : pc'[r] = "end" <=> pc[r] = "end"  BY <1>3 DEF EndStart
  <2>3. QED  BY <2>1, <2>2, StuttersIf
<1>4. ASSUME NEW r \in Run, RunStep(r) PROVE Registry!Next \/ Stutters
  <2>1. CASE RunPunts(r)
    <3>1. r[1] \in Thread  BY DEF Run
    <3>2. QED  BY <2>1, <3>1, PuntIsLeave DEF Registry!Next
  <2>2. CASE ~RunPunts(r)  BY <1>4, <2>2, RunStutters DEF LeftToItself
  <2>3. QED  BY <2>1, <2>2
<1>5. CASE AppStep
  <2>1. ASSUME NEW t \in Thread, AppRemoves(t) PROVE Registry!Next
    BY <2>1, RemoveIsRemove DEF Registry!Next
  <2>2. QED  BY <1>5, <2>1, AppStutters
<1>6. ASSUME NEW type \in {"Close", "Shutdown"}, Outside(type) PROVE FALSE
  BY <1>6 DEF Outside, LeftToItself, SelfTerminating
<1>7. QED  BY <1>1, <1>2, <1>3, <1>4, <1>5, <1>6 DEF Next

(* For any threads, types, sends and starts: the list, the queue and the flags  *)
(* of Application and Thread give the registry that addThread() and             *)
(* removeThread() promise, to a program whose threads end themselves.           *)
THEOREM LifecycleImplementsRegistry ==
    ASSUME LeftToItself PROVE Spec => ImplementsRegistry
<1>1. Init => Registry!Init
  BY ConstantsAssumption DEF Init, Registry!Init, registryStatus, goneAnnounced
<1>2. SelfTerminating  BY DEF LeftToItself
<1>3. Spec => [](TypeOK /\ LiveThreadsListed /\ SelfInv)
  BY <1>2, TypeCorrect, LiveThreadsStayListed, SelfInvInvariant, PTL
<1>4. TypeOK /\ LiveThreadsListed /\ SelfInv /\ [Next]_vars => [Registry!Next]_RegistryVars
  BY RegistryStep
<1>5. QED  BY <1>1, <1>3, <1>4, PTL DEF Spec, ImplementsRegistry, Registry!Spec, RegistryVars
=============================================================================
