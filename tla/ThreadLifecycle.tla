--------------------------- MODULE ThreadLifecycle ---------------------------
(***************************************************************************)
(* The life of the threads of a drumlin program: Application (its list of  *)
(* threads, its event loop, stop()), Thread (its flags, its queue, run())  *)
(* and the events that connect them.                                       *)
(*                                                                         *)
(* A step is a stretch of code that one mutex protects, or one access of a *)
(* member that no mutex protects.  Three mutexes are held across steps:    *)
(* Application::m_critical_section (by stop() while it scans m_threads, by *)
(* whoever is inside Thread::start()), Thread::m_mutex (by start(), and by *)
(* quit() until ThreadRemove is posted) and the static mutex of            *)
(* Thread::event (while a worker handles an event).                        *)
(*                                                                         *)
(* Undefined behaviour ends the behaviour: it is recorded in "fault" and   *)
(* no step follows.                                                        *)
(***************************************************************************)
EXTENDS Integers, Sequences, FiniteSets

CONSTANTS
    Thread,    \* the Thread objects the program creates
    NoThread,  \* a null Thread*
    TypeOf,    \* ThreadWorker::getType() of each thread's worker
    LastType,  \* ThreadType_last; ThreadType_first is 0
    Debug,     \* the values that the global drumlin::debug may have
    Calls,     \* what workers and the outside do: a subset of AllCalls
    MaxRuns,   \* bound: times start() may create a boost::thread for one Thread
    MaxCalls   \* bound: events that workers and the outside may cause

AllCalls == {"terminate", "send", "pause", "start", "shutdown", "close", "signal"}

ASSUME ConstantsAssumption ==
    /\ IsFiniteSet(Thread) /\ NoThread \notin Thread
    /\ LastType \in Nat \ {0}
    /\ TypeOf \in [Thread -> 1 .. LastType]
    /\ Debug \subseteq BOOLEAN
    /\ Calls \subseteq AllCalls
    /\ MaxRuns \in Nat \ {0}
    /\ MaxCalls \in Nat

Run == Thread \X (1 .. MaxRuns)   \* the i-th boost::thread of a Thread

\* Work and Shutdown are DrumlinEventThreadWork and DrumlinEventThreadShutdown;
\* "notify" is DrumlinEventThreadNotify, whatever its name.
ThreadEvent == {"notify", "work", "shutdown"}

Remove(t)  == [type |-> "Remove", thread |-> t]
AppEvent(type) == [type |-> type, thread |-> NoThread]

AppEvents == {Remove(t) : t \in Thread}
             \cup {AppEvent(k) : k \in {"Close", "ThreadsGone", "Shutdown"}}

Fault == {"none", "staleSlot", "freedRun", "doubleRemove",
          "nullWorker", "nullTarget", "nullThread", "noThread"}

\* "stuck": in worker code that holds the Application's mutex and waits for an
\* m_mutex.  The others up to "tickStarts" are inside Thread::event too.
Handling == {"stuck", "handlerPunt", "execStarts", "tickStarts"}
\* The same in the worker's shutdown(), which run() calls on its own.
ShuttingDown == {"shutdownStuck", "shutdownStarts"}
Pc == {"idle", "beforeWork", "work", "loop", "exec", "unlock", "tick", "deleting",
       "worker", "reset", "ready", "quit", "punt", "end"} \cup Handling \cup ShuttingDown

AppPc == {"exec", "stuck", "scan", "type", "wait", "quit", "punt", "waitDeleting",
          "join", "returned"}

VARIABLES
    m_threads,    \* Application::m_threads, with the tail std::remove leaves
    appQueue,     \* Application::m_queue
    terminated,   \* Application::terminated
    apc,          \* where Application::exec() and stop() are
    stopType,     \* stop(): the loop variable "type"
    stopSel,      \* stop(): the vector "_threads"
    stopPos,      \* stop(): position in m_threads, then in stopSel
    life,         \* the Thread object: "new" (not added), "live", "freed"
    m_ready, m_deleting, m_terminated,
    m_worker,     \* m_worker is not null
    m_thread,     \* the run m_thread refers to, 0 when it is null
    m_queue,      \* Thread::m_queue
    runs,         \* boost::threads created for each Thread
    pc,           \* where each run() is
    starting,     \* the Thread whose start() is under way, or NoThread
    loopLock,     \* the static mutex in run() is locked
    issued,       \* events caused so far, at most MaxCalls
    fault

appVars   == <<m_threads, appQueue, terminated>>
stopVars  == <<apc, stopType, stopSel, stopPos>>
flagVars  == <<life, m_ready, m_deleting, m_terminated, m_worker>>
startVars == <<m_thread, runs, starting>>
vars == <<appVars, stopVars, flagVars, startVars,
          m_queue, pc, loopLock, issued, fault>>

-----------------------------------------------------------------------------
(* The vector of threads.                                                  *)

Slots == {m_threads[i] : i \in 1 .. Len(m_threads)}

\* The positions std::remove keeps, and how many of them are up to i.
Keep(s, t)    == {i \in 1 .. Len(s) : s[i] # t}
Rank(K, i)    == Cardinality({j \in K : j =< i})

\* Mutant: the count stops one short of endIter.
DistanceOneShort(s, t) == Cardinality(Keep(s, t)) - 1

\* std::distance(begin, endIter) after std::remove(begin, end, t).
Distance(s, t) == Cardinality(Keep(s, t))

\* Mutant: the vector loses its last element, whoever that is.
StdRemovePopsBack(s, t) == SubSeq(s, 1, Len(s) - 1)

\* std::remove without erase: the kept elements move to the front in their
\* order, and the positions behind them keep what they held.
StdRemove(s, t) ==
    [k \in 1 .. Len(s) |->
        IF k =< Distance(s, t)
        THEN s[CHOOSE i \in Keep(s, t) : Rank(Keep(s, t), i) = k]
        ELSE s[k]]

\* Some element of m_threads points to a deleted Thread.
StaleSlot == \E t \in Slots : life[t] = "freed"

-----------------------------------------------------------------------------
Init ==
    /\ m_threads = <<>>
    /\ appQueue = <<>>
    /\ terminated = FALSE
    /\ apc = "exec"
    /\ stopType = 0
    /\ stopSel = <<>>
    /\ stopPos = 1
    /\ life = [t \in Thread |-> "new"]
    /\ m_ready = [t \in Thread |-> FALSE]
    /\ m_deleting = [t \in Thread |-> FALSE]
    /\ m_terminated = [t \in Thread |-> FALSE]
    /\ m_worker = [t \in Thread |-> TRUE]
    /\ m_thread = [t \in Thread |-> 0]
    /\ m_queue = [t \in Thread |-> <<>>]
    /\ runs = [t \in Thread |-> 0]
    /\ pc = [r \in Run |-> "idle"]
    /\ starting = NoThread
    /\ loopLock = FALSE
    /\ issued = 0
    /\ fault = "none"

-----------------------------------------------------------------------------
(* Locks that are held across steps.                                       *)

\* Application::m_critical_section: stop() holds it while it scans m_threads,
\* addThread() and the ThreadAccessor around Thread::start(), and whoever is
\* stuck.
AppLockFree ==
    /\ apc \notin {"scan", "type", "stuck"}
    /\ starting = NoThread
    /\ \A r \in Run : pc[r] \notin {"stuck", "shutdownStuck"}

\* quit() of t is under way: it holds t.m_mutex and has yet to post.
InQuit(t) ==
    \/ \E i \in 1 .. MaxRuns : pc[<<t, i>>] \in {"punt", "handlerPunt"}
    \/ apc = "punt" /\ stopSel[stopPos] = t

\* t.m_mutex, which start() holds until m_thread is assigned.
MutexFree(t) == starting # t /\ ~InQuit(t)

\* The static mutex in Thread::event.
EventMutexFree == \A r \in Run : pc[r] \notin Handling

\* Application::post, which Thread::quit and event::punt end in.
Post(e) == AppLockFree /\ appQueue' = Append(appQueue, e)

-----------------------------------------------------------------------------
(* Application::addThread and Thread::start.                               *)

\* Mutant: start() does not ask whether the thread is started.
BeginRunTwice(t, p) ==
    /\ runs[t] < MaxRuns
    /\ m_ready' = [m_ready EXCEPT ![t] = TRUE]
    /\ runs' = [runs EXCEPT ![t] = @ + 1]
    /\ pc' = [p EXCEPT ![<<t, runs[t] + 1>>] = "beforeWork"]
    /\ starting' = t

\* The part of start() up to the creation of the boost::thread, when m_ready
\* is not set yet; p is the pc of all runs before the new one begins.
BeginRun(t, p) ==
    /\ ~m_ready[t]
    /\ runs[t] < MaxRuns
    /\ m_ready' = [m_ready EXCEPT ![t] = TRUE]
    /\ runs' = [runs EXCEPT ![t] = @ + 1]
    /\ pc' = [p EXCEPT ![<<t, runs[t] + 1>>] = "beforeWork"]
    /\ starting' = t

AddPaused(t) ==
    /\ life[t] = "new" /\ AppLockFree
    /\ "pause" \in Calls
    /\ m_threads' = Append(m_threads, t)
    /\ life' = [life EXCEPT ![t] = "live"]
    /\ UNCHANGED <<appQueue, terminated, stopVars, m_ready, m_deleting,
                   m_terminated, m_worker, startVars, m_queue, pc, loopLock,
                   issued, fault>>

AddStarted(t) ==
    /\ life[t] = "new" /\ AppLockFree
    /\ m_threads' = Append(m_threads, t)
    /\ life' = [life EXCEPT ![t] = "live"]
    /\ m_queue' = [m_queue EXCEPT ![t] = Append(@, "notify")]   \* "beforeStart"
    /\ BeginRun(t, pc)
    /\ UNCHANGED <<appQueue, terminated, stopVars, m_deleting, m_terminated,
                   m_worker, m_thread, loopLock, issued, fault>>

\* The end of start(): m_thread is assigned only after the new thread exists
\* and may already run.  A worker whose handler called start() goes on.
EndStart(t) ==
    /\ starting = t
    /\ m_thread' = [m_thread EXCEPT ![t] = runs[t]]
    /\ starting' = NoThread
    /\ pc' = [r \in Run |-> IF pc[r] = "execStarts" THEN "unlock"
                            ELSE IF pc[r] = "tickStarts" THEN "loop"
                            ELSE IF pc[r] = "shutdownStarts" THEN "reset" ELSE pc[r]]
    /\ UNCHANGED <<appVars, stopVars, flagVars, runs, m_queue, loopLock,
                   issued, fault>>

-----------------------------------------------------------------------------
(* What the worker of run r does while an event or a tick is handled, and  *)
(* in shutdown(): q is m_queue without that event, next is where run()     *)
(* goes on, "reset" after shutdown().  Thread::event is serialised by a    *)
(* static mutex, shutdown() is not; a worker that does several of these    *)
(* does them in as many ticks.                                             *)

GoTo(r, where) == pc' = [pc EXCEPT ![r] = where]

WorkerReturns(r, q, next) ==
    /\ m_queue' = q /\ GoTo(r, next)
    /\ UNCHANGED <<m_terminated, m_ready, runs, starting, issued, fault>>

\* ThreadWorker::signalTermination: the Thread whose worker this is, found by
\* asking every thread for its worker; an empty selection throws.
WorkerTerminates(r, q, next) ==
    /\ "terminate" \in Calls
    /\ AppLockFree /\ ~StaleSlot /\ \A u \in Slots : ~InQuit(u)
    /\ m_terminated' = [m_terminated EXCEPT ![r[1]] = @ \/ r[1] \in Slots]
    /\ fault' = IF r[1] \in Slots THEN "none" ELSE "noThread"
    /\ m_queue' = q /\ GoTo(r, next)
    /\ UNCHANGED <<m_ready, runs, starting, issued>>

\* SendEvent through a ThreadAccessor that selected u by its name; with
\* debugging on, event::send streams u and with it the type of its worker.
WorkerSends(r, u, kind, q, next) ==
    /\ (kind = "work" /\ "send" \in Calls) \/ (kind = "shutdown" /\ "shutdown" \in Calls)
    /\ AppLockFree /\ ~StaleSlot /\ u \in Slots
    /\ FALSE \in Debug \/ (~InQuit(u) /\ m_worker[u])
    /\ issued < MaxCalls
    /\ issued' = issued + 1
    /\ m_queue' = [q EXCEPT ![u] = Append(@, kind)]
    /\ GoTo(r, next)
    /\ UNCHANGED <<m_terminated, m_ready, runs, starting, fault>>

WorkerSendsToWorkerless(r, u, q, next) ==
    /\ Calls \cap {"send", "shutdown"} # {}
    /\ AppLockFree /\ ~StaleSlot /\ u \in Slots
    /\ TRUE \in Debug /\ ~InQuit(u) /\ ~m_worker[u]
    /\ fault' = "nullTarget"
    /\ m_queue' = q /\ GoTo(r, next)
    /\ UNCHANGED <<m_terminated, m_ready, runs, starting, issued>>

\* StartThread through a ThreadAccessor that selected u.
StartsFrom == [unlock |-> "execStarts", loop |-> "tickStarts", reset |-> "shutdownStarts"]
WorkerStarts(r, u, q, next) ==
    /\ "start" \in Calls
    /\ AppLockFree /\ ~StaleSlot /\ u \in Slots /\ ~InQuit(u)
    /\ issued < MaxCalls
    /\ issued' = issued + 1
    /\ BeginRun(u, [pc EXCEPT ![r] = StartsFrom[next]])
    /\ m_queue' = q
    /\ UNCHANGED <<m_terminated, fault>>

Accesses == Calls \cap {"terminate", "send", "shutdown", "start"} # {}

\* Every ThreadAccessor reads through all of m_threads.
WorkerReadsStaleSlot(r, q, next) ==
    /\ Accesses /\ AppLockFree /\ StaleSlot
    /\ fault' = "staleSlot"
    /\ m_queue' = q /\ GoTo(r, next)
    /\ UNCHANGED <<m_terminated, m_ready, runs, starting, issued>>

\* The ThreadAccessor has the Application's mutex and asks for the m_mutex of
\* a thread whose quit() has that one and asks for the other.
WorkerGetsStuck(r, q, next) ==
    /\ Accesses /\ AppLockFree /\ ~StaleSlot /\ \E u \in Slots : InQuit(u)
    /\ m_queue' = q /\ GoTo(r, IF next = "reset" THEN "shutdownStuck" ELSE "stuck")
    /\ UNCHANGED <<m_terminated, m_ready, runs, starting, issued, fault>>

WorkerCode(r, q, next) ==
    \/ WorkerReturns(r, q, next)
    \/ WorkerTerminates(r, q, next)
    \/ \E u \in Thread, kind \in {"work", "shutdown"} : WorkerSends(r, u, kind, q, next)
    \/ \E u \in Thread : WorkerSendsToWorkerless(r, u, q, next)
    \/ \E u \in Thread : WorkerStarts(r, u, q, next)
    \/ WorkerReadsStaleSlot(r, q, next)
    \/ WorkerGetsStuck(r, q, next)

\* Thread::quit() in a handler of DrumlinEventThreadShutdown takes m_mutex.
ThreadQuits(r, q) ==
    /\ m_queue' = q /\ GoTo(r, "handlerPunt")
    /\ UNCHANGED <<m_terminated, m_ready, runs, starting, issued, fault>>

-----------------------------------------------------------------------------
(* Thread::run; r = <<t, i>> is the i-th run of thread t.                  *)

At(r, where) == pc[r] = where /\ life[r[1]] # "freed"

RunPostBeforeWork(r) ==
    /\ At(r, "beforeWork")
    /\ m_queue' = [m_queue EXCEPT ![r[1]] = Append(@, "notify")]
    /\ GoTo(r, "work")
    /\ UNCHANGED <<appVars, stopVars, flagVars, startVars, loopLock, issued, fault>>

\* With debugging on, run() streams its Thread and the type of its worker, which
\* an earlier run of the same Thread has reset.
RunLogsNullWorker(r) ==
    /\ At(r, "work") /\ MutexFree(r[1])
    /\ TRUE \in Debug /\ ~m_worker[r[1]]
    /\ fault' = "nullWorker"
    /\ UNCHANGED <<appVars, stopVars, flagVars, startVars, m_queue, pc, loopLock, issued>>

\* run() posts "work" and reads m_terminated.
RunPostWork(r) ==
    /\ At(r, "work")
    /\ FALSE \in Debug \/ (MutexFree(r[1]) /\ m_worker[r[1]])
    /\ m_queue' = [m_queue EXCEPT ![r[1]] = Append(@, "work")]
    /\ GoTo(r, IF m_terminated[r[1]] THEN "worker" ELSE "loop")
    /\ UNCHANGED <<appVars, stopVars, flagVars, startVars, loopLock, issued, fault>>

\* Mutant: the loop does not ask for m_terminated.
KeepsRunningTerminated(t) == m_ready[t] /\ ~m_deleting[t]

\* The condition of the loop up to m_thread, which it dereferences when the
\* rest holds.  Nobody calls interrupt().
KeepsRunning(t) == m_ready[t] /\ ~m_deleting[t] /\ ~m_terminated[t]

\* try_lock: the loop goes on without exec() when another run has the mutex,
\* but unlocks it all the same.
RunLoop(r) ==
    /\ At(r, "loop")
    /\ KeepsRunning(r[1]) => m_thread[r[1]] # 0
    /\ IF KeepsRunning(r[1])
       THEN /\ GoTo(r, IF loopLock THEN "unlock" ELSE "exec")
            /\ loopLock' = TRUE
       ELSE /\ GoTo(r, "deleting")
            /\ UNCHANGED loopLock
    /\ UNCHANGED <<appVars, stopVars, flagVars, startVars, m_queue, issued, fault>>

RunReadsNullThread(r) ==
    /\ At(r, "loop")
    /\ KeepsRunning(r[1]) /\ m_thread[r[1]] = 0
    /\ fault' = "nullThread"
    /\ UNCHANGED <<appVars, stopVars, flagVars, startVars, m_queue, pc, loopLock, issued>>

\* exec(): at most one event of the queue.  The worker sees each one first; it
\* may keep a shutdown to itself, or leave it to Thread::event, which quits.
RunExec(r) ==
    LET t == r[1]
        q == [m_queue EXCEPT ![t] = Tail(@)]
    IN  /\ At(r, "exec") /\ MutexFree(t) /\ EventMutexFree
        /\ m_worker[t]      \* dereferenced: see HandlerHasWorker
        /\ \/ /\ m_queue[t] = <<>>
              /\ WorkerReturns(r, m_queue, "unlock")
           \/ /\ m_queue[t] # <<>>
              /\ WorkerCode(r, q, "unlock")
           \/ /\ m_queue[t] # <<>> /\ Head(m_queue[t]) = "shutdown"
              /\ ThreadQuits(r, q)
        /\ UNCHANGED <<appVars, stopVars, life, m_deleting, m_worker, m_thread, loopLock>>

\* The rest of quit() in the handler.
RunHandlerPunts(r) ==
    /\ At(r, "handlerPunt")
    /\ Post(Remove(r[1]))
    /\ GoTo(r, "unlock")
    /\ UNCHANGED <<m_threads, terminated, stopVars, flagVars, startVars, m_queue,
                   loopLock, issued, fault>>

RunUnlock(r) ==
    /\ At(r, "unlock")
    /\ loopLock' = FALSE
    /\ GoTo(r, "tick")
    /\ UNCHANGED <<appVars, stopVars, flagVars, startVars, m_queue, issued, fault>>

\* The "tick" work event, given to the worker without a queue.
RunTick(r) ==
    /\ At(r, "tick") /\ MutexFree(r[1]) /\ EventMutexFree
    /\ m_worker[r[1]]     \* dereferenced: see HandlerHasWorker
    /\ WorkerCode(r, m_queue, "loop")
    /\ UNCHANGED <<appVars, stopVars, life, m_deleting, m_worker, m_thread, loopLock>>

RunMarkDeleting(r) ==
    /\ At(r, "deleting")
    /\ m_deleting' = [m_deleting EXCEPT ![r[1]] = TRUE]
    /\ GoTo(r, "worker")
    /\ UNCHANGED <<appVars, stopVars, life, m_ready, m_terminated, m_worker,
                   startVars, m_queue, loopLock, issued, fault>>

\* if (getWorker()) m_worker->shutdown() ...
RunShutdownWorker(r) ==
    /\ At(r, "worker") /\ MutexFree(r[1])
    /\ m_worker[r[1]]
    /\ WorkerCode(r, m_queue, "reset")
    /\ UNCHANGED <<appVars, stopVars, life, m_deleting, m_worker, m_thread, loopLock>>

\* ... else terminate()
RunTerminatesItself(r) ==
    /\ At(r, "worker") /\ MutexFree(r[1])
    /\ ~m_worker[r[1]]
    /\ GoTo(r, "ready")
    /\ m_terminated' = [m_terminated EXCEPT ![r[1]] = TRUE]
    /\ UNCHANGED <<appVars, stopVars, life, m_ready, m_deleting, m_worker,
                   startVars, m_queue, loopLock, issued, fault>>

RunResetWorker(r) ==
    /\ At(r, "reset")
    /\ m_worker' = [m_worker EXCEPT ![r[1]] = FALSE]
    /\ GoTo(r, "ready")
    /\ UNCHANGED <<appVars, stopVars, life, m_ready, m_deleting, m_terminated,
                   startVars, m_queue, loopLock, issued, fault>>

\* Mutant: quit() comes before the end of run().
RunClearReadyAndQuit(r) ==
    /\ At(r, "ready") /\ MutexFree(r[1])
    /\ m_ready' = [m_ready EXCEPT ![r[1]] = FALSE]
    /\ Post(Remove(r[1]))
    /\ GoTo(r, "quit")
    /\ UNCHANGED <<m_threads, terminated, stopVars, life, m_deleting, m_terminated,
                   m_worker, startVars, m_queue, loopLock, issued, fault>>

RunClearReady(r) ==
    /\ At(r, "ready")
    /\ m_ready' = [m_ready EXCEPT ![r[1]] = FALSE]
    /\ GoTo(r, "quit")
    /\ UNCHANGED <<appVars, stopVars, life, m_deleting, m_terminated, m_worker,
                   startVars, m_queue, loopLock, issued, fault>>

\* quit() takes m_mutex ...
RunQuit(r) ==
    /\ At(r, "quit") /\ MutexFree(r[1])
    /\ GoTo(r, "punt")
    /\ UNCHANGED <<appVars, stopVars, flagVars, startVars, m_queue, loopLock,
                   issued, fault>>

\* Mutants: run() returns without the event, and posts it twice.
RunPuntsNothing(r) ==
    /\ At(r, "punt")
    /\ GoTo(r, "end")
    /\ UNCHANGED <<appVars, stopVars, flagVars, startVars, m_queue, loopLock,
                   issued, fault>>
RunPuntsTwice(r) ==
    /\ At(r, "punt") /\ AppLockFree
    /\ appQueue' = appQueue \o <<Remove(r[1]), Remove(r[1])>>
    /\ GoTo(r, "end")
    /\ UNCHANGED <<m_threads, terminated, stopVars, flagVars, startVars, m_queue,
                   loopLock, issued, fault>>

\* ... and punts ThreadRemove; run() returns.
RunPunts(r) ==
    /\ At(r, "punt")
    /\ Post(Remove(r[1]))
    /\ GoTo(r, "end")
    /\ UNCHANGED <<m_threads, terminated, stopVars, flagVars, startVars, m_queue,
                   loopLock, issued, fault>>

\* run() goes on although removeThread() deleted its Thread.
RunOnFreed(r) ==
    /\ pc[r] \notin {"idle", "end"} /\ life[r[1]] = "freed"
    /\ fault' = "freedRun"
    /\ UNCHANGED <<appVars, stopVars, flagVars, startVars, m_queue, pc, loopLock, issued>>

RunStep(r) ==
    \/ RunPostBeforeWork(r) \/ RunLogsNullWorker(r) \/ RunPostWork(r)
    \/ RunLoop(r) \/ RunReadsNullThread(r)
    \/ RunExec(r) \/ RunHandlerPunts(r) \/ RunUnlock(r) \/ RunTick(r)
    \/ RunMarkDeleting(r) \/ RunShutdownWorker(r) \/ RunTerminatesItself(r)
    \/ RunResetWorker(r) \/ RunClearReady(r) \/ RunQuit(r) \/ RunPunts(r)
    \/ RunOnFreed(r)
-----------------------------------------------------------------------------
(* Application::exec and the events it dispatches.                         *)

\* Mutant: events are dispatched while stop() waits.
PullsAnytime(e) ==
    /\ apc # "returned" /\ ~terminated
    /\ appQueue # <<>> /\ Head(appQueue) = e

\* The next event is e, and exec() has not left its loop.
Pulls(e) ==
    /\ apc = "exec" /\ ~terminated
    /\ appQueue # <<>> /\ Head(appQueue) = e

Unchanged_App == UNCHANGED <<startVars, m_queue, pc, loopLock, issued>>

\* removeThread: the thread is deleted, and ThreadsGone follows when
\* std::remove kept nothing.
AppRemoves(t) ==
    /\ Pulls(Remove(t)) /\ AppLockFree
    /\ life[t] = "live" /\ MutexFree(t)
    /\ ~m_ready[t] \/ m_terminated[t]
    /\ m_threads' = StdRemove(m_threads, t)
    /\ life' = [life EXCEPT ![t] = "freed"]
    /\ appQueue' = IF Distance(m_threads, t) = 0
                   THEN Append(Tail(appQueue), AppEvent("ThreadsGone"))
                   ELSE Tail(appQueue)
    /\ Unchanged_App
    /\ UNCHANGED <<terminated, stopVars, m_ready, m_deleting, m_terminated,
                   m_worker, fault>>

\* removeThread throws "not terminated", after naming the type of the worker
\* in the message; Application::event catches it and the event is lost.
AppRefusesToRemove(t) ==
    /\ Pulls(Remove(t)) /\ AppLockFree
    /\ life[t] = "live" /\ MutexFree(t)
    /\ m_ready[t] /\ ~m_terminated[t]
    /\ appQueue' = Tail(appQueue)
    /\ fault' = IF m_worker[t] THEN "none" ELSE "nullWorker"
    /\ Unchanged_App
    /\ UNCHANGED <<m_threads, terminated, stopVars, flagVars>>

AppRemovesAgain(t) ==
    /\ Pulls(Remove(t)) /\ AppLockFree
    /\ life[t] = "freed"
    /\ fault' = "doubleRemove"
    /\ Unchanged_App
    /\ UNCHANGED <<appVars, stopVars, flagVars>>

\* removeThread has the Application's mutex and asks t.isStarted(), while
\* another quit() of t has its m_mutex.
AppGetsStuck(t) ==
    /\ Pulls(Remove(t)) /\ AppLockFree
    /\ life[t] = "live" /\ InQuit(t)
    /\ appQueue' = Tail(appQueue)
    /\ apc' = "stuck"
    /\ Unchanged_App
    /\ UNCHANGED <<m_threads, terminated, stopType, stopSel, stopPos, flagVars, fault>>

\* shutdown(false): the value of the event is a null pointer.
AppThreadsGone ==
    /\ Pulls(AppEvent("ThreadsGone")) /\ AppLockFree
    /\ appQueue' = Append(Tail(appQueue), AppEvent("Shutdown"))
    /\ Unchanged_App
    /\ UNCHANGED <<m_threads, terminated, stopVars, flagVars, fault>>

AppShutdown ==
    /\ Pulls(AppEvent("Shutdown"))
    /\ appQueue' = Tail(appQueue)
    /\ terminated' = TRUE
    /\ apc' = "returned"
    /\ Unchanged_App
    /\ UNCHANGED <<m_threads, stopType, stopSel, stopPos, flagVars, fault>>

-----------------------------------------------------------------------------
(* Application::stop: for every type, from the last one down, collect and  *)
(* terminate the threads of that type under the lock, then wait for them.  *)

\* Mutant: the loop over the types goes one beyond ThreadType_first.
ScanBelowFirst(type) ==
    /\ AppLockFree
    /\ apc' = (IF type = -1 THEN "exec" ELSE "scan")
    /\ stopType' = type
    /\ stopSel' = <<>>
    /\ stopPos' = 1

ScanFrom(type) ==
    /\ type = 0 \/ AppLockFree
    /\ apc' = (IF type = 0 THEN "exec" ELSE "scan")
    /\ stopType' = type
    /\ stopSel' = <<>>
    /\ stopPos' = 1

StopBegins ==
    /\ Pulls(AppEvent("Close"))
    /\ appQueue' = Tail(appQueue)
    /\ ScanFrom(LastType)
    /\ Unchanged_App
    /\ UNCHANGED <<m_threads, terminated, flagVars, fault>>

InScan == apc = "scan" /\ stopPos =< Len(m_threads)

\* thread->hasWorker()
StopAsksForWorker ==
    /\ InScan
    /\ life[m_threads[stopPos]] = "live" /\ MutexFree(m_threads[stopPos])
    /\ IF m_worker[m_threads[stopPos]]
       THEN apc' = "type" /\ UNCHANGED stopPos
       ELSE stopPos' = stopPos + 1 /\ UNCHANGED apc
    /\ Unchanged_App
    /\ UNCHANGED <<appVars, stopType, stopSel, flagVars, fault>>

StopReadsStaleSlot ==
    /\ InScan
    /\ life[m_threads[stopPos]] = "freed"
    /\ fault' = "staleSlot"
    /\ Unchanged_App
    /\ UNCHANGED <<appVars, stopVars, flagVars>>

\* thread->getWorker()->getType() == type; run() may have reset the worker.
StopReadsType ==
    /\ apc = "type" /\ MutexFree(m_threads[stopPos])
    /\ m_worker[m_threads[stopPos]]
    /\ stopSel' = IF TypeOf[m_threads[stopPos]] = stopType
                  THEN Append(stopSel, m_threads[stopPos]) ELSE stopSel
    /\ apc' = "scan"
    /\ stopPos' = stopPos + 1
    /\ Unchanged_App
    /\ UNCHANGED <<appVars, stopType, flagVars, fault>>

StopReadsNullWorker ==
    /\ apc = "type" /\ MutexFree(m_threads[stopPos])
    /\ ~m_worker[m_threads[stopPos]]
    /\ fault' = "nullWorker"
    /\ Unchanged_App
    /\ UNCHANGED <<appVars, stopVars, flagVars>>

Selected == {stopSel[i] : i \in 1 .. Len(stopSel)}

\* terminate() of every selected thread, and the end of the locked block.
StopTerminates ==
    /\ apc = "scan" /\ stopPos > Len(m_threads)
    /\ \A t \in Selected : MutexFree(t)
    /\ m_terminated' = [t \in Thread |-> m_terminated[t] \/ t \in Selected]
    /\ apc' = "wait"
    /\ stopPos' = 1
    /\ Unchanged_App
    /\ UNCHANGED <<appVars, stopType, stopSel, life, m_ready, m_deleting,
                   m_worker, fault>>

StopGoesOn(where) == apc' = where /\ UNCHANGED <<stopType, stopSel, stopPos>>
StopNext == stopPos' = stopPos + 1 /\ apc' = "wait" /\ UNCHANGED <<stopType, stopSel>>

\* if (!thread->isStarted()) thread->quit(); else thread->wait(); m_thread is
\* not null then.
StopAsksIfStarted ==
    /\ apc = "wait" /\ stopPos =< Len(stopSel)
    /\ MutexFree(stopSel[stopPos])
    /\ StopGoesOn(IF m_ready[stopSel[stopPos]] THEN "waitDeleting" ELSE "quit")
    /\ Unchanged_App
    /\ UNCHANGED <<appVars, flagVars, fault>>

StopQuits ==
    /\ apc = "quit" /\ MutexFree(stopSel[stopPos])
    /\ StopGoesOn("punt")
    /\ Unchanged_App
    /\ UNCHANGED <<appVars, flagVars, fault>>

StopPunts ==
    /\ apc = "punt"
    /\ Post(Remove(stopSel[stopPos]))
    /\ StopNext
    /\ Unchanged_App
    /\ UNCHANGED <<m_threads, terminated, flagVars, fault>>

\* wait() returns at once when it finds m_deleting set.
StopReadsDeleting ==
    /\ apc = "waitDeleting"
    /\ IF m_deleting[stopSel[stopPos]] THEN StopNext ELSE StopGoesOn("join")
    /\ Unchanged_App
    /\ UNCHANGED <<appVars, flagVars, fault>>

StopJoins ==
    /\ apc = "join"
    /\ pc[<<stopSel[stopPos], m_thread[stopSel[stopPos]]>>] = "end"
    /\ StopNext
    /\ Unchanged_App
    /\ UNCHANGED <<appVars, flagVars, fault>>

StopNextType ==
    /\ apc = "wait" /\ stopPos > Len(stopSel)
    /\ ScanFrom(stopType - 1)
    /\ Unchanged_App
    /\ UNCHANGED <<appVars, flagVars, fault>>

AppStep ==
    \/ \E t \in Thread : \/ AppRemoves(t) \/ AppRefusesToRemove(t)
                         \/ AppRemovesAgain(t) \/ AppGetsStuck(t)
    \/ AppThreadsGone \/ AppShutdown
    \/ StopBegins \/ StopAsksForWorker \/ StopReadsStaleSlot \/ StopReadsType
    \/ StopReadsNullWorker \/ StopTerminates \/ StopAsksIfStarted \/ StopQuits
    \/ StopPunts \/ StopReadsDeleting \/ StopJoins \/ StopNextType

-----------------------------------------------------------------------------
\* event::punt(Close) from any thread, and Application::handleSignal, which
\* punts Shutdown.
Outside(type) ==
    /\ (type = "Close" /\ "close" \in Calls) \/ (type = "Shutdown" /\ "signal" \in Calls)
    /\ issued < MaxCalls
    /\ issued' = issued + 1
    /\ Post(AppEvent(type))
    /\ UNCHANGED <<m_threads, terminated, stopVars, flagVars, startVars,
                   m_queue, pc, loopLock, fault>>

Next ==
    /\ fault = "none"
    /\ \/ \E t \in Thread : AddPaused(t) \/ AddStarted(t) \/ EndStart(t)
       \/ \E r \in Run : RunStep(r)
       \/ AppStep
       \/ \E type \in {"Close", "Shutdown"} : Outside(type)

\* The operating system schedules every thread, and Thread::start() returns.
Fairness ==
    /\ \A r \in Run : WF_vars(fault = "none" /\ RunStep(r))
    /\ \A t \in Thread : WF_vars(fault = "none" /\ EndStart(t))
    /\ WF_vars(fault = "none" /\ AppStep)

Spec == Init /\ [][Next]_vars
FairSpec == Spec /\ Fairness
-----------------------------------------------------------------------------
TypeOK ==
    /\ m_threads \in Seq(Thread)
    /\ appQueue \in Seq(AppEvents)
    /\ terminated \in BOOLEAN
    /\ apc \in AppPc
    /\ stopType \in 0 .. LastType
    /\ stopSel \in Seq(Thread)
    /\ stopPos \in Nat \ {0}
    /\ apc \notin {"exec", "stuck", "returned"} => stopType # 0
    /\ apc = "type" => stopPos =< Len(m_threads)
    /\ apc \in {"quit", "punt", "waitDeleting", "join"} => stopPos =< Len(stopSel)
    /\ life \in [Thread -> {"new", "live", "freed"}]
    /\ m_ready \in [Thread -> BOOLEAN]
    /\ m_deleting \in [Thread -> BOOLEAN]
    /\ m_terminated \in [Thread -> BOOLEAN]
    /\ m_worker \in [Thread -> BOOLEAN]
    /\ m_thread \in [Thread -> 0 .. MaxRuns]
    /\ m_queue \in [Thread -> Seq(ThreadEvent)]
    /\ runs \in [Thread -> 0 .. MaxRuns]
    /\ pc \in [Run -> Pc]
    /\ starting \in Thread \cup {NoThread}
    /\ loopLock \in BOOLEAN
    /\ issued \in 0 .. MaxCalls
    /\ fault \in Fault

\* std::remove loses nobody: a thread that was added and not deleted is in
\* m_threads, whatever was removed around it.  signalTermination() throws
\* "no thread for" its worker otherwise (application.cpp removeThread).
LiveThreadsListed == \A t \in Thread : life[t] = "live" => t \in Slots

\* Thread::event dereferences getWorker() without a test: whenever run() may
\* hand out an event or a tick its worker is still there, even when the same
\* Thread was started again.
HandlerHasWorker == \A r \in Run : pc[r] \in {"exec", "tick"} => m_worker[r[1]]

\* removeThread() posts ThreadsGone only when no added thread is left, although
\* it counts elements of a vector that still holds deleted threads.
GoneMeansNoneLeft ==
    [][(/\ appQueue # <<>> /\ appQueue' # appQueue
        /\ appQueue' = Append(Tail(appQueue), AppEvent("ThreadsGone")))
        => \A t \in Thread : life'[t] # "live"]_vars

\* removeThread() deletes no Thread whose run() has yet to return.
RunOwnsItsThread ==
    \A r \in Run : life[r[1]] = "freed" => pc[r] \in {"idle", "end"}

Removals(q, t) == {i \in 1 .. Len(q) : q[i] = Remove(t)}

\* A Thread asks for its removal once, and not after it was removed.
RemovedOnce ==
    \A t \in Thread :
        /\ \A i, j \in Removals(appQueue, t) : i = j
        /\ life[t] = "freed" => Removals(appQueue, t) = {}

\* When every thread ends through signalTermination(), what can go wrong is
\* the start of run(), a deleted thread left in m_threads and the logging of a
\* target that has ended, nothing else: no thread is deleted twice or under its
\* own run(), no worker is missed.
OnlyStartAndSlotsFail == fault \in {"none", "nullThread", "staleSlot", "nullTarget"}

\* The threads stop() has selected are not deleted until it returns.
StopHoldsItsThreads ==
    apc \in {"wait", "quit", "punt", "waitDeleting", "join"} => \A t \in Selected : life[t] = "live"

\* The registry of threads as the users of the Application see it.
registryStatus ==
    [t \in Thread |->
        CASE life[t] = "new"   -> "absent"
          [] life[t] = "freed" -> "removed"
          [] OTHER -> IF \E i \in 1 .. MaxRuns : pc[<<t, i>>] = "end"
                      THEN "leaving" ELSE "added"]

goneAnnounced ==
    terminated \/ \E i \in 1 .. Len(appQueue) : appQueue[i].type \in {"ThreadsGone", "Shutdown"}

Registry == INSTANCE ThreadRegistry WITH status <- registryStatus, gone <- goneAnnounced

\* A program whose threads end themselves gets the registry that addThread and
\* removeThread promise: run, then one removal, with ThreadsGone not before the last.
ImplementsRegistry == Registry!Spec

\* Why HandlerHasWorker holds: of the runs of one Thread at most one is before
\* its "m_ready = false", and a worker is only reset once m_deleting or
\* m_terminated keeps every later run out of the loop.
Active(r) == pc[r] \notin {"idle", "quit", "punt", "end"}

WorkerInv ==
    /\ \A r \in Run : Active(r) => m_ready[r[1]]
    /\ \A r, s \in Run : Active(r) /\ Active(s) /\ r[1] = s[1] => r = s
    /\ \A r \in Run : pc[r] \in {"exec", "unlock", "tick"} \cup Handling => m_worker[r[1]]
    /\ \A r \in Run : pc[r] \in {"worker", "reset"} \cup ShuttingDown
                       => m_deleting[r[1]] \/ m_terminated[r[1]]
    /\ \A t \in Thread : ~m_worker[t] => m_deleting[t] \/ m_terminated[t]

\* Nobody calls Application::stop, starts a thread late or sends it
\* DrumlinEventThreadShutdown: threads end through signalTermination().
SelfTerminating == Calls \cap {"start", "shutdown", "close"} = {}

\* Why a self-terminating program removes each thread once, after its run().
SelfInv ==
    /\ apc \in {"exec", "stuck", "returned"}
    /\ \A i \in 1 .. Len(appQueue) : appQueue[i] # AppEvent("Close")
    /\ \A t \in Thread : \A i \in 1 .. Len(m_queue[t]) : m_queue[t][i] # "shutdown"
    /\ \A r \in Run : pc[r] # "idle" => r[2] = 1 /\ life[r[1]] # "new"
    /\ \A r \in Run : pc[r] # "handlerPunt"
    /\ \A t \in Thread : life[t] = "new" => runs[t] = 0
    /\ \A t \in Thread : Removals(appQueue, t) # {} => life[t] = "live" /\ pc[<<t, 1>>] = "end"
    /\ \A t \in Thread : \A i, j \in Removals(appQueue, t) : i = j
    /\ \A t \in Thread : life[t] = "freed" => pc[<<t, 1>>] = "end"
    /\ \A t \in Thread : pc[<<t, 1>>] \in {"quit", "punt", "end"} => ~m_ready[t]
    /\ \A t \in Thread : ~m_worker[t] => pc[<<t, 1>>] \in {"ready", "quit", "punt", "end"}
    /\ OnlyStartAndSlotsFail

\* Somebody holds the Application's mutex and waits for an m_mutex whose owner
\* waits for the Application's.
LockCycle ==
    \/ apc = "stuck"
    \/ \E r \in Run : pc[r] \in {"stuck", "shutdownStuck"}
    \/ InScan /\ InQuit(m_threads[stopPos])
    \/ apc = "type" /\ InQuit(m_threads[stopPos])
    \/ apc = "scan" /\ \E t \in Selected : InQuit(t)

\* stop() returns: none of its joins waits for ever, and nothing else keeps it
\* but the lock cycle, as far as the mutexes of this module go: the
\* Application's and m_mutex.  The worker's static mutex, which getType() takes,
\* and the logger's are in Locks.
StopReturns ==
    apc \notin {"exec", "returned"} ~> (apc = "exec" \/ fault # "none" \/ LockCycle)

\* A thread that runs and is told to terminate is deleted, unless the
\* application leaves its loop first or the mutexes are in a cycle; again, as far
\* as the two mutexes of this module go.
TerminatedIsRemoved ==
    \A t \in Thread : (m_terminated[t] /\ runs[t] > 0)
                      ~> (life[t] = "freed" \/ terminated \/ fault # "none" \/ LockCycle)

\* drumlin.h, INTERNAL: "for internal brief use".
InternalIsBrief == ~LockCycle

\* application.h, removeThread: "remove a thread".
RemovedThreadsForgotten == \A t \in Slots : life[t] = "live"

\* application.cpp, Close: "wait for threads".  Every thread that stop() has
\* selected has returned from run() when stop() goes on.
StopWaitedForAll ==
    apc = "wait" => \A i \in 1 .. (stopPos - 1) :
        (i =< Len(stopSel) /\ runs[stopSel[i]] > 0) => pc[<<stopSel[i], runs[stopSel[i]]>>] = "end"
=============================================================================
