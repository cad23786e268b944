---- MODULE Locks ----
\* Every mutex of the library except those of the buffer cache, and the order in which each
\* operation takes them (drumlin.h, thread.cpp, thread_worker.cpp, application.cpp, event.cpp,
\* signalhandler.cpp).  An operation is the sequence of its takes and gives; the rest of what it
\* does is in ThreadLifecycle.  A Thread of the library stands for its boost::thread, as
\* one that runs, and for its m_mutex.
EXTENDS Naturals, Sequences, SequencesExt, FiniteSets

CONSTANTS Thread,      \* the threads
          AppThread,   \* the one that runs Application::exec()
          SignalMask,  \* the mask that SignalHandler was made with, as the set of its bits
          MaxSignals   \* bound on the signals sent to the process

ASSUME LocksAssumption == MaxSignals \in Nat

Actor == Thread \cup {AppThread}
\* The static and global ones: Application::m_critical_section, logger::s_critical_section,
\* Thread::m_critical_section, ThreadWorker::m_critical_section, localMutex of Thread::event.
Global == {"app", "log", "thread", "worker", "event"}
Mutex == Global \cup Thread
ASSUME MutexAssumption == Thread \cap Global = {}
\* std::mutex; the others are recursive.
Plain == {"log", "event"}

VARIABLES todo,      \* what each thread still has to do with mutexes
          signals    \* the signals sent so far

lockVars == <<todo, signals>>

-----------------------------------------------------------------------------
\* Operations

\* touch: take and give back at once.  `by` is the function of interest that it is part of.
Step(does, what) == <<[does |-> does, what |-> what, by |-> "other"]>>
Holding(mutex, inner) == Step("take", mutex) \o inner \o Step("give", mutex)
Brief(mutex) == Step("touch", mutex)
In(by, op) == [i \in DOMAIN op |-> IF op[i].by = "other" THEN [op[i] EXCEPT !.by = by] ELSE op[i]]

LogLine == Brief("log")
\* The getters: getWorker(), hasWorker(), isStarted() and getBoostThread() take m_mutex, getTask() and
\* the getType() of the worker the static mutex of their class.
Getter(t) == Brief(t)
GetTask == Brief("thread")
GetWorkerType == Brief("worker")
\* Thread::getType() asks its worker while it has m_mutex.
GetThreadType(t) == Holding(t, GetWorkerType)
\* operator<<(ostream, Thread): isStarted() and getBoostThread() follow, which change nothing more.
StreamThread(t) == GetTask \o Getter(t) \o GetWorkerType
LogThread(t) == Holding("log", StreamThread(t))

MakeEvent == LogLine
PostToApp == Brief("app")
\* The lines of make_event() and punt(): one, here and below, for lines that follow at once.
Punt == LogLine \o PostToApp
Quit(t) == In("quit", Holding(t, Punt))
Terminate(t) == LogLine \o Brief(t)
Start(t) == Holding("thread", Brief(t))
Send(t) == LogThread(t)

\* A ThreadAccessor holds the Application's mutex while it exists.
GetWorkered(t) == Getter(t)
PostToWorker(t) == Holding("app", GetWorkered(t) \o Send(t))
StartThread(t) == Holding("app", Getter(t) \o Start(t))
SignalTermination(t) ==
  In("signalTermination", Holding("worker", Holding("app", GetWorkered(t) \o Terminate(t))))
WorkerStop(t) == In("signalTermination", Holding("worker", SignalTermination(t)))

AddThread(t) == Holding("app", LogThread(t) \o MakeEvent \o Start(t))
\* The refusal streams the Thread into the text of the exception.
RemoveThread(t) == Holding("app", Holding("log", GetTask) \o Getter(t) \o LogLine \o PostToApp)
RefuseToRemove(t) == Holding("app", Holding("log", GetTask) \o Getter(t) \o StreamThread(t))
\* stop(): the threads are selected by the type of their worker, then terminated.
StopSelects(t) == Holding("app", Getter(t) \o GetWorkerType \o LogLine \o Terminate(t))
\* The worker's writeToObject(), which asks for its report().
WriteToObject == Holding("worker", Brief("worker"))
GetStatusOfWorker(t) == Holding("worker", Holding("app", Getter(t)))
GetStatus(t) == Holding("app", Getter(t) \o WriteToObject)

\* Thread::event holds localMutex while the worker's handler runs.
Handlers(t) ==
  {<<>>, SignalTermination(t), WorkerStop(t)}
  \cup UNION {{PostToWorker(u), StartThread(u), GetStatus(u), GetThreadType(u)} : u \in Thread}
Event(t, handler, ending) == Holding("event", Brief(t) \o handler \o LogThread(t) \o ending)

\* Where an operation holds nothing it is cut in two: what a thread does in between, like a log line
\* or the isStarted() of stop(), is an operation of its own, and the order is left open.
Operations ==
  [a \in Actor |-> {LogLine, PostToApp}
  \cup IF a = AppThread
         THEN UNION {{AddThread(t), RemoveThread(t), RefuseToRemove(t), StopSelects(t), Getter(t), Quit(t),
                      GetStatus(t), PostToWorker(t), GetThreadType(t)} : t \in Thread}
         ELSE {LogThread(a), Quit(a), Getter(a), GetThreadType(a), Event(a, <<>>, Quit(a))}
              \cup {Event(a, h, <<>>) : h \in Handlers(a)}]

\* POSIX_logicalToPhysical of the five bits the constructor looks at; SIGSEGV is never one of them, and
\* sigaction(-1) fails.
Physical(bit) == CASE bit = "int" -> {"SIGINT"}
                   [] bit \in {"term", "close"} -> {"SIGTERM"}
                   [] bit = "reload" -> {"SIGHUP"}
                   [] OTHER -> {}
Installed == UNION {Physical(bit) : bit \in SignalMask \ {"segv"}}
\* Application::handleSignal, called from POSIX_handleFunc on the stack of the thread it interrupts.
HandleSignal(sig) == In("handleSignal", Punt) \o Step("return", sig)

-----------------------------------------------------------------------------
LocksInit == todo = [a \in Actor |-> <<>>] /\ signals = 0

Busy(a) == todo[a] # <<>>
Now(a) == Head(todo[a])
\* A thread holds what it has to give back more often than it has yet to take.
Steps(a, does, m) == {i \in DOMAIN todo[a] : todo[a][i].what = m /\ todo[a][i].does = does}
Holds(a, m) == Cardinality(Steps(a, "give", m)) > Cardinality(Steps(a, "take", m))
Owners(m) == {a \in Actor : Holds(a, m)}
\* A recursive mutex can be taken again by its owner, a plain one by nobody.
Takable(a, m) == Owners(m) \subseteq IF m \in Plain THEN {} ELSE {a}
Free(a) == Busy(a) /\ Takable(a, Now(a).what)

\* Giving back needs no step of its own: nobody can come in between and find more.
Settled(op) ==
  LET waits == {i \in DOMAIN op : op[i].does \in {"take", "touch"}}
  IN  IF waits = {} THEN <<>> ELSE SubSeq(op, Min(waits), Len(op))

Begin(a, op) == ~Busy(a) /\ todo' = [todo EXCEPT ![a] = op] /\ signals' = signals
Advance(a) == Free(a) /\ todo' = [todo EXCEPT ![a] = Settled(Tail(@))] /\ signals' = signals

\* A signal interrupts a thread between two of its steps or while it holds what it takes briefly; not
\* in the handler of the same signal.
Handling(a) == {todo[a][i].what : i \in {j \in DOMAIN todo[a] : todo[a][j].does = "return"}}
Interrupts(a, sig, rest) ==
  /\ signals < MaxSignals /\ sig \in Installed \ Handling(a)
  /\ signals' = signals + 1
  /\ todo' = [todo EXCEPT ![a] = HandleSignal(sig) \o rest]
Signal(a, sig) == Interrupts(a, sig, todo[a])
SignalInside(a, sig) == /\ Free(a) /\ Now(a).does = "touch"
                        /\ Interrupts(a, sig, Step("give", Now(a).what) \o Tail(todo[a]))

LocksNext == \E a \in Actor : \/ \E op \in Operations[a] : Begin(a, op)
                             \/ Advance(a)
                             \/ \E sig \in Installed : Signal(a, sig) \/ SignalInside(a, sig)

-----------------------------------------------------------------------------
Waits(a) == Busy(a) /\ ~Takable(a, Now(a).what)
\* The threads of S wait for each other, for ever.
Deadlocked(S) == \A a \in S : Owners(Now(a).what) \cap S # {}

\* Safety, event.cpp:110, thread_worker.cpp:41, thread.cpp:236 and signalhandler.cpp:177: when threads wait
\* for each other for ever, one of them waits inside of quit(), of signalTermination() or of a signal's
\* handler; every other pair of operations takes its mutexes in compatible orders.
DeadlocksHaveCulprits ==
  \A S \in (SUBSET {a \in Actor : Waits(a)}) \ {{}} :
    Deadlocked(S) => \E a \in S : Now(a).by \in {"quit", "signalTermination", "handleSignal"}
====
