---- MODULE Accessors ----
\* ThreadAccessor (thread_accessor.cpp), the selection of threads from the vector that addThread() and
\* removeThread() change (application.cpp).  The constructor takes the Application's mutex, which the
\* accessor holds until it is destroyed.
EXTENDS Naturals, Sequences, SequencesExt, Subsequences

CONSTANTS Selectable,   \* the threads
          Names, Types  \* the sets of threads with the same name, and of the same type

VARIABLES m_threads,    \* Application::m_threads, with what std::remove() leaves behind
          life,         \* each Thread: "new" (not added), "live" or "freed"
          m_worker,     \* m_worker is not null
          accessor,     \* the ThreadAccessor that exists, or NoAccess
          accessFault

accessVars == <<m_threads, life, m_worker, accessor, accessFault>>

NoAccess == <<>>
Deleted == {t \in Selectable : life[t] = "freed"}
\* ThreadAccessor::clear() leaves namedThreads and typedThreads alone.
Blank(acc) == [acc EXCEPT !.selection = <<>>, !.flagAllName = FALSE, !.flagAllType = FALSE]
NewAccess == Blank([namedThreads |-> <<>>, typedThreads |-> <<>>, selection |-> <<>>,
                       flagAllName |-> FALSE, flagAllType |-> FALSE, gone |-> Deleted])

AccessInit == /\ m_threads = <<>> /\ life = [t \in Selectable |-> "new"]
              /\ m_worker = [t \in Selectable |-> TRUE] /\ accessor = NoAccess /\ accessFault = "none"

-----------------------------------------------------------------------------
\* The Application, and run() of each thread

AppMutexIgnored == TRUE
AppMutexFree == accessor = NoAccess

AddThread(t) ==
  /\ AppMutexFree /\ life[t] = "new" /\ life' = [life EXCEPT ![t] = "live"]
  /\ m_threads' = Append(m_threads, t)
  /\ UNCHANGED <<m_worker, accessor, accessFault>>

\* std::remove() without erase(): the kept ones move to the front, the tail stays as it was.
StdRemove(s, t) ==
  LET kept == ElementsIn(s, Selectable \ {t}) IN kept \o SubSeq(s, Len(kept) + 1, Len(s))
RemoveThread(t) ==
  /\ AppMutexFree /\ life[t] = "live" /\ life' = [life EXCEPT ![t] = "freed"]
  /\ m_threads' = StdRemove(m_threads, t)
  /\ UNCHANGED <<m_worker, accessor, accessFault>>

\* At the end of run(), which holds no more than m_mutex.
ResetWorker(t) == /\ life[t] = "live" /\ m_worker[t] /\ m_worker' = [m_worker EXCEPT ![t] = FALSE]
                  /\ UNCHANGED <<m_threads, life, accessor, accessFault>>

-----------------------------------------------------------------------------
\* The accessor

Open == /\ AppMutexFree /\ accessor' = NewAccess
        /\ UNCHANGED <<m_threads, life, m_worker, accessFault>>
Close == accessor' = NoAccess /\ UNCHANGED <<m_threads, life, m_worker, accessFault>>

Becomes(acc) == accessor' = acc /\ UNCHANGED <<m_threads, life, m_worker, accessFault>>
Fails(what) == accessFault' = what /\ UNCHANGED <<m_threads, life, m_worker, accessor>>
\* Every element of the vector is dereferenced.
Stale == ToSet(m_threads) \cap Deleted # {}
Among(set) == ElementsIn(m_threads, set)

ClearSelection == Becomes(Blank(accessor))
ByName(name) ==
  IF Stale THEN Fails("useAfterFree")
  ELSE Becomes([accessor EXCEPT !.namedThreads = Among(name), !.flagAllName = FALSE])
\* The worker of an earlier element may be null before a deleted Thread is met.
ByType(type) ==
  \/ Stale /\ Fails("useAfterFree")
  \/ (\E t \in ToSet(m_threads) \ Deleted : ~m_worker[t]) /\ Fails("nullWorker")
  \/ /\ ~Stale /\ \A t \in ToSet(m_threads) : m_worker[t]
     /\ Becomes([accessor EXCEPT !.typedThreads = Among(type), !.flagAllType = FALSE])
AllNames(b) == Becomes([accessor EXCEPT !.flagAllName = b])
AllTypes(b) == Becomes([accessor EXCEPT !.flagAllType = b])

Select(threads) == Becomes([accessor EXCEPT !.selection = threads])
GetNamed == Select(IF accessor.flagAllName THEN m_threads ELSE accessor.namedThreads)
GetTyped == Select(IF accessor.flagAllType THEN m_threads ELSE accessor.typedThreads)
GetWorkered(t) == IF Stale THEN Fails("useAfterFree") ELSE Select(Among({u \in {t} : m_worker[u]}))

\* The ends of the ranges are chosen by the flags: with none the range of types is empty, with
\* one of them it begins in one vector and ends in another.
SelectBoth ==
  LET names == IF accessor.flagAllName THEN accessor.namedThreads ELSE m_threads
  IN  IF accessor.flagAllName /\ accessor.flagAllType THEN Select(m_threads)
      ELSE IF (accessor.flagAllName \/ accessor.flagAllType) /\ names # <<>> THEN Fails("mixedIterators")
      ELSE Select(<<>>)

\* operator() and first() throw for an empty selection; the threads of another are used.
Throws == accessor.selection = <<>> /\ UNCHANGED accessVars
Touches(threads) == IF threads \cap Deleted = {} THEN UNCHANGED accessVars ELSE Fails("useAfterFree")
Apply == Touches(ToSet(accessor.selection))
First == accessor.selection # <<>> /\ Touches({Head(accessor.selection)})

AccessorCall ==
  \/ Close \/ ClearSelection \/ GetNamed \/ GetTyped \/ SelectBoth \/ Throws \/ Apply \/ First
  \/ \E b \in BOOLEAN : AllNames(b) \/ AllTypes(b)
  \/ \E name \in Names : ByName(name)
  \/ \E type \in Types : ByType(type)
  \/ \E t \in Selectable : GetWorkered(t)

AccessNext == /\ accessFault = "none"
              /\ \/ \E t \in Selectable : AddThread(t) \/ RemoveThread(t) \/ ResetWorker(t)
                 \/ Open
                 \/ accessor # NoAccess /\ AccessorCall

-----------------------------------------------------------------------------
Lists(acc) == {acc.namedThreads, acc.typedThreads, acc.selection}

\* Safety, thread_accessor.cpp:23 and application.cpp:44-45: what an accessor has selected is not deleted
\* while it exists, so that it meets no deleted Thread but one that was removed before it; and until a
\* removal leaves a thread in the vector twice, no thread is selected twice, to be sent an event twice.
SelectionsHold ==
  accessor # NoAccess =>
    /\ accessFault = "useAfterFree" => accessor.gone # {}
    /\ \A list \in Lists(accessor) : /\ ToSet(list) \cap Deleted \subseteq accessor.gone
                                   /\ Deleted = {} => IsInjective(list)
====
