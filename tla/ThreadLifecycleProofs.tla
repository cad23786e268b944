------------------------ MODULE ThreadLifecycleProofs ------------------------
(***************************************************************************)
(* Theorems about ThreadLifecycle for every set of threads, every set of   *)
(* calls and every value of the bounds.                                    *)
(***************************************************************************)
EXTENDS ThreadLifecycle, FiniteSetTheorems, TLAPS

-----------------------------------------------------------------------------
(* Type correctness.                                                       *)

\* The two kinds of events that the actions put in Application::m_queue.
LEMMA AppEventsTyped ==
    /\ \A t \in Thread : Remove(t) \in AppEvents
    /\ \A k \in {"Close", "ThreadsGone", "Shutdown"} : AppEvent(k) \in AppEvents
BY DEF AppEvents, Remove, AppEvent

\* std::remove writes only elements that the vector held (application.cpp,
\* removeThread).
LEMMA RankAtMost ==
    ASSUME NEW K, IsFiniteSet(K), NEW i
    PROVE  /\ IsFiniteSet({j \in K : j =< i})
           /\ Rank(K, i) \in Nat
           /\ Rank(K, i) =< Cardinality(K)
<1>1. {j \in K : j =< i} \subseteq K
  OBVIOUS
<1>2. QED
  BY <1>1, FS_Subset, FS_CardinalityType DEF Rank

LEMMA KeepFinite ==
    ASSUME NEW s \in Seq(Thread), NEW t
    PROVE  /\ Keep(s, t) \subseteq 1 .. Len(s)
           /\ IsFiniteSet(Keep(s, t))
           /\ Distance(s, t) \in Nat
           /\ Distance(s, t) =< Len(s)
<1>1. Len(s) \in Nat /\ Keep(s, t) \subseteq 1 .. Len(s)
  BY DEF Keep
<1>2. IsFiniteSet(1 .. Len(s)) /\ Cardinality(1 .. Len(s)) = Len(s)
  <2>1. /\ IsFiniteSet(1 .. Len(s))
        /\ Cardinality(1 .. Len(s)) = IF 1 > Len(s) THEN 0 ELSE Len(s) - 1 + 1
    <3>1. 1 \in Int /\ Len(s) \in Int
      BY <1>1
    <3> QED BY <3>1, FS_Interval, Zenon
  <2> QED BY <1>1, <2>1
<1>3. IsFiniteSet(Keep(s, t)) /\ Cardinality(Keep(s, t)) =< Cardinality(1 .. Len(s))
  BY <1>1, <1>2, FS_Subset
<1>4. QED
  BY <1>1, <1>2, <1>3, FS_CardinalityType DEF Distance

\* Ranks of a finite set of positions are increasing.
LEMMA RankIncreases ==
    ASSUME NEW K \in SUBSET Nat, IsFiniteSet(K), NEW i \in K, NEW j \in K, i < j
    PROVE  Rank(K, i) < Rank(K, j)
<1> DEFINE A == {k \in K : k =< i}
           B == {k \in K : k =< j}
<1>1. A \subseteq B /\ A # B
  <2>1. \A k \in K : k =< i => k =< j
    BY K \in SUBSET Nat
  <2>2. j \in B /\ j \notin A
    BY i \in Nat, j \in Nat
  <2> QED BY <2>1, <2>2
<1>2. IsFiniteSet(B)
  BY RankAtMost
<1>3. Cardinality(A) < Cardinality(B)
  BY <1>1, <1>2, FS_Subset, FS_CardinalityType
<1> QED BY <1>3 DEF Rank

LEMMA RankPositive ==
    ASSUME NEW K \in SUBSET Nat, IsFiniteSet(K), NEW i \in K
    PROVE  Rank(K, i) \in 1 .. Cardinality(K)
<1>1. i \in {j \in K : j =< i}
  BY i \in Nat
<1>2. {j \in K : j =< i} # {} /\ IsFiniteSet({j \in K : j =< i})
  BY <1>1, RankAtMost
<1>3. Rank(K, i) # 0
  BY <1>2, FS_EmptySet DEF Rank
<1>4. Rank(K, i) \in Nat /\ Rank(K, i) =< Cardinality(K) /\ Cardinality(K) \in Nat
  BY RankAtMost, FS_CardinalityType
<1> QED BY <1>3, <1>4

\* Every rank up to the number of kept elements is taken by one of them.
LEMMA RankOnto ==
    ASSUME NEW K \in SUBSET Nat, IsFiniteSet(K), NEW k \in 1 .. Cardinality(K)
    PROVE  \E i \in K : Rank(K, i) = k
<1> DEFINE f == [i \in K |-> Rank(K, i)]
           T == 1 .. Cardinality(K)
<1>1. Cardinality(K) \in Nat
  BY FS_CardinalityType
<1>2. f \in [K -> T]
  BY RankPositive
<1>3. \A i, j \in K : f[i] = f[j] => i = j
  <2> SUFFICES ASSUME NEW i \in K, NEW j \in K, i # j
               PROVE  f[i] # f[j]
    OBVIOUS
  <2>1. i < j \/ j < i
    BY i \in Nat, j \in Nat
  <2>2. Rank(K, i) \in Nat /\ Rank(K, j) \in Nat
    BY RankAtMost
  <2>3. CASE i < j
    BY <2>2, <2>3, RankIncreases
  <2>4. CASE j < i
    BY <2>2, <2>4, RankIncreases
  <2> QED BY <2>1, <2>3, <2>4
<1>4. f \in Injection(K, T)
  BY <1>2, <1>3 DEF Injection, IsInjective
<1>5. IsFiniteSet(T) /\ Cardinality(T) = Cardinality(K)
  <2>1. /\ IsFiniteSet(T)
        /\ Cardinality(T) = IF 1 > Cardinality(K) THEN 0 ELSE Cardinality(K) - 1 + 1
    <3>1. 1 \in Int /\ Cardinality(K) \in Int
      BY <1>1
    <3> QED BY <3>1, FS_Interval, Zenon
  <2> QED BY <1>1, <2>1
<1>6. f \in Surjection(K, T)
  BY <1>4, <1>5, FS_Injection
<1>7. QED
  BY <1>6 DEF Surjection

\* What std::remove leaves: a vector of the same length over the same elements
\* that still has everything but t.
LEMMA StdRemoveKeeps ==
    ASSUME NEW s \in Seq(Thread), NEW t
    PROVE  /\ StdRemove(s, t) \in Seq(Thread)
           /\ Len(StdRemove(s, t)) = Len(s)
           /\ \A i \in 1 .. Len(s) : s[i] # t =>
                  \E k \in 1 .. Len(s) : StdRemove(s, t)[k] = s[i]
<1> DEFINE K == Keep(s, t)
<1> USE DEF Distance
<1>1. Len(s) \in Nat /\ K \subseteq 1 .. Len(s) /\ K \in SUBSET Nat /\ IsFiniteSet(K)
      /\ Cardinality(K) \in Nat /\ Cardinality(K) =< Len(s)
  BY KeepFinite
<1>2. \A k \in 1 .. Len(s) : StdRemove(s, t)[k] \in Thread
  <2> SUFFICES ASSUME NEW k \in 1 .. Len(s)
               PROVE  StdRemove(s, t)[k] \in Thread
    OBVIOUS
  <2>1. CASE k =< Cardinality(K)
    <3>1. k \in 1 .. Cardinality(K)
      BY <1>1, <2>1
    <3>2. PICK i \in K : Rank(K, i) = k
      BY <1>1, <3>1, RankOnto
    <3>3. (CHOOSE j \in K : Rank(K, j) = k) \in K
      BY <3>2
    <3>4. StdRemove(s, t)[k] = s[CHOOSE j \in K : Rank(K, j) = k]
      BY <2>1 DEF StdRemove
    <3> QED BY <1>1, <3>3, <3>4
  <2>2. CASE ~(k =< Cardinality(K))
    BY <2>2 DEF StdRemove
  <2> QED BY <2>1, <2>2
<1>3. StdRemove(s, t) \in [1 .. Len(s) -> Thread]
  BY <1>2 DEF StdRemove
<1>4. StdRemove(s, t) \in Seq(Thread) /\ Len(StdRemove(s, t)) = Len(s)
  BY <1>1, <1>3
<1>5. ASSUME NEW i \in 1 .. Len(s), s[i] # t
      PROVE  \E k \in 1 .. Len(s) : StdRemove(s, t)[k] = s[i]
  <2>1. i \in K
    BY <1>5 DEF Keep
  <2> DEFINE k == Rank(K, i)
  <2>2. k \in 1 .. Cardinality(K)
    BY <1>1, <2>1, RankPositive
  <2>3. k \in 1 .. Len(s) /\ k =< Cardinality(K)
    BY <1>1, <2>2
  <2>4. \A j \in K : Rank(K, j) = k => j = i
    <3> SUFFICES ASSUME NEW j \in K, j # i
                 PROVE  Rank(K, j) # Rank(K, i)
      OBVIOUS
    <3>1. Rank(K, i) \in Nat /\ Rank(K, j) \in Nat
      BY <1>1, RankAtMost
    <3>2. j < i \/ i < j
      BY <1>1, <2>1
    <3>3. CASE j < i
      BY <1>1, <2>1, <3>1, <3>3, RankIncreases
    <3>4. CASE i < j
      BY <1>1, <2>1, <3>1, <3>4, RankIncreases
    <3> QED BY <3>2, <3>3, <3>4
  <2>5. (CHOOSE j \in K : Rank(K, j) = k) = i
    BY <2>1, <2>4
  <2>6. StdRemove(s, t)[k] = s[CHOOSE j \in K : Rank(K, j) = k]
    BY <2>3 DEF StdRemove
  <2> QED BY <2>3, <2>5, <2>6
<1> QED BY <1>4, <1>5

\* std::distance is 0 only when every element is t.
LEMMA DistanceZero ==
    ASSUME NEW s \in Seq(Thread), NEW t, Distance(s, t) = 0
    PROVE  \A i \in 1 .. Len(s) : s[i] = t
<1>1. Keep(s, t) = {}
  BY KeepFinite, FS_EmptySet DEF Distance
<1> QED BY <1>1 DEF Keep

\* What a worker may change is of the right type.
LEMMA WorkerCodeTyped ==
    ASSUME TypeOK, NEW r \in Run, NEW q \in [Thread -> Seq(ThreadEvent)],
           NEW next \in {"unlock", "loop", "reset"}, WorkerCode(r, q, next)
    PROVE  /\ m_terminated' \in [Thread -> BOOLEAN]
           /\ m_ready' \in [Thread -> BOOLEAN]
           /\ m_queue' \in [Thread -> Seq(ThreadEvent)]
           /\ runs' \in [Thread -> 0 .. MaxRuns]
           /\ pc' \in [Run -> Pc]
           /\ starting' \in Thread \cup {NoThread}
           /\ issued' \in 0 .. MaxCalls
           /\ fault' \in Fault
<1> USE ConstantsAssumption DEF TypeOK
<1>0. \A where \in {"unlock", "loop", "reset", "stuck", "execStarts", "tickStarts"} \cup ShuttingDown :
          [pc EXCEPT ![r] = where] \in [Run -> Pc]
  BY DEF Pc, Handling
<1>1. CASE WorkerReturns(r, q, next)
  BY <1>0, <1>1 DEF WorkerReturns, GoTo
<1>2. CASE WorkerTerminates(r, q, next)
  <2>1. m_terminated' \in [Thread -> BOOLEAN]
    <3>1. (m_terminated[r[1]] \/ r[1] \in Slots) \in BOOLEAN
      OBVIOUS
    <3> QED BY <1>2, <3>1, Zenon DEF WorkerTerminates
  <2> QED BY <1>0, <1>2, <2>1 DEF WorkerTerminates, Fault, GoTo
<1>3. CASE \E u \in Thread, kind \in {"work", "shutdown"} : WorkerSends(r, u, kind, q, next)
  BY <1>0, <1>3 DEF WorkerSends, ThreadEvent, GoTo
<1>4. CASE \E u \in Thread : WorkerSendsToWorkerless(r, u, q, next)
  <2>1. /\ fault' = "nullTarget" /\ m_queue' = q /\ pc' = [pc EXCEPT ![r] = next]
        /\ UNCHANGED <<m_terminated, m_ready, runs, starting, issued>>
    BY <1>4 DEF WorkerSendsToWorkerless, GoTo
  <2>2. pc' \in [Run -> Pc]
    BY <1>0, <2>1
  <2> QED BY <2>1, <2>2 DEF Fault
<1>5. ASSUME NEW u \in Thread, WorkerStarts(r, u, q, next)
      PROVE  /\ m_terminated' \in [Thread -> BOOLEAN]
             /\ m_ready' \in [Thread -> BOOLEAN]
             /\ m_queue' \in [Thread -> Seq(ThreadEvent)]
             /\ runs' \in [Thread -> 0 .. MaxRuns]
             /\ pc' \in [Run -> Pc]
             /\ starting' \in Thread \cup {NoThread}
             /\ issued' \in 0 .. MaxCalls
             /\ fault' \in Fault
  <2> DEFINE p == [pc EXCEPT ![r] = StartsFrom[next]]
  <2>1. pc' \in [Run -> Pc]
    <3>1. p \in [Run -> Pc]
      <4>1. StartsFrom[next] \in {"execStarts", "tickStarts", "shutdownStarts"}
        BY DEF StartsFrom
      <4> QED BY <1>0, <4>1 DEF ShuttingDown
    <3>2. pc' = [p EXCEPT ![<<u, runs[u] + 1>>] = "beforeWork"] /\ "beforeWork" \in Pc
      BY <1>5 DEF WorkerStarts, BeginRun, Pc
    <3> HIDE DEF p
    <3> QED BY <3>1, <3>2
  <2>2. runs' \in [Thread -> 0 .. MaxRuns] /\ issued' \in 0 .. MaxCalls
    BY <1>5 DEF WorkerStarts, BeginRun
  <2> QED BY <1>5, <2>1, <2>2 DEF WorkerStarts, BeginRun
<1>6. CASE WorkerReadsStaleSlot(r, q, next)
  BY <1>0, <1>6 DEF WorkerReadsStaleSlot, Fault, GoTo
<1>7. CASE WorkerGetsStuck(r, q, next)
  BY <1>0, <1>7 DEF WorkerGetsStuck, GoTo, ShuttingDown
<1> QED BY <1>1, <1>2, <1>3, <1>4, <1>5, <1>6, <1>7 DEF WorkerCode

\* Every step of Next keeps the types.
LEMMA TypeStep == TypeOK /\ Next => TypeOK'
<1> SUFFICES ASSUME TypeOK, Next
             PROVE  TypeOK'
  OBVIOUS
<1> USE ConstantsAssumption
<1>1. ASSUME NEW t \in Thread, AddPaused(t)
      PROVE  TypeOK'
  <2>1. m_threads' \in Seq(Thread) /\ Len(m_threads') = Len(m_threads) + 1 /\ Len(m_threads) \in Nat
    BY <1>1 DEF TypeOK, AddPaused
  <2>2. life' \in [Thread -> {"new", "live", "freed"}]
    BY <1>1 DEF TypeOK, AddPaused
  <2>3. apc' = apc /\ apc # "type"
    BY <1>1 DEF AddPaused, AppLockFree, stopVars
  <2>4. UNCHANGED <<appQueue, terminated, stopVars, m_ready, m_deleting, m_terminated, m_worker,
                    startVars, m_queue, pc, loopLock, issued, fault>>
    BY <1>1 DEF AddPaused
  <2> QED BY <2>1, <2>2, <2>3, <2>4 DEF TypeOK, stopVars, startVars
<1>2. ASSUME NEW t \in Thread, AddStarted(t)
      PROVE  TypeOK'
  <2>1. m_threads' \in Seq(Thread) /\ Len(m_threads') = Len(m_threads) + 1 /\ Len(m_threads) \in Nat
    BY <1>2 DEF TypeOK, AddStarted
  <2>2. life' \in [Thread -> {"new", "live", "freed"}] /\ m_ready' \in [Thread -> BOOLEAN]
    BY <1>2 DEF TypeOK, AddStarted, BeginRun
  <2>3. m_queue' \in [Thread -> Seq(ThreadEvent)]
    BY <1>2 DEF TypeOK, AddStarted, ThreadEvent
  <2>4. pc' \in [Run -> Pc]
    BY <1>2 DEF TypeOK, AddStarted, BeginRun, Pc
  <2>5. runs' \in [Thread -> 0 .. MaxRuns]
    <3>1. runs[t] + 1 \in 0 .. MaxRuns
      BY <1>2 DEF TypeOK, AddStarted, BeginRun
    <3>2. runs \in [Thread -> 0 .. MaxRuns] /\ runs' = [runs EXCEPT ![t] = runs[t] + 1]
      BY <1>2 DEF TypeOK, AddStarted, BeginRun
    <3> QED BY <3>1, <3>2
  <2>6. apc' # "type" /\ apc' = apc
    BY <1>2 DEF AddStarted, AppLockFree, stopVars
  <2>7. /\ starting' \in Thread \cup {NoThread}
        /\ UNCHANGED <<appQueue, terminated, stopVars, m_deleting, m_terminated,
                       m_worker, m_thread, loopLock, issued, fault>>
    BY <1>2 DEF AddStarted, BeginRun
  <2> QED BY <2>1, <2>2, <2>3, <2>4, <2>5, <2>6, <2>7 DEF TypeOK, stopVars
<1>3. ASSUME NEW t \in Thread, EndStart(t)
      PROVE  TypeOK'
  <2>1. pc' \in [Run -> Pc]
    BY <1>3 DEF TypeOK, EndStart, Pc
  <2>2. m_thread' \in [Thread -> 0 .. MaxRuns]
    BY <1>3 DEF TypeOK, EndStart
  <2> QED BY <1>3, <2>1, <2>2 DEF TypeOK, EndStart, appVars, stopVars, flagVars
<1>4. ASSUME NEW r \in Run, RunStep(r)
      PROVE  TypeOK'
  <2> r[1] \in Thread
    BY DEF Run
  <2> USE DEF appVars, stopVars, flagVars, startVars
  <2>0. \A where \in {"work", "worker", "deleting", "exec", "unlock", "tick", "loop",
                     "handlerPunt", "punt", "end"} :
            [pc EXCEPT ![r] = where] \in [Run -> Pc]
    BY DEF TypeOK, Pc, Handling
  <2>1. CASE RunPostBeforeWork(r)
    <3>1. m_queue' \in [Thread -> Seq(ThreadEvent)]
      BY <2>1 DEF TypeOK, RunPostBeforeWork, ThreadEvent
    <3>2. pc' \in [Run -> Pc]
      BY <2>0, <2>1 DEF RunPostBeforeWork, GoTo
    <3>3. UNCHANGED <<appVars, stopVars, flagVars, startVars, loopLock, issued, fault>>
      BY <2>1 DEF RunPostBeforeWork
    <3> QED BY <3>1, <3>2, <3>3 DEF TypeOK
  <2>2. CASE RunPostWork(r)
    <3>1. m_queue' \in [Thread -> Seq(ThreadEvent)]
      BY <2>2 DEF TypeOK, RunPostWork, ThreadEvent
    <3>2. pc' \in [Run -> Pc]
      <4>1. pc' = [pc EXCEPT ![r] = "worker"] \/ pc' = [pc EXCEPT ![r] = "loop"]
        BY <2>2 DEF RunPostWork, GoTo
      <4> QED BY <2>0, <4>1
    <3>3. UNCHANGED <<appVars, stopVars, flagVars, startVars, loopLock, issued, fault>>
      BY <2>2 DEF RunPostWork
    <3> QED BY <3>1, <3>2, <3>3 DEF TypeOK
  <2>3. CASE RunLoop(r)
    <3>1. pc' \in [Run -> Pc] /\ loopLock' \in BOOLEAN
      BY <2>0, <2>3 DEF RunLoop, GoTo, TypeOK
    <3> QED BY <2>3, <3>1 DEF TypeOK, RunLoop
  <2>4. CASE RunReadsNullThread(r)
    BY <2>4 DEF TypeOK, RunReadsNullThread, Fault
  <2>5. CASE RunExec(r)
    <3> DEFINE t == r[1]
               q == [m_queue EXCEPT ![t] = Tail(@)]
    <3>1. CASE m_queue[t] = <<>> /\ WorkerReturns(r, m_queue, "unlock")
      BY <2>0, <2>5, <3>1 DEF TypeOK, RunExec, WorkerReturns, GoTo
    <3>2. ASSUME m_queue[t] # <<>>
          PROVE  q \in [Thread -> Seq(ThreadEvent)]
      BY <3>2 DEF TypeOK
    <3>3. CASE m_queue[t] # <<>> /\ WorkerCode(r, q, "unlock")
      <4> HIDE DEF q
      <4>1. /\ m_terminated' \in [Thread -> BOOLEAN]
            /\ m_ready' \in [Thread -> BOOLEAN]
            /\ m_queue' \in [Thread -> Seq(ThreadEvent)]
            /\ runs' \in [Thread -> 0 .. MaxRuns]
            /\ pc' \in [Run -> Pc]
            /\ starting' \in Thread \cup {NoThread}
            /\ issued' \in 0 .. MaxCalls
            /\ fault' \in Fault
        BY <3>2, <3>3, WorkerCodeTyped
      <4> QED BY <2>5, <4>1 DEF TypeOK, RunExec
    <3>4. CASE m_queue[t] # <<>> /\ ThreadQuits(r, q)
      BY <2>0, <2>5, <3>2, <3>4 DEF TypeOK, RunExec, ThreadQuits, GoTo
    <3> QED BY <2>5, <3>1, <3>3, <3>4 DEF RunExec
  <2>13. CASE RunHandlerPunts(r)
    <3>1. Remove(r[1]) \in AppEvents
      BY AppEventsTyped
    <3>2. appQueue' \in Seq(AppEvents)
      BY <2>13, <3>1 DEF TypeOK, RunHandlerPunts, Post
    <3> QED BY <2>0, <2>13, <3>2 DEF TypeOK, RunHandlerPunts, GoTo
  <2>14. CASE RunUnlock(r)
    BY <2>0, <2>14 DEF TypeOK, RunUnlock, GoTo
  <2>15. CASE RunLogsNullWorker(r)
    BY <2>15 DEF TypeOK, RunLogsNullWorker, Fault
  <2>6. CASE RunTick(r)
    <3>2. /\ m_terminated' \in [Thread -> BOOLEAN]
          /\ m_ready' \in [Thread -> BOOLEAN]
          /\ m_queue' \in [Thread -> Seq(ThreadEvent)]
          /\ runs' \in [Thread -> 0 .. MaxRuns]
          /\ pc' \in [Run -> Pc]
          /\ starting' \in Thread \cup {NoThread}
          /\ issued' \in 0 .. MaxCalls
          /\ fault' \in Fault
      <4>1. WorkerCode(r, m_queue, "loop")
        BY <2>6 DEF RunTick
      <4>2. m_queue \in [Thread -> Seq(ThreadEvent)]
        BY DEF TypeOK
      <4> QED BY <4>1, <4>2, WorkerCodeTyped
    <3> QED BY <2>6, <3>2 DEF TypeOK, RunTick
  <2>7. CASE RunMarkDeleting(r)
    BY <2>7 DEF TypeOK, RunMarkDeleting, GoTo, Pc
  <2>8. CASE RunShutdownWorker(r)
    <3>2. /\ m_terminated' \in [Thread -> BOOLEAN]
          /\ m_ready' \in [Thread -> BOOLEAN]
          /\ m_queue' \in [Thread -> Seq(ThreadEvent)]
          /\ runs' \in [Thread -> 0 .. MaxRuns]
          /\ pc' \in [Run -> Pc]
          /\ starting' \in Thread \cup {NoThread}
          /\ issued' \in 0 .. MaxCalls
          /\ fault' \in Fault
      <4>1. WorkerCode(r, m_queue, "reset")
        BY <2>8 DEF RunShutdownWorker
      <4>2. m_queue \in [Thread -> Seq(ThreadEvent)]
        BY DEF TypeOK
      <4> QED BY <4>1, <4>2, WorkerCodeTyped
    <3> QED BY <2>8, <3>2 DEF TypeOK, RunShutdownWorker
  <2>17. CASE RunTerminatesItself(r)
    BY <2>17 DEF TypeOK, RunTerminatesItself, GoTo, Pc
  <2>9. CASE RunResetWorker(r)
    BY <2>9 DEF TypeOK, RunResetWorker, GoTo, Pc
  <2>10. CASE RunClearReady(r)
    BY <2>10 DEF TypeOK, RunClearReady, GoTo, Pc
  <2>11. CASE RunQuit(r)
    BY <2>0, <2>11 DEF TypeOK, RunQuit, GoTo
  <2>16. CASE RunPunts(r)
    <3>1. Remove(r[1]) \in AppEvents
      BY AppEventsTyped
    <3>2. appQueue' \in Seq(AppEvents)
      BY <2>16, <3>1 DEF TypeOK, RunPunts, Post
    <3> QED BY <2>0, <2>16, <3>2 DEF TypeOK, RunPunts, GoTo
  <2>12. CASE RunOnFreed(r)
    BY <2>12 DEF TypeOK, RunOnFreed, Fault
  <2> QED BY <1>4, <2>1, <2>2, <2>3, <2>4, <2>5, <2>6, <2>7, <2>8, <2>9, <2>10,
             <2>11, <2>12, <2>13, <2>14, <2>15, <2>16, <2>17 DEF RunStep
<1>5. ASSUME AppStep
      PROVE  TypeOK'
  <2> USE DEF appVars, stopVars, flagVars, startVars, Unchanged_App
  <2>0. /\ stopPos \in Nat /\ stopPos # 0 /\ stopPos + 1 \in Nat /\ stopPos + 1 # 0
        /\ stopType \in 0 .. LastType
        /\ Len(m_threads) \in Nat /\ Len(stopSel) \in Nat
    BY DEF TypeOK
  <2>00. \A x \in {"exec", "stuck", "scan", "type", "wait", "quit", "punt", "waitDeleting", "join"} : x \in AppPc
    BY DEF AppPc
  <2>1. ASSUME NEW t \in Thread, AppRemoves(t)
        PROVE  TypeOK'
    <3>1. m_threads' \in Seq(Thread)
      BY <2>1, StdRemoveKeeps DEF AppRemoves, TypeOK
    <3>2. appQueue' \in Seq(AppEvents)
      BY <2>1, AppEventsTyped DEF AppRemoves, TypeOK, Pulls
    <3>3. apc' = "exec" /\ apc' = apc
      BY <2>1 DEF AppRemoves, Pulls
    <3>4. life' \in [Thread -> {"new", "live", "freed"}]
      BY <2>1 DEF AppRemoves, TypeOK
    <3> QED BY <2>1, <3>1, <3>2, <3>3, <3>4 DEF AppRemoves, TypeOK
  <2>2. ASSUME NEW t \in Thread, AppRefusesToRemove(t)
        PROVE  TypeOK'
    <3>1. appQueue' \in Seq(AppEvents)
      BY <2>2 DEF AppRefusesToRemove, TypeOK, Pulls
    <3>2. fault' \in Fault
      BY <2>2 DEF AppRefusesToRemove, Fault
    <3>3. UNCHANGED <<m_threads, terminated, stopVars, flagVars, startVars, m_queue, pc,
                      loopLock, issued>>
      BY <2>2 DEF AppRefusesToRemove, Unchanged_App
    <3> QED BY <3>1, <3>2, <3>3 DEF TypeOK
  <2>3. ASSUME NEW t \in Thread, AppRemovesAgain(t)
        PROVE  TypeOK'
    BY <2>3 DEF AppRemovesAgain, TypeOK, Fault
  <2>17. ASSUME NEW t \in Thread, AppGetsStuck(t)
         PROVE  TypeOK'
    <3>1. appQueue' \in Seq(AppEvents) /\ apc' = "stuck"
      BY <2>17 DEF AppGetsStuck, TypeOK, Pulls
    <3> QED BY <2>00, <2>17, <3>1 DEF AppGetsStuck, TypeOK
  <2>4. CASE AppThreadsGone
    BY <2>4, AppEventsTyped DEF AppThreadsGone, TypeOK, Pulls
  <2>5. CASE AppShutdown
    BY <2>5 DEF AppShutdown, TypeOK, Pulls, AppPc
  <2>6. CASE StopBegins
    BY <2>6 DEF StopBegins, ScanFrom, TypeOK, Pulls, AppPc
  <2>7. CASE StopAsksForWorker
    <3>1. stopPos' \in Nat \ {0} /\ apc' \in AppPc
          /\ (apc' = "type" => stopPos' =< Len(m_threads)) /\ apc' \in {"scan", "type"}
      BY <2>0, <2>00, <2>7 DEF StopAsksForWorker, InScan
    <3>2. stopType # 0
      BY <2>7 DEF StopAsksForWorker, InScan, TypeOK
    <3> QED BY <2>7, <3>1, <3>2 DEF StopAsksForWorker, TypeOK
  <2>8. CASE StopReadsStaleSlot
    BY <2>8 DEF StopReadsStaleSlot, TypeOK, Fault
  <2>9. CASE StopReadsType
    <3>1. m_threads[stopPos] \in Thread
      BY <2>9 DEF StopReadsType, TypeOK
    <3>2. stopSel' \in Seq(Thread) /\ stopPos' \in Nat \ {0} /\ apc' \in AppPc /\ apc' = "scan"
      <4>1. stopSel' \in Seq(Thread)
        BY <2>9, <3>1 DEF StopReadsType, TypeOK
      <4> QED BY <2>0, <2>00, <2>9, <4>1 DEF StopReadsType
    <3> QED BY <2>9, <3>2 DEF StopReadsType, TypeOK
  <2>10. CASE StopReadsNullWorker
    BY <2>10 DEF StopReadsNullWorker, TypeOK, Fault
  <2>11. CASE StopTerminates
    <3>1. \A t \in Thread : (m_terminated[t] \/ t \in Selected) \in BOOLEAN
      OBVIOUS
    <3>2. m_terminated' \in [Thread -> BOOLEAN]
      BY <2>11, <3>1, Zenon DEF StopTerminates
    <3>3. apc' \in AppPc /\ apc' = "wait" /\ stopPos' \in Nat \ {0}
      BY <2>00, <2>11 DEF StopTerminates
    <3> QED BY <2>11, <3>2, <3>3 DEF StopTerminates, TypeOK
  <2>12. CASE StopPunts
    <3>1. stopSel[stopPos] \in Thread
      BY <2>12 DEF StopPunts, TypeOK
    <3>2. Remove(stopSel[stopPos]) \in AppEvents
      BY <3>1, AppEventsTyped
    <3>3. appQueue' \in Seq(AppEvents)
      BY <2>12, <3>2 DEF StopPunts, Post, TypeOK
    <3>4. apc' \in AppPc /\ apc' = "wait" /\ stopPos' \in Nat \ {0}
      BY <2>0, <2>00, <2>12 DEF StopPunts, StopNext
    <3> QED BY <2>12, <3>3, <3>4 DEF StopPunts, StopNext, TypeOK
  <2>13. CASE StopAsksIfStarted
    <3>1. apc' \in {"waitDeleting", "quit"} /\ apc' \in AppPc
      BY <2>00, <2>13 DEF StopAsksIfStarted, StopGoesOn
    <3> QED BY <2>0, <2>13, <3>1 DEF StopAsksIfStarted, StopGoesOn, TypeOK
  <2>18. CASE StopQuits
    BY <2>18 DEF StopQuits, StopGoesOn, TypeOK, AppPc
  <2>14. CASE StopReadsDeleting
    <3>1. stopPos' \in Nat \ {0} /\ apc' \in AppPc
          /\ (apc' \in {"waitDeleting", "join"} => stopPos' =< Len(stopSel)) /\ apc' # "type"
      <4>1. apc = "waitDeleting" => stopPos =< Len(stopSel)
        BY DEF TypeOK
      <4> QED BY <2>0, <2>00, <2>14, <4>1 DEF StopReadsDeleting, StopGoesOn, StopNext
    <3> QED BY <2>14, <3>1 DEF StopReadsDeleting, StopGoesOn, StopNext, TypeOK
  <2>15. CASE StopJoins
    <3>1. apc' \in AppPc /\ apc' = "wait" /\ stopPos' \in Nat \ {0}
      BY <2>0, <2>00, <2>15 DEF StopJoins, StopNext
    <3> QED BY <2>15, <3>1 DEF StopJoins, StopNext, TypeOK
  <2>16. CASE StopNextType
    <3>1. /\ apc' \in AppPc /\ apc' \in {"exec", "scan"}
          /\ stopType' \in 0 .. LastType /\ stopPos' \in Nat \ {0}
      <4>1. stopType - 1 \in 0 .. LastType
        BY <2>16, ConstantsAssumption DEF StopNextType, TypeOK
      <4> QED BY <2>00, <2>16, <4>1 DEF StopNextType, ScanFrom
    <3> QED BY <2>16, <3>1 DEF StopNextType, ScanFrom, TypeOK
  <2> QED BY <1>5, <2>1, <2>2, <2>3, <2>4, <2>5, <2>6, <2>7, <2>8, <2>9, <2>10,
             <2>11, <2>12, <2>13, <2>14, <2>15, <2>16, <2>17, <2>18 DEF AppStep
<1>6. ASSUME NEW type \in {"Close", "Shutdown"}, Outside(type)
      PROVE  TypeOK'
  <2>1. appQueue' \in Seq(AppEvents)
    <3>1. AppEvent(type) \in AppEvents /\ appQueue \in Seq(AppEvents)
      BY AppEventsTyped DEF TypeOK
    <3>2. appQueue' = Append(appQueue, AppEvent(type))
      BY <1>6 DEF Outside, Post
    <3> QED BY <3>1, <3>2
  <2>2. issued' \in 0 .. MaxCalls
    <3>1. issued \in 0 .. MaxCalls /\ issued < MaxCalls /\ issued' = issued + 1
      BY <1>6 DEF TypeOK, Outside
    <3> QED BY <3>1
  <2>3. UNCHANGED <<m_threads, terminated, apc, stopType, stopSel, stopPos, life, m_ready,
                    m_deleting, m_terminated, m_worker, m_thread, runs, starting,
                    m_queue, pc, loopLock, fault>>
    BY <1>6 DEF Outside, stopVars, flagVars, startVars
  <2> QED BY <2>1, <2>2, <2>3 DEF TypeOK
<1> QED BY <1>1, <1>2, <1>3, <1>4, <1>5, <1>6 DEF Next

\* TypeOK is an invariant.
THEOREM TypeCorrect == Spec => []TypeOK
<1>1. Init => TypeOK
  <2> SUFFICES ASSUME Init PROVE TypeOK
    OBVIOUS
  <2>1. /\ m_threads \in Seq(Thread) /\ appQueue \in Seq(AppEvents)
        /\ stopSel \in Seq(Thread) /\ m_queue \in [Thread -> Seq(ThreadEvent)]
    BY DEF Init
  <2>2. /\ life \in [Thread -> {"new", "live", "freed"}]
        /\ m_ready \in [Thread -> BOOLEAN] /\ m_deleting \in [Thread -> BOOLEAN]
        /\ m_terminated \in [Thread -> BOOLEAN] /\ m_worker \in [Thread -> BOOLEAN]
        /\ m_thread \in [Thread -> 0 .. MaxRuns] /\ runs \in [Thread -> 0 .. MaxRuns]
        /\ pc \in [Run -> Pc]
    BY ConstantsAssumption DEF Init, Pc
  <2>3. terminated \in BOOLEAN /\ apc \in AppPc /\ apc = "exec"
        /\ starting \in Thread \cup {NoThread} /\ loopLock \in BOOLEAN /\ fault \in Fault
    BY DEF Init, AppPc, Fault
  <2>5. stopPos \in Nat \ {0}
    BY DEF Init
  <2>4. stopType \in 0 .. LastType /\ issued \in 0 .. MaxCalls
    BY ConstantsAssumption DEF Init
  <2> QED BY <2>1, <2>2, <2>3, <2>4, <2>5 DEF TypeOK
<1>2. TypeOK /\ [Next]_vars => TypeOK'
  <2>1. TypeOK /\ UNCHANGED vars => TypeOK'
    BY DEF TypeOK, vars, appVars, stopVars, flagVars, startVars
  <2> QED BY <2>1, TypeStep
<1> QED BY <1>1, <1>2, PTL DEF Spec
=============================================================================
