---- MODULE BufferProofs ----
\* Proofs about the registry of heaps, the buffer cache and the two mutexes that guard them.
EXTENDS Buffers, SequenceLemmas, FiniteSetTheorems

-----------------------------------------------------------------------------
\* The calls: every one that a client or do_unregisterHeap() makes, with its parameters.

Tokens == UNION {Token[u] : u \in Use}
BaseFilters == {Sliced(f) : f \in Filters}
               \cup {Sliced(SourcesOnly(IdentOf(u, token))) : u \in Use, token \in Tokens}

OnUse(k) == {Call(k, [use |-> u]) : u \in Use}
OnAll(k) == {Call(k, [use |-> NoUse])}
OnFilter(k) == {Call(k, [filter |-> f]) : f \in BaseFilters}
Registering == {Call("registerUse", [use |-> u, wide |-> w]) : u \in Use, w \in BOOLEAN}
Adding == {Call("addAllocated", [ident |-> i, heap |-> h]) : i \in Idents, h \in HeapIds \ {0}}
Subscribing == {Call("subscribe", [filter |-> f, acceptor |-> a]) : f \in BaseFilters, a \in Acceptor}
Unsubscribing == {Call("unsubscribe", [acceptor |-> a]) : a \in Acceptor}
Publishing == {Call("publish", [ident |-> i]) : i \in Idents}

AllocatorCalls == Registering \cup OnUse("unregisterUse") \cup OnUse("getHeap")
                  \cup OnUse("unregisterAll") \cup OnAll("unregisterAll") \cup OnAll("getAllocatorStatus")
CacheCalls == OnAll("getCacheStatus") \cup Adding \cup OnFilter("clearAllocated")
              \cup OnFilter("findRelevant") \cup Subscribing \cup Unsubscribing \cup Publishing
AllCalls == AllocatorCalls \cup CacheCalls

UnregisterKinds == {"unregisterUse", "unregisterAll"}

LEMMA BaseFiltersAreBase ==
    \A f \in BaseFilters : f.kind = "base"
BY DEF BaseFilters, Sliced, Base

\* buffer_cache.cpp:91, :114 and :161: a sliced filter matches nothing.
LEMMA BaseMatchesNothing ==
    ASSUME NEW f, f.kind = "base", NEW i
    PROVE  Matches(f, i) = FALSE
BY DEF Matches, MatchesSimple

\* What a handler may take for granted of the parameters of its call.
LEMMA CallParams ==
    ASSUME NEW c \in AllCalls
    PROVE  /\ c.on \in Mutexes
           /\ c.kind = "registerUse" => c.param.use \in Use /\ c.param.wide \in BOOLEAN
           /\ c.kind \in {"unregisterUse", "getHeap"} => c.param.use \in Use
           /\ c.kind = "addAllocated" => /\ c.param \in [ident : Idents, heap : HeapIds \ {0}]
           /\ c.kind = "clearAllocated" => c.param.filter \in BaseFilters
           /\ c.kind = "subscribe" => c.param \in [filter : BaseFilters, acceptor : Acceptor]
           /\ c.kind = "unsubscribe" => c.param.acceptor \in Acceptor
           /\ c.kind \in UnregisterKinds => /\ c.on = "allocator"
                                            /\ \A u \in Use : [c EXCEPT !.param = [use |-> u]] \in AllCalls
<1>1. CASE c \in Registering
  BY <1>1 DEF Registering, Call, Mutexes, UnregisterKinds
<1>2. CASE c \in OnUse("getHeap") \cup OnAll("getAllocatorStatus") \cup OnAll("getCacheStatus")
  BY <1>2 DEF OnUse, OnAll, Call, Mutexes, UnregisterKinds
<1>3. CASE c \in Adding
  BY <1>3 DEF Adding, Call, Mutexes, UnregisterKinds
<1>4. CASE c \in OnFilter("clearAllocated") \cup OnFilter("findRelevant")
  BY <1>4 DEF OnFilter, Call, Mutexes, UnregisterKinds
<1>5. CASE c \in Subscribing
  BY <1>5 DEF Subscribing, Call, Mutexes, UnregisterKinds
<1>6. CASE c \in Unsubscribing \cup Publishing
  BY <1>6 DEF Unsubscribing, Publishing, Call, Mutexes, UnregisterKinds
<1>7. CASE c \in OnUse("unregisterUse") \cup OnUse("unregisterAll") \cup OnAll("unregisterAll")
  <2>1. PICK k \in UnregisterKinds, v \in Use \cup {NoUse} :
          c = Call(k, [use |-> v]) /\ (k = "unregisterUse" => v \in Use)
    BY <1>7 DEF OnUse, OnAll, UnregisterKinds
  <2>2. /\ c.kind = k /\ c.on = "allocator" /\ c.param = [use |-> v]
        /\ \A u \in Use : [c EXCEPT !.param = [use |-> u]] = Call(k, [use |-> u])
    BY <2>1 DEF Call, UnregisterKinds
  <2>3. \A u \in Use : Call(k, [use |-> u]) \in AllCalls
    BY <2>1 DEF OnUse, UnregisterKinds, AllCalls, AllocatorCalls
  <2>4. c.param.use = v /\ c.on \in Mutexes
    BY <2>2 DEF Mutexes
  <2>5. c.kind \in UnregisterKinds => \A u \in Use : [c EXCEPT !.param = [use |-> u]] \in AllCalls
    BY <2>2, <2>3
  <2>6. k = "unregisterUse" \/ k = "unregisterAll"
    BY DEF UnregisterKinds
  <2>7. c.kind \notin {"registerUse", "getHeap", "addAllocated", "clearAllocated", "subscribe",
                      "unsubscribe"}
    BY <2>2, <2>6
  <2>8. c.kind = "unregisterUse" => c.param.use \in Use
    BY <2>1, <2>2, <2>4
  <2>9. QED
    BY <2>2, <2>4, <2>5, <2>7, <2>8
<1>8. QED
  BY <1>1, <1>2, <1>3, <1>4, <1>5, <1>6, <1>7 DEF AllCalls, AllocatorCalls, CacheCalls

\* The calls that Calls(t) offers, and the one that do_unregisterHeap() makes, are among them.
LEMMA CallsAreCalls ==
    ASSUME NEW t \in Thread, held[t] \subseteq HeapIds \ {0}, NEW c \in Calls(t)
    PROVE  c \in AllCalls
<1> DEFINE A == {Call("registerUse", [use |-> u, wide |-> w]) : u \in Use, w \in BOOLEAN}
           B == {Call(k, [use |-> u]) : k \in {"unregisterUse", "getHeap"}, u \in Use}
           C == {Call(k, [use |-> NoUse]) : k \in {"unregisterAll", "getAllocatorStatus",
                                                    "getCacheStatus"}}
           D == {Call("addAllocated", [ident |-> i, heap |-> h]) : i \in Idents, h \in held[t]}
           E == {Call(k, [filter |-> Sliced(f)]) : k \in {"clearAllocated", "findRelevant"},
                                                   f \in Filters}
           F == {Call("subscribe", [filter |-> Sliced(f), acceptor |-> a]) :
                   f \in Filters, a \in Acceptor}
           G == {Call("unsubscribe", [acceptor |-> a]) : a \in Acceptor}
           H == {Call("publish", [ident |-> i]) : i \in Idents}
<1>1. c \in A \cup B \cup C \cup D \cup E \cup F \cup G \cup H
  BY DEF Calls
<1>2. \A f \in Filters : Sliced(f) \in BaseFilters
  BY DEF BaseFilters
<1>3. A \subseteq AllCalls /\ B \subseteq AllCalls
  BY DEF AllCalls, AllocatorCalls, Registering, OnUse
<1>4. C \subseteq AllCalls
  <2>1. /\ Call("unregisterAll", [use |-> NoUse]) \in OnAll("unregisterAll")
        /\ Call("getAllocatorStatus", [use |-> NoUse]) \in OnAll("getAllocatorStatus")
        /\ Call("getCacheStatus", [use |-> NoUse]) \in OnAll("getCacheStatus")
    BY DEF OnAll
  <2>2. /\ OnAll("unregisterAll") \subseteq AllCalls
        /\ OnAll("getAllocatorStatus") \subseteq AllCalls
        /\ OnAll("getCacheStatus") \subseteq AllCalls
    BY DEF AllCalls, AllocatorCalls, CacheCalls
  <2>3. QED
    BY <2>1, <2>2
<1>5. D \subseteq AllCalls
  <2>1. D \subseteq Adding
    BY DEF Adding, Call
  <2>2. Adding \subseteq AllCalls
    BY DEF AllCalls, CacheCalls
  <2> HIDE DEF D
  <2>3. QED
    BY <2>1, <2>2
<1>6. E \subseteq AllCalls
  BY <1>2 DEF AllCalls, CacheCalls, OnFilter
<1>7. F \subseteq AllCalls
  BY <1>2 DEF AllCalls, CacheCalls, Subscribing
<1>8. G \subseteq AllCalls /\ H \subseteq AllCalls
  BY DEF AllCalls, CacheCalls, Unsubscribing, Publishing
<1> HIDE DEF A, B, C, D, E, F, G, H
<1>9. QED
  BY <1>1, <1>3, <1>4, <1>5, <1>6, <1>7, <1>8

LEMMA ClearIsCall ==
    ASSUME NEW u \in Use, NEW token \in Tokens
    PROVE  /\ Call("clearAllocated", [filter |-> Sliced(SourcesOnly(IdentOf(u, token)))]) \in AllCalls
           /\ Call("clearAllocated", [filter |-> Sliced(SourcesOnly(IdentOf(u, token)))]).kind = "clearAllocated"
           /\ Call("clearAllocated", [filter |-> Sliced(SourcesOnly(IdentOf(u, token)))]).on = "cache"
<1>1. Sliced(SourcesOnly(IdentOf(u, token))) \in BaseFilters
  BY DEF BaseFilters
<1>2. QED
  BY <1>1 DEF AllCalls, CacheCalls, OnFilter, Call

-----------------------------------------------------------------------------
\* The stacks of calls.

FrameSet == [call : AllCalls, at : Where]
Opening(c) == [call |-> c, at |-> "spin"]

\* Only the innermost call may spin or run.  Below it is the call whose continuation made it, or an
\* unregisterUse or unregisterAll that frees a heap, and then it is the clearAllocated of that.
Shaped(s) ==
  /\ \A k \in 1..Len(s) - 1 : s[k].at \in {"continue", "free"}
  /\ \A k \in 1..Len(s) :
       s[k].at = "free" => /\ s[k].call.kind \in UnregisterKinds /\ s[k].call.param.use \in Use
                           /\ \/ k = Len(s)
                              \/ k = Len(s) - 1 /\ s[Len(s)].call.kind = "clearAllocated"
  /\ \A j, k \in 1..Len(s) : s[j].at = "free" /\ s[k].at = "free" => j = k

StackInv == stack \in [Thread -> Seq(FrameSet)] /\ \A t \in Thread : Shaped(stack[t])

\* The steps, as far as stacks and mutexes are concerned.
Pushes(t) == /\ stack[t] = <<>> \/ (Len(stack[t]) = 1 /\ Top(t).at = "continue")
             /\ issued < MaxCalls /\ issued' = issued + 1 /\ UNCHANGED <<mutex, thrown>>
             /\ \E c \in AllCalls : Push(t, c)
Goes(t) == /\ stack[t] # <<>> /\ Top(t).at \in {"run", "free"}
           /\ GoTo(t, "continue") /\ UNCHANGED <<mutex, thrown, issued>>
Throws(t) == Running(t, "registerUse") /\ Throw(t)
StackMoves == \/ \E t \in Thread : \/ Pushes(t) \/ Goes(t) \/ TryLock(t) \/ Return(t)
                                   \/ Throws(t) \/ DoUnregister(t)
              \/ UNCHANGED <<stack, mutex, thrown, issued>>

LEMMA StepsMoveStacks ==
    ASSUME \A t \in Thread : held[t] \subseteq HeapIds \ {0}, [Next]_vars
    PROVE  StackMoves
<1>1. CASE UNCHANGED vars
  BY <1>1 DEF vars, StackMoves
<1>2. ASSUME NEW t \in Thread, Begin(t) \/ Continue(t) PROVE StackMoves
  <2>1. Pushes(t)
    BY <1>2, CallsAreCalls DEF Begin, Continue, Pushes, At
  <2>2. QED
    BY <2>1 DEF StackMoves
<1>3. ASSUME NEW t \in Thread, InCall(t) PROVE StackMoves
  <2>1. CASE TryLock(t) \/ Return(t) \/ DoUnregister(t)
    BY <2>1 DEF StackMoves
  <2>2. CASE RegisterUse(t)
    <3>1. Running(t, "registerUse")
      BY <2>2 DEF RegisterUse
    <3>2. Goes(t) \/ Throws(t)
      BY <2>2, <3>1 DEF RegisterUse, Goes, Throws, Running, At
    <3>3. QED
      BY <3>2 DEF StackMoves
  <2>3. CASE GetHeap(t)
    BY <2>3 DEF GetHeap, Goes, Running, At, StackMoves
  <2>4. CASE AllocatorStatus(t) \/ CacheStatus(t) \/ FindRelevant(t)
    BY <2>4 DEF AllocatorStatus, CacheStatus, FindRelevant, Reports, Goes, Running, At, StackMoves
  <2>5. CASE UnregisterNothing(t)
    BY <2>5 DEF UnregisterNothing, Unregisters, Goes, Running, At, StackMoves
  <2>6. CASE DoFree(t)
    BY <2>6 DEF DoFree, Goes, At, StackMoves
  <2>7. CASE AddAllocated(t) \/ ClearAllocated(t)
    BY <2>7 DEF AddAllocated, ClearAllocated, Goes, Running, At, StackMoves
  <2>8. CASE Subscribe(t) \/ Unsubscribe(t) \/ Publish(t)
    BY <2>8 DEF Subscribe, Unsubscribe, Publish, Goes, Running, At, StackMoves
  <2>9. QED
    BY <1>3, <2>1, <2>2, <2>3, <2>4, <2>5, <2>6, <2>7, <2>8 DEF InCall
<1>4. ASSUME NEW t \in Thread, NEW h \in DOMAIN heaps, Drop(t, h) \/ Alloc(t, h) PROVE StackMoves
  BY <1>4 DEF Drop, Alloc, StackMoves
<1>5. QED
  BY <1>1, <1>2, <1>3, <1>4 DEF Next

\* What is on a stack after each of the things that happen to one.
LEMMA Pushed ==
    ASSUME NEW s \in Seq(FrameSet), NEW f \in FrameSet
    PROVE  /\ Append(s, f) \in Seq(FrameSet) /\ Len(Append(s, f)) = Len(s) + 1
           /\ \A k \in 1..Len(s) : Append(s, f)[k] = s[k]
           /\ Append(s, f)[Len(s) + 1] = f
OBVIOUS

LEMMA TopReplaced ==
    ASSUME NEW s \in Seq(FrameSet), s # <<>>, NEW f \in FrameSet
    PROVE  /\ [s EXCEPT ![Len(s)] = f] \in Seq(FrameSet) /\ Len([s EXCEPT ![Len(s)] = f]) = Len(s)
           /\ \A k \in 1..Len(s) - 1 : [s EXCEPT ![Len(s)] = f][k] = s[k]
           /\ [s EXCEPT ![Len(s)] = f][Len(s)] = f
           /\ [s EXCEPT ![Len(s)] = f] # <<>>
OBVIOUS

LEMMA Popped ==
    ASSUME NEW s \in Seq(FrameSet), s # <<>>
    PROVE  /\ Front(s) \in Seq(FrameSet) /\ Len(Front(s)) = Len(s) - 1
           /\ \A k \in 1..Len(s) - 1 : Front(s)[k] = s[k]
<1>1. Len(s) \in Nat \ {0} /\ \A k \in 1..Len(s) : s[k] \in FrameSet
  OBVIOUS
<1>2. Front(s) = [k \in 1..Len(s) - 1 |-> s[k]]
  BY <1>1 DEF Front
<1> DEFINE r == [k \in 1..Len(s) - 1 |-> s[k]]
<1>3. r \in Seq(FrameSet) /\ Len(r) = Len(s) - 1 /\ \A k \in 1..Len(s) - 1 : r[k] = s[k]
  BY <1>1
<1>4. QED
  BY <1>2, <1>3

LEMMA TopIs ==
    ASSUME NEW t \in Thread, StackInv, stack[t] # <<>>
    PROVE  /\ stack[t] \in Seq(FrameSet) /\ Len(stack[t]) \in Nat \ {0}
           /\ DOMAIN stack[t] = 1..Len(stack[t])
           /\ Top(t) = stack[t][Len(stack[t])] /\ Top(t) \in FrameSet
           /\ Top(t).call \in AllCalls /\ Top(t).at \in Where /\ Top(t).call.on \in Mutexes
<1>1. stack[t] \in Seq(FrameSet)
  BY DEF StackInv
<1>2. Len(stack[t]) \in Nat \ {0} /\ DOMAIN stack[t] = 1..Len(stack[t])
  BY <1>1
<1>3. Top(t) = stack[t][Len(stack[t])]
  BY DEF Top, Last
<1>4. Top(t) \in FrameSet
  BY <1>1, <1>2, <1>3
<1>5. QED
  BY <1>1, <1>2, <1>3, <1>4, CallParams DEF FrameSet

\* GoTo(t, where) keeps the call.
LEMMA GoToReplaces ==
    ASSUME NEW t \in Thread, StackInv, stack[t] # <<>>, NEW where, GoTo(t, where)
    PROVE  stack' = [stack EXCEPT ![t] = [@ EXCEPT ![Len(stack[t])] =
                                            [call |-> Top(t).call, at |-> where]]]
<1>1. [Top(t) EXCEPT !.at = where] = [call |-> Top(t).call, at |-> where]
  BY TopIs DEF FrameSet
<1>2. stack' = [stack EXCEPT ![t] = [stack[t] EXCEPT ![Len(stack[t])] = [Top(t) EXCEPT !.at = where]]]
  BY TopIs DEF GoTo, StackInv
<1>3. QED
  BY <1>1, <1>2

LEMMA StackSet ==
    ASSUME NEW t \in Thread, StackInv, NEW r \in Seq(FrameSet), Shaped(r),
           stack' = [stack EXCEPT ![t] = r]
    PROVE  StackInv'
<1>1. stack' \in [Thread -> Seq(FrameSet)]
  BY DEF StackInv
<1>2. \A u \in Thread : Shaped(stack'[u])
  BY DEF StackInv
<1>3. QED
  BY <1>1, <1>2 DEF StackInv

LEMMA ShapedWhenPushed ==
    ASSUME NEW s \in Seq(FrameSet), NEW c \in AllCalls,
           s = <<>> \/ (Len(s) = 1 /\ Last(s).at = "continue")
    PROVE  Append(s, Opening(c)) \in Seq(FrameSet) /\ Shaped(Append(s, Opening(c)))
<1> DEFINE f == Opening(c)
           r == Append(s, f)
<1>1. f \in FrameSet /\ f.at = "spin"
  BY DEF Opening, FrameSet, Where
<1> HIDE DEF f
<1>2. /\ r \in Seq(FrameSet) /\ Len(r) = Len(s) + 1 /\ Len(s) \in Nat
      /\ \A k \in 1..Len(s) : r[k] = s[k]
      /\ r[Len(s) + 1] = f
  BY <1>1, Pushed
<1> HIDE DEF r
<1>3. Len(s) = 0 \/ (Len(s) = 1 /\ s[1].at = "continue")
  BY DEF Last
<1>4. \A k \in 1..Len(r) : r[k].at # "free" /\ (k = Len(r) \/ r[k].at = "continue")
  BY <1>1, <1>2, <1>3
<1>5. Shaped(r)
  BY <1>2, <1>4 DEF Shaped
<1>6. QED
  BY <1>2, <1>5 DEF r, f

\* The call goes on, to run or to end.
LEMMA ShapedWhenGoing ==
    ASSUME NEW s \in Seq(FrameSet), s # <<>>, Shaped(s), NEW f \in FrameSet,
           f.call = s[Len(s)].call, f.at # "free"
    PROVE  Shaped([s EXCEPT ![Len(s)] = f])
<1> DEFINE r == [s EXCEPT ![Len(s)] = f]
           n == Len(s)
<1>1. /\ n \in Nat \ {0} /\ Len(r) = n /\ r[n] = f
      /\ \A k \in 1..n - 1 : r[k] = s[k]
  BY TopReplaced
<1> HIDE DEF r
<1>2. \A k \in 1..n : r[k].at = "free" => k # n /\ r[k] = s[k]
  BY <1>1
<1>3. \A k \in 1..n - 1 : r[k].at \in {"continue", "free"}
  BY <1>1 DEF Shaped
<1>4. \A k \in 1..n :
        r[k].at = "free" => /\ r[k].call.kind \in UnregisterKinds /\ r[k].call.param.use \in Use
                            /\ k = n - 1 /\ r[n].call.kind = "clearAllocated"
  BY <1>1, <1>2 DEF Shaped
<1>5. \A j, k \in 1..n : r[j].at = "free" /\ r[k].at = "free" => j = k
  BY <1>2 DEF Shaped
<1>6. Shaped(r)
  BY <1>1, <1>3, <1>4, <1>5 DEF Shaped
<1>7. QED
  BY <1>6 DEF r

\* It comes to free the heap of a use, and nothing below it does.
LEMMA ShapedWhenFreeing ==
    ASSUME NEW s \in Seq(FrameSet), s # <<>>, Shaped(s), s[Len(s)].at # "free",
           s[Len(s)].call.kind \in UnregisterKinds,
           NEW f \in FrameSet, f.call.kind = s[Len(s)].call.kind, f.at = "free", f.call.param.use \in Use
    PROVE  Shaped([s EXCEPT ![Len(s)] = f])
<1> DEFINE r == [s EXCEPT ![Len(s)] = f]
           n == Len(s)
<1>1. /\ n \in Nat \ {0} /\ Len(r) = n /\ r[n] = f
      /\ \A k \in 1..n - 1 : r[k] = s[k]
  BY TopReplaced
<1> HIDE DEF r
<1>2. \A k \in 1..n : s[k].at # "free"
  BY <1>1 DEF Shaped, UnregisterKinds
<1>3. \A k \in 1..n - 1 : r[k].at = "continue"
  BY <1>1, <1>2 DEF Shaped
<1>4. \A k \in 1..n : r[k].at = "free" => k = n
  BY <1>1, <1>3
<1>5. Shaped(r)
  BY <1>1, <1>3, <1>4 DEF Shaped
<1>6. QED
  BY <1>5 DEF r

\* With blocks counted in the heap, clearAllocated is called from there.
LEMMA ShapedWhenClearing ==
    ASSUME NEW s \in Seq(FrameSet), s # <<>>, Shaped(s), s[Len(s)].at = "free",
           s[Len(s)].call.kind \in UnregisterKinds,
           NEW c \in AllCalls, c.kind = "clearAllocated"
    PROVE  Append(s, Opening(c)) \in Seq(FrameSet) /\ Shaped(Append(s, Opening(c)))
<1> DEFINE f == Opening(c)
           r == Append(s, f)
           n == Len(s)
<1>1. f \in FrameSet /\ f.at = "spin" /\ f.call = c
  BY DEF Opening, FrameSet, Where
<1> HIDE DEF f
<1>2. /\ r \in Seq(FrameSet) /\ Len(r) = n + 1 /\ n \in Nat \ {0}
      /\ \A k \in 1..n : r[k] = s[k]
      /\ r[n + 1] = f
  BY <1>1, Pushed
<1> HIDE DEF r
<1>3. \A k \in 1..n - 1 : r[k].at = "continue"
  BY <1>2 DEF Shaped
<1>4. \A k \in 1..n + 1 : r[k].at = "free" => k = n
  BY <1>1, <1>2, <1>3
<1>5. \A k \in 1..n : r[k].at \in {"continue", "free"}
  BY <1>2, <1>3
<1>6. s[n].call.param.use \in Use
  BY <1>2 DEF Shaped
<1>7. Shaped(r)
  BY <1>1, <1>2, <1>4, <1>5, <1>6 DEF Shaped
<1>8. QED
  BY <1>2, <1>7 DEF r, f

LEMMA ShapedWhenPopped ==
    ASSUME NEW s \in Seq(FrameSet), s # <<>>, Shaped(s)
    PROVE  Shaped(Front(s))
<1> DEFINE r == Front(s)
           n == Len(s)
<1>1. n \in Nat \ {0} /\ Len(r) = n - 1 /\ \A k \in 1..n - 1 : r[k] = s[k]
  BY Popped
<1> HIDE DEF r
<1>2. \A k \in 1..n - 1 : k \in 1..n /\ k # n
  BY <1>1
<1>3. \A k \in 1..Len(r) - 1 : r[k].at \in {"continue", "free"}
  BY <1>1 DEF Shaped
<1>4. \A k \in 1..Len(r) :
        r[k].at = "free" => /\ r[k].call.kind \in UnregisterKinds /\ r[k].call.param.use \in Use
                            /\ k = Len(r)
  BY <1>1, <1>2 DEF Shaped
<1>5. \A j, k \in 1..Len(r) : r[j].at = "free" /\ r[k].at = "free" => j = k
  BY <1>4
<1>6. Shaped(r)
  BY <1>3, <1>4, <1>5 DEF Shaped
<1>7. QED
  BY <1>6 DEF r

LEMMA ShapedEmpty ==
    <<>> \in Seq(FrameSet) /\ Shaped(<<>>)
BY DEF Shaped

\* What TryLock, Goes and Return do to the stack of t.
LEMMA Moved ==
    ASSUME NEW t \in Thread, StackInv, stack[t] # <<>>, NEW where \in {"run", "continue"}, GoTo(t, where)
    PROVE  LET r == [stack[t] EXCEPT ![Len(stack[t])] = [call |-> Top(t).call, at |-> where]]
           IN  /\ stack' = [stack EXCEPT ![t] = r]
               /\ r \in Seq(FrameSet) /\ Len(r) = Len(stack[t]) /\ Shaped(r)
               /\ \A k \in 1..Len(r) - 1 : r[k] = stack[t][k]
               /\ r[Len(r)] = [call |-> Top(t).call, at |-> where]
<1> DEFINE f == [call |-> Top(t).call, at |-> where]
<1>1. f \in FrameSet /\ f.call = Top(t).call /\ f.at = where /\ f.at # "free"
  BY TopIs DEF FrameSet, Where
<1>2. stack' = [stack EXCEPT ![t] = [stack[t] EXCEPT ![Len(stack[t])] = f]]
  BY GoToReplaces, TopIs DEF StackInv
<1> HIDE DEF f
<1>3. stack[t] \in Seq(FrameSet) /\ Shaped(stack[t]) /\ Top(t) = stack[t][Len(stack[t])]
  BY TopIs DEF StackInv
<1>4. Shaped([stack[t] EXCEPT ![Len(stack[t])] = f])
  BY <1>1, <1>3, ShapedWhenGoing
<1>5. QED
  BY <1>1, <1>2, <1>3, <1>4, TopReplaced DEF f

\* do_unregisterHeap().
Freed(t, u) == [call |-> [Top(t).call EXCEPT !.param = [use |-> u]], at |-> "free"]
Clearing(u, token) == Call("clearAllocated", [filter |-> Sliced(SourcesOnly(IdentOf(u, token)))])

LEMMA Unregistered ==
    ASSUME NEW t \in Thread, StackInv, DoUnregister(t)
    PROVE  /\ stack[t] # <<>> /\ Top(t).at = "run" /\ Top(t).call.on = "allocator"
           /\ UNCHANGED <<heapVars, cacheVars, mutex, thrown, issued, fault>>
           /\ \E u \in Use, token \in Tokens :
                LET r == [stack[t] EXCEPT ![Len(stack[t])] = Freed(t, u)]
                IN  /\ m_heaps[u] # 0 /\ r \in Seq(FrameSet) /\ Len(r) = Len(stack[t]) /\ Shaped(r)
                    /\ \A k \in 1..Len(r) - 1 : r[k] = stack[t][k]
                    /\ r[Len(r)] = Freed(t, u) /\ Freed(t, u) \in FrameSet
                    /\ Append(r, Opening(Clearing(u, token))) \in Seq(FrameSet)
                    /\ Shaped(Append(r, Opening(Clearing(u, token))))
                    /\ stack' = [stack EXCEPT ![t] =
                                   IF heaps[m_heaps[u]].allocated > 0
                                     THEN Append(r, Opening(Clearing(u, token))) ELSE r]
<1>1. /\ stack[t] # <<>> /\ Top(t).at = "run" /\ Top(t).call.kind \in UnregisterKinds
      /\ UNCHANGED <<heapVars, cacheVars, mutex, thrown, issued, fault>>
  BY DEF DoUnregister, Unregisters, Running, At, UnregisterKinds
<1>2. Top(t).call.on = "allocator"
  BY <1>1, TopIs, CallParams
<1>3. PICK u \in Targets(Top(t).call), token \in Tokens :
        stack' = [stack EXCEPT ![t] =
                    IF heaps[m_heaps[u]].allocated > 0
                      THEN Append([@ EXCEPT ![Len(stack[t])] = Freed(t, u)], Opening(Clearing(u, token)))
                      ELSE [@ EXCEPT ![Len(stack[t])] = Freed(t, u)]]
  BY DEF DoUnregister, Freed, Clearing, Opening, Tokens, Targets
<1>4. u \in Use /\ m_heaps[u] # 0
  BY <1>3 DEF Targets
<1> DEFINE f == Freed(t, u)
           r == [stack[t] EXCEPT ![Len(stack[t])] = f]
<1>5. /\ stack[t] \in Seq(FrameSet) /\ Shaped(stack[t]) /\ Top(t) = stack[t][Len(stack[t])]
      /\ Top(t).call \in AllCalls
  BY <1>1, TopIs DEF StackInv
<1>6. f.call \in AllCalls /\ f.at = "free"
  BY <1>1, <1>4, <1>5, CallParams DEF Freed
<1>7. f \in FrameSet
  BY <1>1, <1>4, <1>5, CallParams DEF Freed, FrameSet, Where
<1>8. Top(t).call = [kind |-> Top(t).call.kind, param |-> Top(t).call.param, on |-> Top(t).call.on]
  <2>1. \A c \in AllCalls : c = [kind |-> c.kind, param |-> c.param, on |-> c.on]
    BY DEF AllCalls, AllocatorCalls, CacheCalls, Registering, OnUse, OnAll, Adding, OnFilter,
           Subscribing, Unsubscribing, Publishing, Call
  <2>2. QED
    BY <1>5, <2>1
<1>9. f.call.kind = Top(t).call.kind /\ f.call.param.use = u
  BY <1>8 DEF Freed
<1> HIDE DEF f
<1>10. /\ r \in Seq(FrameSet) /\ Len(r) = Len(stack[t]) /\ r # <<>> /\ r[Len(r)] = f
       /\ \A k \in 1..Len(r) - 1 : r[k] = stack[t][k]
  BY <1>1, <1>5, <1>7, TopReplaced
<1>11. Shaped(r)
  BY <1>1, <1>4, <1>5, <1>6, <1>7, <1>9, ShapedWhenFreeing
<1>12. Clearing(u, token) \in AllCalls /\ Clearing(u, token).kind = "clearAllocated"
  BY <1>4, ClearIsCall DEF Clearing
<1>13. Append(r, Opening(Clearing(u, token))) \in Seq(FrameSet) /\ Shaped(Append(r, Opening(Clearing(u, token))))
  BY <1>1, <1>6, <1>9, <1>10, <1>11, <1>12, ShapedWhenClearing
<1>14. stack' = [stack EXCEPT ![t] = IF heaps[m_heaps[u]].allocated > 0
                                       THEN Append(r, Opening(Clearing(u, token))) ELSE r]
  BY <1>3 DEF f, StackInv
<1>15. QED
  BY <1>1, <1>2, <1>4, <1>7, <1>10, <1>11, <1>13, <1>14 DEF f

LEMMA StackInvStep ==
    ASSUME StackInv, StackMoves
    PROVE  StackInv'
<1>1. CASE UNCHANGED <<stack, mutex, thrown, issued>>
  BY <1>1 DEF StackInv
<1>2. ASSUME NEW t \in Thread, Pushes(t) PROVE StackInv'
  <2>1. PICK c \in AllCalls : Push(t, c)
    BY <1>2 DEF Pushes
  <2>2. stack[t] \in Seq(FrameSet) /\ stack' = [stack EXCEPT ![t] = Append(stack[t], Opening(c))]
    BY <2>1 DEF Push, Opening, StackInv
  <2>3. Append(stack[t], Opening(c)) \in Seq(FrameSet) /\ Shaped(Append(stack[t], Opening(c)))
    BY <1>2, <2>2, ShapedWhenPushed DEF Pushes, Top
  <2>4. QED
    BY <2>2, <2>3, StackSet
<1>3. ASSUME NEW t \in Thread, Goes(t) PROVE StackInv'
  BY <1>3, Moved, StackSet DEF Goes
<1>4. ASSUME NEW t \in Thread, TryLock(t) PROVE StackInv'
  BY <1>4, Moved, StackSet DEF TryLock, At
<1>5. ASSUME NEW t \in Thread, Return(t) PROVE StackInv'
  <2>1. stack[t] # <<>> /\ stack' = [stack EXCEPT ![t] = Front(stack[t])]
    BY <1>5 DEF Return, At, StackInv
  <2>2. Front(stack[t]) \in Seq(FrameSet) /\ Shaped(Front(stack[t]))
    BY <2>1, Popped, ShapedWhenPopped DEF StackInv
  <2>3. QED
    BY <2>1, <2>2, StackSet
<1>6. ASSUME NEW t \in Thread, Throws(t) PROVE StackInv'
  BY <1>6, ShapedEmpty, StackSet DEF Throws, Throw
<1>7. ASSUME NEW t \in Thread, DoUnregister(t) PROVE StackInv'
  BY <1>7, Unregistered, StackSet
<1>8. QED
  BY <1>1, <1>2, <1>3, <1>4, <1>5, <1>6, <1>7 DEF StackMoves

-----------------------------------------------------------------------------
\* The mutexes.

HeldIn(s, m) == {i \in 1..Len(s) : s[i].call.on = m /\ s[i].at # "spin"}

Accounted(m) ==
  /\ mutex[m].owner = NoThread <=> mutex[m].count = 0
  /\ \A t \in Thread : t # mutex[m].owner => HeldIn(stack[t], m) = {}
  /\ mutex[m].count = 0 => thrown[m] = 0
  /\ mutex[m].owner \in Thread =>
       mutex[m].count = thrown[m] + Cardinality(HeldIn(stack[mutex[m].owner], m))

MutexInv == /\ mutex \in [Mutexes -> [owner : Thread \cup {NoThread}, count : Nat]]
            /\ thrown \in [Mutexes -> Nat]
            /\ \A m \in Mutexes : Accounted(m)

LEMMA HoldingIsHeldIn ==
    ASSUME StackInv, NEW t \in Thread, NEW m
    PROVE  Holding(t, m) = HeldIn(stack[t], m)
<1>1. DOMAIN stack[t] = 1..Len(stack[t])
  BY DEF StackInv
<1>2. QED
  BY <1>1 DEF Holding, HeldIn

LEMMA HeldInFinite ==
    ASSUME NEW s \in Seq(FrameSet), NEW m
    PROVE  IsFiniteSet(HeldIn(s, m)) /\ Cardinality(HeldIn(s, m)) \in Nat
<1>1. IsFiniteSet(1..Len(s))
  BY FS_Interval
<1>2. HeldIn(s, m) \subseteq 1..Len(s)
  BY DEF HeldIn
<1>3. IsFiniteSet(HeldIn(s, m))
  BY <1>1, <1>2, FS_Subset
<1>4. QED
  BY <1>3, FS_CardinalityType

\* A call that waits for its mutex holds nothing.
LEMMA HeldInPushed ==
    ASSUME NEW s \in Seq(FrameSet), NEW f \in FrameSet, f.at = "spin", NEW m
    PROVE  HeldIn(Append(s, f), m) = HeldIn(s, m)
<1> DEFINE r == Append(s, f)
<1>1. /\ Len(s) \in Nat /\ Len(r) = Len(s) + 1 /\ r[Len(s) + 1] = f
      /\ \A k \in 1..Len(s) : r[k] = s[k]
  BY Pushed
<1> HIDE DEF r
<1>2. HeldIn(r, m) = HeldIn(s, m)
  BY <1>1 DEF HeldIn
<1>3. QED
  BY <1>2 DEF r

\* A call that goes on inside its mutex, perhaps with another parameter, still holds it.
LEMMA HeldInGoing ==
    ASSUME NEW s \in Seq(FrameSet), s # <<>>, NEW f \in FrameSet, NEW m,
           f.call.on = s[Len(s)].call.on, f.at # "spin", s[Len(s)].at # "spin"
    PROVE  HeldIn([s EXCEPT ![Len(s)] = f], m) = HeldIn(s, m)
<1> DEFINE r == [s EXCEPT ![Len(s)] = f]
           n == Len(s)
<1>1. n \in Nat \ {0} /\ Len(r) = n /\ r[n] = f /\ \A k \in 1..n - 1 : r[k] = s[k]
  BY TopReplaced
<1> HIDE DEF r
<1>2. HeldIn(r, m) = HeldIn(s, m)
  BY <1>1 DEF HeldIn
<1>3. QED
  BY <1>2 DEF r

\* try_lock() adds the call to those that hold its mutex.
LEMMA HeldInLocked ==
    ASSUME NEW s \in Seq(FrameSet), s # <<>>, NEW f \in FrameSet, NEW m,
           f.call.on = s[Len(s)].call.on, f.at # "spin", s[Len(s)].at = "spin"
    PROVE  /\ Len(s) \notin HeldIn(s, m)
           /\ HeldIn([s EXCEPT ![Len(s)] = f], m) =
                IF f.call.on = m THEN HeldIn(s, m) \cup {Len(s)} ELSE HeldIn(s, m)
<1> DEFINE r == [s EXCEPT ![Len(s)] = f]
           n == Len(s)
<1>1. n \in Nat \ {0} /\ Len(r) = n /\ r[n] = f /\ \A k \in 1..n - 1 : r[k] = s[k]
  BY TopReplaced
<1> HIDE DEF r
<1>2. n \notin HeldIn(s, m) /\ HeldIn(r, m) = IF f.call.on = m THEN HeldIn(s, m) \cup {n} ELSE HeldIn(s, m)
  BY <1>1 DEF HeldIn
<1>3. QED
  BY <1>2 DEF r

\* unlock() takes it away from them.
LEMMA HeldInPopped ==
    ASSUME NEW s \in Seq(FrameSet), s # <<>>, s[Len(s)].at # "spin", NEW m
    PROVE  /\ s[Len(s)].call.on = m => Len(s) \in HeldIn(s, m)
           /\ HeldIn(Front(s), m) =
                IF s[Len(s)].call.on = m THEN HeldIn(s, m) \ {Len(s)} ELSE HeldIn(s, m)
<1> DEFINE r == Front(s)
           n == Len(s)
<1>1. n \in Nat \ {0} /\ Len(r) = n - 1 /\ \A k \in 1..n - 1 : r[k] = s[k]
  BY Popped
<1> HIDE DEF r
<1>2. /\ s[n].call.on = m => n \in HeldIn(s, m)
      /\ HeldIn(r, m) = IF s[n].call.on = m THEN HeldIn(s, m) \ {n} ELSE HeldIn(s, m)
  BY <1>1 DEF HeldIn
<1>3. QED
  BY <1>2 DEF r

LEMMA HeldInEmpty ==
    ASSUME NEW m PROVE HeldIn(<<>>, m) = {}
BY DEF HeldIn

\* A step that changes neither the mutex nor who holds it.
LEMMA AccountedSame ==
    ASSUME NEW m \in Mutexes, Accounted(m), mutex'[m] = mutex[m], thrown'[m] = thrown[m],
           mutex[m].owner \in Thread \cup {NoThread},
           \A t \in Thread : HeldIn(stack'[t], m) = HeldIn(stack[t], m)
    PROVE  Accounted(m)'
<1>1. mutex[m].owner \in Thread =>
        mutex'[m].count = thrown'[m] + Cardinality(HeldIn(stack'[mutex'[m].owner], m))
  BY DEF Accounted
<1>2. \A t \in Thread : t # mutex'[m].owner => HeldIn(stack'[t], m) = {}
  BY DEF Accounted
<1>3. QED
  BY <1>1, <1>2 DEF Accounted

\* A step of t that leaves mutexes alone, and leaves t the holder of what it held.
\* A call whose parameter is replaced, as _unregisterHeap() does, stays at its mutex.
LEMMA ParamReplaced ==
    ASSUME NEW u, NEW c \in AllCalls
    PROVE  /\ [c EXCEPT !.param = [use |-> u]].on = c.on
           /\ [c EXCEPT !.param = [use |-> u]].param.use = u
<1> DEFINE Kept(d) == /\ [d EXCEPT !.param = [use |-> u]].on = d.on
                      /\ [d EXCEPT !.param = [use |-> u]].param.use = u
<1>1. \A d \in Registering \cup Adding : Kept(d)
  BY DEF Registering, Adding, Call
<1>2. \A k : \A d \in OnUse(k) \cup OnAll(k) \cup OnFilter(k) : Kept(d)
  BY DEF OnUse, OnAll, OnFilter, Call
<1>3. \A d \in Subscribing \cup Unsubscribing \cup Publishing : Kept(d)
  BY DEF Subscribing, Unsubscribing, Publishing, Call
<1> HIDE DEF Kept
<1>4. \A d \in AllocatorCalls : Kept(d)
  BY <1>1, <1>2 DEF AllocatorCalls
<1>5. \A d \in CacheCalls : Kept(d)
  BY <1>1, <1>2, <1>3 DEF CacheCalls
<1>6. Kept(c)
  BY <1>4, <1>5 DEF AllCalls
<1>7. QED
  BY <1>6 DEF Kept

LEMMA MutexInvSame ==
    ASSUME StackInv, MutexInv, NEW t \in Thread, NEW r, stack' = [stack EXCEPT ![t] = r],
           UNCHANGED <<mutex, thrown>>, \A m \in Mutexes : HeldIn(r, m) = HeldIn(stack[t], m)
    PROVE  MutexInv'
<1>1. \A u \in Thread : \A m \in Mutexes : HeldIn(stack'[u], m) = HeldIn(stack[u], m)
  BY DEF StackInv
<1>2. \A m \in Mutexes : Accounted(m)'
  BY <1>1, AccountedSame DEF MutexInv
<1>3. QED
  BY <1>2 DEF MutexInv

\* The call that a thread is in, outside the spin, holds its mutex, and the thread owns it.
LEMMA TopOwns ==
    ASSUME StackInv, MutexInv, NEW t \in Thread, stack[t] # <<>>, Top(t).at # "spin"
    PROVE  mutex[Top(t).call.on].owner = t
<1>1. Len(stack[t]) \in HeldIn(stack[t], Top(t).call.on)
  BY TopIs, HeldInPopped
<1>2. QED
  BY <1>1, TopIs DEF MutexInv, Accounted

LEMMA MutexInvTryLock ==
    ASSUME StackInv, MutexInv, NEW t \in Thread, TryLock(t)
    PROVE  MutexInv'
<1> PICK on \in Mutexes : on = Top(t).call.on
  BY TopIs DEF TryLock, At
<1> DEFINE s == stack[t]
           n == Len(s)
           f == [call |-> Top(t).call, at |-> "run"]
           r == [s EXCEPT ![n] = f]
<1>1. /\ s # <<>> /\ Top(t).at = "spin" /\ MayLock(t, on) /\ GoTo(t, "run") /\ thrown' = thrown
      /\ mutex' = [mutex EXCEPT ![on] = [owner |-> t, count |-> mutex[on].count + 1]]
  BY DEF TryLock, At
<1>2. s \in Seq(FrameSet) /\ Top(t) = s[n] /\ on \in Mutexes /\ f.call.on = on /\ f \in FrameSet
  BY <1>1, TopIs DEF FrameSet, Where
<1>3. stack' = [stack EXCEPT ![t] = r]
  BY <1>1, Moved
<1>4. \A m \in Mutexes : /\ n \notin HeldIn(s, m)
                         /\ HeldIn(r, m) = IF on = m THEN HeldIn(s, m) \cup {n} ELSE HeldIn(s, m)
  <2> TAKE m \in Mutexes
  <2>1. f.at # "spin" /\ f.call.on = s[n].call.on /\ s[n].at = "spin"
    BY <1>1, <1>2
  <2>2. n \notin HeldIn(s, m)
    BY <1>1, <1>2, <2>1, HeldInLocked
  <2>3. HeldIn(r, m) = IF f.call.on = m THEN HeldIn(s, m) \cup {n} ELSE HeldIn(s, m)
    BY <1>1, <1>2, <2>1, HeldInLocked
  <2>4. QED
    BY <1>2, <2>2, <2>3
<1> HIDE DEF r, f
<1>5. /\ mutex \in [Mutexes -> [owner : Thread \cup {NoThread}, count : Nat]] /\ thrown \in [Mutexes -> Nat]
      /\ \A m \in Mutexes : Accounted(m) /\ mutex[m].owner \in Thread \cup {NoThread}
  BY DEF MutexInv
<1>6. stack'[t] = r /\ \A u \in Thread : u # t => stack'[u] = stack[u]
  BY <1>3 DEF StackInv
<1>7. \A m \in Mutexes : m # on => Accounted(m)'
  <2> SUFFICES ASSUME NEW m \in Mutexes, m # on PROVE Accounted(m)'
    OBVIOUS
  <2>1. \A u \in Thread : HeldIn(stack'[u], m) = HeldIn(stack[u], m)
    BY <1>4, <1>6
  <2>2. mutex'[m] = mutex[m] /\ thrown'[m] = thrown[m]
    BY <1>1, <1>5
  <2>3. QED
    BY <1>5, <2>1, <2>2, AccountedSame
<1>8. Accounted(on)'
  <2>1. /\ mutex'[on].owner = t /\ mutex'[on].count = mutex[on].count + 1
        /\ mutex[on].count \in Nat /\ thrown[on] \in Nat
    BY <1>1, <1>2, <1>5
  <2>2. mutex[on].owner = t \/ mutex[on].owner = NoThread
    BY <1>1, <1>2, <1>5 DEF MayLock, Accounted
  <2>3. \A u \in Thread : u # t => HeldIn(stack'[u], on) = {}
    <3>1. \A u \in Thread : u # mutex[on].owner => HeldIn(stack[u], on) = {}
      BY <1>2, <1>5 DEF Accounted
    <3>2. \A u \in Thread : u # t => u # mutex[on].owner
      BY <2>2, BuffersAssumption
    <3>3. QED
      BY <1>6, <3>1, <3>2
  <2>4. mutex[on].count = thrown[on] + Cardinality(HeldIn(s, on))
    <3> HIDE DEF s
    <3>1. CASE mutex[on].owner = t
      <4>1. mutex[on].count = thrown[on] + Cardinality(HeldIn(stack[mutex[on].owner], on))
        BY <1>2, <1>5, <3>1 DEF Accounted
      <4>2. QED
        BY <3>1, <4>1 DEF s
    <3>2. CASE mutex[on].owner = NoThread
      <4>1. mutex[on].count = 0 /\ thrown[on] = 0
        BY <1>2, <1>5, <3>2 DEF Accounted
      <4>2. t # mutex[on].owner
        BY <3>2, BuffersAssumption
      <4>3. HeldIn(s, on) = {}
        BY <1>2, <1>5, <4>2 DEF Accounted, s
      <4>4. Cardinality(HeldIn(s, on)) = 0
        BY <4>3, FS_EmptySet
      <4>5. QED
        BY <4>1, <4>4
    <3>3. QED
      BY <2>2, <3>1, <3>2
  <2>5. Cardinality(HeldIn(r, on)) = Cardinality(HeldIn(s, on)) + 1 /\ Cardinality(HeldIn(s, on)) \in Nat
    <3>1. IsFiniteSet(HeldIn(s, on)) /\ Cardinality(HeldIn(s, on)) \in Nat
      BY <1>2, HeldInFinite
    <3>2. n \notin HeldIn(s, on) /\ HeldIn(r, on) = HeldIn(s, on) \cup {n}
      BY <1>2, <1>4
    <3> HIDE DEF n, s
    <3>3. Cardinality(HeldIn(s, on) \cup {n}) = Cardinality(HeldIn(s, on)) + 1
      BY <3>1, <3>2, FS_AddElement
    <3>4. QED
      BY <3>1, <3>2, <3>3
  <2>6. mutex'[on].count = thrown'[on] + Cardinality(HeldIn(stack'[t], on))
    BY <1>1, <1>6, <2>1, <2>4, <2>5
  <2>7. t # NoThread /\ mutex'[on].count # 0
    BY <2>1, BuffersAssumption
  <2>8. QED
    BY <2>1, <2>3, <2>6, <2>7 DEF Accounted
<1>9. mutex' \in [Mutexes -> [owner : Thread \cup {NoThread}, count : Nat]]
  <2>1. mutex[on].count \in Nat
    BY <1>2, <1>5
  <2>2. [owner |-> t, count |-> mutex[on].count + 1] \in [owner : Thread \cup {NoThread}, count : Nat]
    BY <2>1
  <2>3. QED
    BY <1>1, <1>5, <2>2
<1>10. \A m \in Mutexes : Accounted(m)'
  BY <1>7, <1>8
<1>11. QED
  BY <1>1, <1>5, <1>9, <1>10 DEF MutexInv

LEMMA MutexInvReturn ==
    ASSUME StackInv, MutexInv, NEW t \in Thread, Return(t)
    PROVE  MutexInv'
<1> PICK on \in Mutexes : on = Top(t).call.on
  BY TopIs DEF Return, At
<1> DEFINE s == stack[t]
           n == Len(s)
           r == Front(s)
<1>1. /\ s # <<>> /\ Top(t).at = "continue" /\ thrown' = thrown
      /\ mutex' = [mutex EXCEPT ![on] = Unlocked(t, on)] /\ stack' = [stack EXCEPT ![t] = r]
  BY DEF Return, At, StackInv
<1>2. s \in Seq(FrameSet) /\ Top(t) = s[n] /\ on \in Mutexes
  BY <1>1, TopIs
<1>3. \A m \in Mutexes : HeldIn(r, m) = IF on = m THEN HeldIn(s, m) \ {n} ELSE HeldIn(s, m)
  BY <1>1, <1>2, HeldInPopped
<1>4. n \in HeldIn(s, on)
  BY <1>1, <1>2, HeldInPopped
<1> HIDE DEF r
<1>5. /\ mutex \in [Mutexes -> [owner : Thread \cup {NoThread}, count : Nat]] /\ thrown \in [Mutexes -> Nat]
      /\ \A m \in Mutexes : Accounted(m) /\ mutex[m].owner \in Thread \cup {NoThread}
  BY DEF MutexInv
<1>6. stack'[t] = r /\ \A u \in Thread : u # t => stack'[u] = stack[u]
  BY <1>1 DEF StackInv
<1>7. \A m \in Mutexes : m # on => Accounted(m)'
  <2> SUFFICES ASSUME NEW m \in Mutexes, m # on PROVE Accounted(m)'
    OBVIOUS
  <2>1. \A u \in Thread : HeldIn(stack'[u], m) = HeldIn(stack[u], m)
    BY <1>3, <1>6
  <2>2. mutex'[m] = mutex[m] /\ thrown'[m] = thrown[m]
    BY <1>1, <1>5
  <2>3. QED
    BY <1>5, <2>1, <2>2, AccountedSame
<1>8. mutex[on].owner = t
  BY <1>2, <1>4, <1>5 DEF Accounted
<1> DEFINE c == mutex[on].count
<1>9. /\ c = thrown[on] + Cardinality(HeldIn(s, on)) /\ c \in Nat /\ thrown[on] \in Nat
      /\ Cardinality(HeldIn(r, on)) = Cardinality(HeldIn(s, on)) - 1
      /\ Cardinality(HeldIn(s, on)) \in Nat /\ Cardinality(HeldIn(r, on)) \in Nat
  <2>1. c = thrown[on] + Cardinality(HeldIn(s, on)) /\ c \in Nat /\ thrown[on] \in Nat
    BY <1>2, <1>5, <1>8 DEF Accounted
  <2>2. IsFiniteSet(HeldIn(s, on)) /\ Cardinality(HeldIn(s, on)) \in Nat
    BY <1>2, HeldInFinite
  <2>3. HeldIn(r, on) = HeldIn(s, on) \ {n}
    BY <1>3
  <2>4. Cardinality(HeldIn(r, on)) = Cardinality(HeldIn(s, on)) - 1
    BY <1>4, <2>2, <2>3, FS_RemoveElement
  <2>5. IsFiniteSet(HeldIn(s, on) \ {n})
    BY <2>2, FS_RemoveElement
  <2>6. Cardinality(HeldIn(r, on)) \in Nat
    BY <2>3, <2>5, FS_CardinalityType
  <2>7. QED
    BY <2>1, <2>2, <2>4, <2>6
<1>10. \A u \in Thread : u # t => HeldIn(stack'[u], on) = {}
  BY <1>2, <1>5, <1>6, <1>8 DEF Accounted
<1>11. Accounted(on)' /\ mutex'[on] \in [owner : Thread \cup {NoThread}, count : Nat]
  <2>1. CASE c = 1
    <3>1. mutex'[on] = [owner |-> NoThread, count |-> 0]
      BY <1>1, <1>2, <1>5, <2>1 DEF Unlocked
    <3>2. thrown[on] = 0 /\ Cardinality(HeldIn(r, on)) = 0
      BY <1>9, <2>1
    <3>3. IsFiniteSet(HeldIn(s, on) \ {n})
      <4>1. IsFiniteSet(HeldIn(s, on))
        BY <1>2, HeldInFinite
      <4>2. QED
        BY <4>1, FS_RemoveElement
    <3>4. IsFiniteSet(HeldIn(r, on))
      BY <1>3, <3>3
    <3>5. HeldIn(r, on) = {}
      BY <3>2, <3>4, FS_EmptySet
    <3>6. \A u \in Thread : HeldIn(stack'[u], on) = {}
      BY <1>6, <1>10, <3>5
    <3>7. thrown'[on] = 0 /\ NoThread \notin Thread
      BY <1>1, <3>2, BuffersAssumption
    <3>8. mutex'[on].owner = NoThread /\ mutex'[on].count = 0
      BY <3>1
    <3>9. Accounted(on)'
      BY <3>6, <3>7, <3>8 DEF Accounted
    <3>10. QED
      BY <3>1, <3>9
  <2>2. CASE c # 1
    <3>1. mutex'[on] = [mutex[on] EXCEPT !.count = c - 1]
      BY <1>1, <1>2, <1>5, <2>2 DEF Unlocked
    <3>2. mutex'[on].owner = t /\ mutex'[on].count = c - 1
      <4>1. mutex[on] \in [owner : Thread \cup {NoThread}, count : Nat]
        BY <1>2, <1>5
      <4>2. mutex'[on].owner = mutex[on].owner /\ mutex'[on].count = c - 1
        BY <3>1, <4>1
      <4>3. QED
        BY <1>8, <4>2
    <3>3. c - 1 \in Nat /\ c - 1 # 0 /\ c - 1 = thrown'[on] + Cardinality(HeldIn(stack'[t], on))
      BY <1>1, <1>6, <1>9, <2>2
    <3>4. mutex'[on] \in [owner : Thread \cup {NoThread}, count : Nat]
      <4>1. mutex[on] \in [owner : Thread \cup {NoThread}, count : Nat]
        BY <1>2, <1>5
      <4>2. QED
        BY <3>1, <3>3, <4>1
    <3>5. t # NoThread
      BY BuffersAssumption
    <3>6. Accounted(on)'
      BY <1>10, <3>2, <3>3, <3>5 DEF Accounted
    <3>7. QED
      BY <3>4, <3>6
  <2>3. QED
    BY <2>1, <2>2
<1>12. mutex' \in [Mutexes -> [owner : Thread \cup {NoThread}, count : Nat]]
  BY <1>1, <1>2, <1>5, <1>11
<1>13. QED
  BY <1>1, <1>5, <1>7, <1>11, <1>12 DEF MutexInv

\* An exception passes every call of the thread, and leaves what they hold to nobody.
LEMMA MutexInvThrows ==
    ASSUME StackInv, MutexInv, NEW t \in Thread, Throws(t)
    PROVE  MutexInv'
<1> DEFINE s == stack[t]
<1>1. /\ s # <<>> /\ Top(t).at = "run" /\ mutex' = mutex /\ stack' = [stack EXCEPT ![t] = <<>>]
      /\ thrown' = [m \in Mutexes |->
                      thrown[m] + Cardinality({i \in DOMAIN s : s[i].call.on = m})]
  BY DEF Throws, Throw, Running, At
<1>2. s \in Seq(FrameSet) /\ Top(t) = s[Len(s)] /\ DOMAIN s = 1..Len(s) /\ Shaped(s) /\ Len(s) \in Nat
  BY <1>1, TopIs DEF StackInv
<1>3. \A i \in 1..Len(s) : s[i].at # "spin"
  BY <1>1, <1>2 DEF Shaped
<1>4. \A m \in Mutexes : {i \in DOMAIN s : s[i].call.on = m} = HeldIn(s, m)
  BY <1>2, <1>3 DEF HeldIn
<1>5. \A m \in Mutexes : thrown'[m] = thrown[m] + Cardinality(HeldIn(s, m))
  BY <1>1, <1>4
<1>6. \A m \in Mutexes : Cardinality(HeldIn(s, m)) \in Nat
  BY <1>2, HeldInFinite
<1>7. /\ mutex \in [Mutexes -> [owner : Thread \cup {NoThread}, count : Nat]] /\ thrown \in [Mutexes -> Nat]
      /\ \A m \in Mutexes : Accounted(m)
  BY DEF MutexInv
<1>8. stack'[t] = <<>> /\ \A u \in Thread : u # t => stack'[u] = stack[u]
  BY <1>1 DEF StackInv
<1>9. thrown' \in [Mutexes -> Nat]
  <2>1. \A m \in Mutexes : thrown[m] + Cardinality(HeldIn(s, m)) \in Nat
    BY <1>6, <1>7
  <2>2. thrown' = [m \in Mutexes |-> thrown[m] + Cardinality(HeldIn(s, m))]
    BY <1>1, <1>4
  <2>3. QED
    BY <2>1, <2>2
<1>10. ASSUME NEW m \in Mutexes PROVE Accounted(m)'
  <2>1. HeldIn(stack'[t], m) = {} /\ \A u \in Thread : u # t => HeldIn(stack'[u], m) = HeldIn(stack[u], m)
    BY <1>8, HeldInEmpty
  <2>2. \A u \in Thread : u # mutex'[m].owner => HeldIn(stack'[u], m) = {}
    BY <1>1, <1>7, <2>1 DEF Accounted
  <2>3. mutex[m].owner # t => thrown'[m] = thrown[m]
    <3> SUFFICES ASSUME mutex[m].owner # t PROVE thrown'[m] = thrown[m]
      OBVIOUS
    <3>1. HeldIn(s, m) = {}
      BY <1>7 DEF Accounted
    <3>2. Cardinality(HeldIn(s, m)) = 0
      BY <3>1, FS_EmptySet
    <3>3. QED
      BY <1>5, <1>7, <3>2
  <2>4. mutex'[m].count = 0 => thrown'[m] = 0
    BY <1>1, <1>7, <2>3, BuffersAssumption DEF Accounted
  <2>5. mutex[m].owner \in Thread =>
          mutex[m].count = thrown'[m] + Cardinality(HeldIn(stack'[mutex[m].owner], m))
    <3>1. CASE mutex[m].owner = t
      <4>1. mutex[m].count = thrown[m] + Cardinality(HeldIn(s, m))
        BY <1>7, <3>1 DEF Accounted
      <4>2. Cardinality(HeldIn(stack'[t], m)) = 0
        BY <2>1, FS_EmptySet
      <4>3. thrown'[m] \in Nat
        BY <1>9
      <4>4. QED
        BY <1>5, <3>1, <4>1, <4>2, <4>3
    <3>2. CASE mutex[m].owner # t
      BY <1>7, <2>1, <2>3, <3>2 DEF Accounted
    <3>3. QED
      BY <3>1, <3>2
  <2>6. QED
    BY <1>1, <1>7, <2>2, <2>4, <2>5 DEF Accounted
<1>11. QED
  BY <1>1, <1>7, <1>9, <1>10 DEF MutexInv

LEMMA MutexInvStep ==
    ASSUME StackInv, MutexInv, StackMoves
    PROVE  MutexInv'
<1>1. CASE UNCHANGED <<stack, mutex, thrown, issued>>
  BY <1>1 DEF MutexInv, Accounted
<1>2. ASSUME NEW t \in Thread, Pushes(t) PROVE MutexInv'
  <2>1. PICK c \in AllCalls : Push(t, c)
    BY <1>2 DEF Pushes
  <2>2. stack[t] \in Seq(FrameSet) /\ stack' = [stack EXCEPT ![t] = Append(stack[t], Opening(c))]
    BY <2>1 DEF Push, Opening, StackInv
  <2>3. Opening(c) \in FrameSet /\ Opening(c).at = "spin"
    BY DEF Opening, FrameSet, Where
  <2>4. \A m \in Mutexes : HeldIn(Append(stack[t], Opening(c)), m) = HeldIn(stack[t], m)
    BY <2>2, <2>3, HeldInPushed
  <2>5. UNCHANGED <<mutex, thrown>>
    BY <1>2 DEF Pushes
  <2>6. QED
    BY <2>2, <2>4, <2>5, MutexInvSame
<1>3. ASSUME NEW t \in Thread, Goes(t) PROVE MutexInv'
  <2> DEFINE f == [call |-> Top(t).call, at |-> "continue"]
             r == [stack[t] EXCEPT ![Len(stack[t])] = f]
  <2>1. /\ stack[t] # <<>> /\ Top(t).at \in {"run", "free"} /\ GoTo(t, "continue")
        /\ UNCHANGED <<mutex, thrown>>
    BY <1>3 DEF Goes
  <2>2. /\ stack[t] \in Seq(FrameSet) /\ Top(t) = stack[t][Len(stack[t])]
        /\ f \in FrameSet /\ f.call.on = Top(t).call.on /\ f.at # "spin"
    BY <2>1, TopIs DEF FrameSet, Where
  <2>3. stack' = [stack EXCEPT ![t] = r]
    BY <2>1, Moved
  <2>4. \A m \in Mutexes : HeldIn(r, m) = HeldIn(stack[t], m)
    BY <2>1, <2>2, HeldInGoing
  <2>5. QED
    BY <2>1, <2>3, <2>4, MutexInvSame
<1>4. ASSUME NEW t \in Thread, DoUnregister(t) PROVE MutexInv'
  <2>1. /\ stack[t] # <<>> /\ Top(t).at = "run" /\ Top(t).call.on = "allocator"
        /\ UNCHANGED <<mutex, thrown>>
    BY <1>4, Unregistered
  <2>2. PICK u \in Use, token \in Tokens : \E r :
          /\ r = [stack[t] EXCEPT ![Len(stack[t])] = Freed(t, u)]
          /\ r \in Seq(FrameSet) /\ Freed(t, u) \in FrameSet
          /\ stack' = [stack EXCEPT ![t] =
                         IF heaps[m_heaps[u]].allocated > 0
                           THEN Append(r, Opening(Clearing(u, token))) ELSE r]
    BY <1>4, Unregistered
  <2> DEFINE r == [stack[t] EXCEPT ![Len(stack[t])] = Freed(t, u)]
             q == IF heaps[m_heaps[u]].allocated > 0 THEN Append(r, Opening(Clearing(u, token))) ELSE r
  <2>3. /\ stack[t] \in Seq(FrameSet) /\ Top(t) = stack[t][Len(stack[t])] /\ Top(t).call \in AllCalls
    BY <2>1, TopIs
  <2>4. Freed(t, u).at # "spin" /\ Freed(t, u).call.on = Top(t).call.on
    BY <2>3, ParamReplaced DEF Freed
  <2>5. \A m \in Mutexes : HeldIn(r, m) = HeldIn(stack[t], m)
    BY <2>1, <2>2, <2>3, <2>4, HeldInGoing
  <2>6. Opening(Clearing(u, token)) \in FrameSet /\ Opening(Clearing(u, token)).at = "spin"
    BY ClearIsCall DEF Opening, FrameSet, Where, Clearing
  <2>7. \A m \in Mutexes : HeldIn(Append(r, Opening(Clearing(u, token))), m) = HeldIn(r, m)
    <3>1. r \in Seq(FrameSet)
      BY <2>2
    <3> HIDE DEF r
    <3>2. QED
      BY <2>6, <3>1, HeldInPushed
  <2>8. stack' = [stack EXCEPT ![t] = q] /\ \A m \in Mutexes : HeldIn(q, m) = HeldIn(stack[t], m)
    <3>1. stack' = [stack EXCEPT ![t] = q]
      BY <2>2
    <3>2. q = r \/ q = Append(r, Opening(Clearing(u, token)))
      OBVIOUS
    <3> HIDE DEF q, r
    <3>3. CASE q = r
      BY <2>5, <3>1, <3>3
    <3>4. CASE q = Append(r, Opening(Clearing(u, token)))
      BY <2>5, <2>7, <3>1, <3>4
    <3>5. QED
      BY <3>2, <3>3, <3>4
  <2> HIDE DEF q, r
  <2>9. \A p : stack' = [stack EXCEPT ![t] = p] /\ (\A m \in Mutexes : HeldIn(p, m) = HeldIn(stack[t], m))
                 => MutexInv'
    BY <2>1, MutexInvSame
  <2>10. QED
    BY <2>8, <2>9
<1>5. CASE \E t \in Thread : TryLock(t) \/ Return(t) \/ Throws(t)
  BY <1>5, MutexInvTryLock, MutexInvReturn, MutexInvThrows
<1>6. QED
  BY <1>1, <1>2, <1>3, <1>4, <1>5 DEF StackMoves

-----------------------------------------------------------------------------
\* The heaps: their owners and what became of their memory.

HeapRec == [use : Use, memory : {"live", "freed", "gone"}, moved : BOOLEAN, allocated : 0..MaxBlocks]

ListedIntact == \A u \in Use : m_heaps[u] # 0 => /\ m_heaps[u] \in 1..Len(heaps)
                                                /\ heaps[m_heaps[u]].memory = "live"
                                                /\ heaps[m_heaps[u]].use = u
HeldStays == \A t \in Thread : \A h \in held[t] : heaps[h].memory # "gone"
FreedByUnregister == \A h \in 1..Len(heaps) : heaps[h].memory = "freed" => unregistered

HeapTyped == /\ m_heaps \in [Use -> HeapIds]
             /\ heaps \in Seq(HeapRec) /\ Len(heaps) <= MaxHeaps
             /\ held \in [Thread -> SUBSET (1..Len(heaps))]
             /\ unregistered \in BOOLEAN /\ fault \in Faults

HeapInv == HeapTyped /\ ListedIntact /\ HeldStays /\ FreedByUnregister /\ FaultsHaveCauses

LEMMA HeapIdsAre ==
    ASSUME HeapTyped
    PROVE  /\ Len(heaps) \in Nat /\ DOMAIN heaps = 1..Len(heaps)
           /\ \A h \in 1..Len(heaps) : h \in HeapIds \ {0} /\ heaps[h] \in HeapRec
           /\ \A t \in Thread : held[t] \subseteq 1..Len(heaps) /\ held[t] \subseteq HeapIds \ {0}
<1>1. heaps \in Seq(HeapRec) /\ Len(heaps) <= MaxHeaps /\ MaxHeaps \in Nat
  BY BuffersAssumption DEF HeapTyped
<1>2. Len(heaps) \in Nat /\ DOMAIN heaps = 1..Len(heaps) /\ \A h \in 1..Len(heaps) : heaps[h] \in HeapRec
  BY <1>1
<1>3. \A h \in 1..Len(heaps) : h \in HeapIds \ {0}
  BY <1>1, <1>2 DEF HeapIds
<1>4. \A t \in Thread : held[t] \subseteq 1..Len(heaps)
  BY DEF HeapTyped
<1>5. QED
  BY <1>2, <1>3, <1>4

\* The last owner of a heap runs ~heap_t; a heap with an owner stays as it is.
LEMMA Settles ==
    ASSUME NEW hs \in Seq(HeapRec), NEW mh, NEW mb, NEW hd, Settle(hs, mh, mb, hd)
    PROVE  /\ m_heaps' = mh /\ m_buffers' = mb /\ held' = hd
           /\ heaps' \in Seq(HeapRec) /\ Len(heaps') = Len(hs)
           /\ \A h \in 1..Len(hs) : /\ heaps'[h].use = hs[h].use /\ heaps'[h].moved = hs[h].moved
                                    /\ heaps'[h].memory \in {hs[h].memory, "gone"}
                                    /\ Referenced(h, mh, mb, hd) => heaps'[h] = hs[h]
           /\ fault' \in {"none", "doubleFree", "badFree"}
           /\ fault' = "doubleFree" => \E h \in 1..Len(hs) : hs[h].memory = "freed"
           /\ fault' = "badFree" => \E h \in 1..Len(hs) : hs[h].moved
<1> DEFINE gone == {h \in DOMAIN hs : hs[h].memory # "gone" /\ ~Referenced(h, mh, mb, hd)}
<1>1. Len(hs) \in Nat /\ DOMAIN hs = 1..Len(hs) /\ \A h \in 1..Len(hs) : hs[h] \in HeapRec
  OBVIOUS
<1>2. gone \subseteq 1..Len(hs) /\ \A h \in gone : ~Referenced(h, mh, mb, hd)
  BY <1>1
<1>3. /\ m_heaps' = mh /\ m_buffers' = mb /\ held' = hd
      /\ heaps' = [h \in DOMAIN hs |-> IF h \in gone THEN [hs[h] EXCEPT !.memory = "gone"] ELSE hs[h]]
      /\ fault' = IF \E h \in gone : hs[h].memory = "freed" THEN "doubleFree"
                  ELSE IF \E h \in gone : hs[h].moved THEN "badFree" ELSE "none"
  BY DEF Settle
<1> HIDE DEF gone
<1>4. \A h \in 1..Len(hs) : /\ [hs[h] EXCEPT !.memory = "gone"] \in HeapRec
                            /\ [hs[h] EXCEPT !.memory = "gone"].use = hs[h].use
                            /\ [hs[h] EXCEPT !.memory = "gone"].moved = hs[h].moved
                            /\ [hs[h] EXCEPT !.memory = "gone"].memory = "gone"
  BY <1>1 DEF HeapRec
<1>5. /\ DOMAIN heaps' = 1..Len(hs)
      /\ \A h \in 1..Len(hs) : heaps'[h] = IF h \in gone THEN [hs[h] EXCEPT !.memory = "gone"] ELSE hs[h]
  BY <1>1, <1>3
<1>6. heaps' \in [1..Len(hs) -> HeapRec]
  BY <1>1, <1>3, <1>4
<1>7. heaps' \in Seq(HeapRec) /\ Len(heaps') = Len(hs)
  BY <1>1, <1>6
<1>8. \A h \in 1..Len(hs) : /\ heaps'[h].use = hs[h].use /\ heaps'[h].moved = hs[h].moved
                            /\ heaps'[h].memory \in {hs[h].memory, "gone"}
                            /\ Referenced(h, mh, mb, hd) => heaps'[h] = hs[h]
  BY <1>2, <1>4, <1>5
<1>9. /\ fault' \in {"none", "doubleFree", "badFree"}
      /\ fault' = "doubleFree" => \E h \in 1..Len(hs) : hs[h].memory = "freed"
      /\ fault' = "badFree" => \E h \in 1..Len(hs) : hs[h].moved
  BY <1>2, <1>3
<1>10. QED
  BY <1>3, <1>7, <1>8, <1>9

\* What a settlement needs of the heaps before it: no listed or held heap is gone.
LEMMA HeapInvSettle ==
    ASSUME NEW hs \in Seq(HeapRec), NEW mh \in [Use -> HeapIds], NEW mb,
           NEW hd \in [Thread -> SUBSET (1..Len(hs))], Len(hs) <= MaxHeaps,
           Settle(hs, mh, mb, hd), unregistered' \in BOOLEAN,
           \A u \in Use : mh[u] # 0 => /\ mh[u] \in 1..Len(hs) /\ hs[mh[u]].memory = "live"
                                       /\ hs[mh[u]].use = u,
           \A t \in Thread : \A h \in hd[t] : hs[h].memory # "gone",
           \A h \in 1..Len(hs) : hs[h].memory = "freed" => unregistered'
    PROVE  HeapInv'
<1>1. /\ m_heaps' = mh /\ held' = hd /\ heaps' \in Seq(HeapRec) /\ Len(heaps') = Len(hs)
      /\ \A h \in 1..Len(hs) : /\ heaps'[h].use = hs[h].use /\ heaps'[h].moved = hs[h].moved
                               /\ heaps'[h].memory \in {hs[h].memory, "gone"}
                               /\ Referenced(h, mh, mb, hd) => heaps'[h] = hs[h]
      /\ fault' \in {"none", "doubleFree", "badFree"}
      /\ fault' = "doubleFree" => \E h \in 1..Len(hs) : hs[h].memory = "freed"
      /\ fault' = "badFree" => \E h \in 1..Len(hs) : hs[h].moved
  BY Settles
<1>2. HeapTyped'
  BY <1>1 DEF HeapTyped, Faults
<1>3. ListedIntact'
  <2>1. \A u \in Use : mh[u] # 0 => Referenced(mh[u], mh, mb, hd)
    BY DEF Referenced, Listed
  <2>2. QED
    BY <1>1, <2>1 DEF ListedIntact
<1>4. HeldStays'
  <2>1. \A t \in Thread : \A h \in hd[t] : h \in 1..Len(hs) /\ Referenced(h, mh, mb, hd)
    BY DEF Referenced
  <2>2. QED
    BY <1>1, <2>1 DEF HeldStays
<1>5. FreedByUnregister'
  BY <1>1 DEF FreedByUnregister
<1>6. DOMAIN heaps' = 1..Len(hs)
  BY <1>1
<1>7. FaultsHaveCauses'
  BY <1>1, <1>6 DEF FaultsHaveCauses
<1>8. QED
  BY <1>2, <1>3, <1>4, <1>5, <1>7 DEF HeapInv

\* The steps that leave the heaps and their owners alone, but perhaps end in no fault.
LEMMA HeapInvSame ==
    ASSUME HeapInv, UNCHANGED <<heapVars, fault>>
    PROVE  HeapInv'
<1>1. m_heaps' = m_heaps /\ heaps' = heaps /\ held' = held /\ unregistered' = unregistered /\ fault' = fault
  BY DEF heapVars
<1>2. QED
  BY <1>1 DEF HeapInv, HeapTyped, ListedIntact, HeldStays, FreedByUnregister, FaultsHaveCauses

LEMMA HeapInvRegister ==
    ASSUME HeapInv, StackInv, NEW t \in Thread, RegisterUse(t)
    PROVE  HeapInv'
<1> DEFINE p == Top(t).call.param
           h == Len(heaps) + 1
<1>1. stack[t] # <<>> /\ Top(t).call.kind = "registerUse" /\ fault = "none"
  BY DEF RegisterUse, Running, At
<1>2. p.use \in Use /\ p.wide \in BOOLEAN
  BY <1>1, TopIs, CallParams
<1>3. CASE Throw(t)
  BY <1>3, HeapInvSame DEF Throw
<1>4. ASSUME ~Throw(t) PROVE HeapInv'
  <2>1. /\ h <= MaxHeaps /\ m_heaps' = Insert(p.use, h)
        /\ held' = [held EXCEPT ![t] = @ \cup {h}]
        /\ unregistered' = unregistered /\ fault' = fault
        /\ \E moved \in {FALSE, p.wide} :
             heaps' = Append(heaps, [use |-> p.use, memory |-> "live", moved |-> moved, allocated |-> 0])
    BY <1>4 DEF RegisterUse
  <2>2. PICK moved \in BOOLEAN :
          heaps' = Append(heaps, [use |-> p.use, memory |-> "live", moved |-> moved, allocated |-> 0])
    <3>1. {FALSE, p.wide} \subseteq BOOLEAN
      BY <1>2
    <3>2. QED
      BY <2>1, <3>1
  <2> DEFINE made == [use |-> p.use, memory |-> "live", moved |-> moved, allocated |-> 0]
  <2>3. 0 \in 0..MaxBlocks
    BY BuffersAssumption
  <2>4. made \in HeapRec /\ made.use = p.use /\ made.memory = "live"
    BY <1>2, <2>3 DEF HeapRec
  <2> HIDE DEF made
  <2>5. /\ heaps \in Seq(HeapRec) /\ Len(heaps) \in Nat /\ heaps' = Append(heaps, made)
        /\ m_heaps \in [Use -> HeapIds] /\ held \in [Thread -> SUBSET (1..Len(heaps))]
    BY <2>2, HeapIdsAre DEF HeapInv, HeapTyped, made
  <2>6. /\ heaps' \in Seq(HeapRec) /\ Len(heaps') = h /\ heaps'[h] = made
        /\ \A k \in 1..Len(heaps) : heaps'[k] = heaps[k]
        /\ DOMAIN heaps' = 1..h /\ DOMAIN heaps = 1..Len(heaps)
    BY <2>4, <2>5
  <2>7. h \in HeapIds \ {0} /\ h \in Nat /\ 1..Len(heaps) \subseteq 1..h /\ h \in 1..h
    BY <2>1, <2>5, BuffersAssumption DEF HeapIds
  <2> HIDE DEF h, p
  <2>8. m_heaps' \in [Use -> HeapIds] /\ held' \in [Thread -> SUBSET (1..h)]
    BY <1>2, <2>1, <2>5, <2>7 DEF Insert
  <2>9. HeapTyped'
    BY <2>1, <2>6, <2>8 DEF HeapInv, HeapTyped
  <2>10. \A u \in Use : m_heaps'[u] = m_heaps[u] \/ (u = p.use /\ m_heaps'[u] = h)
    BY <1>2, <2>1, <2>5 DEF Insert
  <2>11. ListedIntact'
    BY <2>4, <2>6, <2>7, <2>10 DEF HeapInv, ListedIntact
  <2>12. \A u \in Thread : \A k \in held'[u] : k = h \/ (k \in held[u] /\ k \in 1..Len(heaps))
    BY <2>1, <2>5
  <2>13. HeldStays'
    BY <2>4, <2>6, <2>12 DEF HeapInv, HeldStays
  <2>14. \A k \in 1..h : k = h \/ k \in 1..Len(heaps)
    BY <2>5 DEF h
  <2>15. FreedByUnregister'
    BY <2>1, <2>4, <2>6, <2>14 DEF HeapInv, FreedByUnregister
  <2>16. FaultsHaveCauses'
    BY <1>1, <2>1 DEF FaultsHaveCauses
  <2>17. QED
    BY <2>9, <2>11, <2>13, <2>15, <2>16 DEF HeapInv
<1>5. QED
  BY <1>3, <1>4

LEMMA HeapInvGet ==
    ASSUME HeapInv, StackInv, NEW t \in Thread, GetHeap(t)
    PROVE  HeapInv'
<1> DEFINE u == Top(t).call.param.use
           h == m_heaps[u]
<1>1. /\ stack[t] # <<>> /\ Top(t).call.kind = "getHeap"
      /\ held' = [held EXCEPT ![t] = @ \cup ({h} \ {0})]
      /\ m_heaps' = m_heaps /\ heaps' = heaps /\ unregistered' = unregistered /\ fault' = fault
  BY DEF GetHeap, Found, Running, At
<1>2. u \in Use
  BY <1>1, TopIs, CallParams
<1>3. h # 0 => h \in 1..Len(heaps) /\ heaps[h].memory = "live"
  BY <1>2 DEF HeapInv, ListedIntact
<1>4. held \in [Thread -> SUBSET (1..Len(heaps))]
  BY DEF HeapInv, HeapTyped
<1> HIDE DEF h
<1>5. held' \in [Thread -> SUBSET (1..Len(heaps))]
  BY <1>1, <1>3, <1>4
<1>6. \A v \in Thread : \A k \in held'[v] : k \in held[v] \/ (k = h /\ h # 0)
  BY <1>1, <1>4
<1>7. HeapTyped'
  BY <1>1, <1>5 DEF HeapInv, HeapTyped
<1>8. HeldStays'
  BY <1>1, <1>3, <1>6 DEF HeapInv, HeldStays
<1>9. QED
  BY <1>1, <1>7, <1>8 DEF HeapInv, ListedIntact, FreedByUnregister, FaultsHaveCauses

\* ::free(_free) and what follows it.
LEMMA HeapInvFree ==
    ASSUME HeapInv, NEW t \in Thread, DoFree(t), NEW u \in Use, u = Top(t).call.param.use, m_heaps[u] # 0
    PROVE  HeapInv'
<1> PICK h : h = m_heaps[u]
  OBVIOUS
<1> DEFINE after == [heaps EXCEPT ![h].memory = "freed"]
<1>1. /\ h \in 1..Len(heaps) /\ heaps[h].memory = "live" /\ heaps[h].use = u
      /\ heaps \in Seq(HeapRec) /\ Len(heaps) \in Nat /\ Len(heaps) <= MaxHeaps
      /\ DOMAIN heaps = 1..Len(heaps) /\ heaps[h] \in HeapRec
      /\ m_heaps \in [Use -> HeapIds] /\ held \in [Thread -> SUBSET (1..Len(heaps))]
      /\ fault = "none"
  BY HeapIdsAre, Zenon DEF HeapInv, HeapTyped, ListedIntact, DoFree, At
<1>2. /\ [heaps[h] EXCEPT !.memory = "freed"] \in HeapRec
      /\ [heaps[h] EXCEPT !.memory = "freed"].memory = "freed"
      /\ [heaps[h] EXCEPT !.memory = "freed"].moved = heaps[h].moved
  BY <1>1 DEF HeapRec
<1>3. /\ after \in Seq(HeapRec) /\ Len(after) = Len(heaps) /\ DOMAIN after = 1..Len(heaps)
      /\ after[h].memory = "freed" /\ after[h].moved = heaps[h].moved
      /\ \A k \in 1..Len(heaps) : k # h => after[k] = heaps[k]
  <2> DEFINE f == [heaps[h] EXCEPT !.memory = "freed"]
  <2>1. after = [heaps EXCEPT ![h] = f]
    OBVIOUS
  <2>2. f \in HeapRec /\ f.memory = "freed" /\ f.moved = heaps[h].moved
    BY <1>2
  <2> HIDE DEF f, after
  <2>3. after \in Seq(HeapRec) /\ Len(after) = Len(heaps) /\ DOMAIN after = 1..Len(heaps)
    <3>1. heaps \in Seq(HeapRec) /\ h \in 1..Len(heaps) /\ f \in HeapRec
      BY <1>1, <2>2
    <3>2. [heaps EXCEPT ![h] = f] \in Seq(HeapRec) /\ Len([heaps EXCEPT ![h] = f]) = Len(heaps)
      BY <3>1, ExceptSeq
    <3>3. DOMAIN after = DOMAIN heaps
      BY <2>1
    <3>4. QED
      BY <1>1, <2>1, <3>2, <3>3
  <2>4. after[h] = f
    BY <1>1, <2>1
  <2>5. \A k \in 1..Len(heaps) : k # h => after[k] = heaps[k]
    <3>1. \A k \in DOMAIN heaps : k # h => after[k] = heaps[k]
      BY <2>1
    <3>2. QED
      BY <1>1, <3>1
  <2>6. QED
    BY <2>2, <2>3, <2>4, <2>5
<1>4. \/ heaps[h].moved /\ fault' = "badFree" /\ UNCHANGED <<heapVars, m_buffers>>
      \/ unregistered' = TRUE /\ Settle(after, Unlist(u), m_buffers, held)
      \/ /\ unregistered' = TRUE /\ fault' \in {"erasedEntry", "doubleFree"}
         /\ m_heaps' = Unlist(u) /\ heaps' = after /\ held' = held
  BY DEF DoFree
<1> HIDE DEF after
<1>5. /\ Unlist(u) \in [Use -> HeapIds]
      /\ \A v \in Use : Unlist(u)[v] # 0 => v # u /\ Unlist(u)[v] = m_heaps[v]
  <2>1. 0 \in HeapIds
    BY BuffersAssumption DEF HeapIds
  <2>2. QED
    BY <1>1, <2>1 DEF Unlist
<1>6. \A v \in Use : Unlist(u)[v] # 0 => /\ Unlist(u)[v] \in 1..Len(after) /\ Unlist(u)[v] # h
                                          /\ after[Unlist(u)[v]].memory = "live"
                                          /\ after[Unlist(u)[v]].use = v
  <2> SUFFICES ASSUME NEW v \in Use, Unlist(u)[v] # 0
               PROVE  /\ Unlist(u)[v] \in 1..Len(after) /\ Unlist(u)[v] # h
                      /\ after[Unlist(u)[v]].memory = "live" /\ after[Unlist(u)[v]].use = v
    OBVIOUS
  <2> DEFINE k == Unlist(u)[v]
  <2>1. v # u /\ k = m_heaps[v] /\ m_heaps[v] # 0
    BY <1>5
  <2>2. k \in 1..Len(heaps) /\ heaps[k].memory = "live" /\ heaps[k].use = v
    BY <2>1 DEF HeapInv, ListedIntact
  <2> HIDE DEF k
  <2>3. k # h /\ after[k] = heaps[k]
    BY <1>1, <1>3, <2>1, <2>2
  <2>4. k \in 1..Len(after) /\ k # h /\ after[k].memory = "live" /\ after[k].use = v
    BY <1>3, <2>2, <2>3
  <2>5. QED
    BY <2>4 DEF k
<1>7. \A v \in Thread : \A k \in held[v] : after[k].memory # "gone"
  BY <1>1, <1>3 DEF HeapInv, HeldStays
<1>8. CASE heaps[h].moved /\ fault' = "badFree" /\ UNCHANGED <<heapVars, m_buffers>>
  <2>1. m_heaps' = m_heaps /\ heaps' = heaps /\ held' = held /\ unregistered' = unregistered
    BY <1>8 DEF heapVars
  <2>2. HeapTyped'
    BY <1>8, <2>1 DEF HeapInv, HeapTyped, Faults
  <2>3. FaultsHaveCauses'
    BY <1>1, <1>8, <2>1 DEF FaultsHaveCauses
  <2>4. QED
    BY <2>1, <2>2, <2>3 DEF HeapInv, ListedIntact, HeldStays, FreedByUnregister
<1>9. CASE unregistered' = TRUE /\ Settle(after, Unlist(u), m_buffers, held)
  <2>1. held \in [Thread -> SUBSET (1..Len(after))] /\ Len(after) <= MaxHeaps
    BY <1>1, <1>3
  <2>2. unregistered' \in BOOLEAN /\ \A k \in 1..Len(after) : after[k].memory = "freed" => unregistered'
    BY <1>9
  <2>3. \A v \in Use : Unlist(u)[v] # 0 => /\ Unlist(u)[v] \in 1..Len(after)
                                            /\ after[Unlist(u)[v]].memory = "live"
                                            /\ after[Unlist(u)[v]].use = v
    BY <1>6
  <2> DEFINE mh == Unlist(u)
  <2>4. /\ mh \in [Use -> HeapIds] /\ Settle(after, mh, m_buffers, held)
        /\ \A v \in Use : mh[v] # 0 => /\ mh[v] \in 1..Len(after) /\ after[mh[v]].memory = "live"
                                        /\ after[mh[v]].use = v
    BY <1>5, <1>9, <2>3
  <2> HIDE DEF mh
  <2>5. after \in Seq(HeapRec)
    BY <1>3
  <2>6. QED
    BY <1>7, <2>1, <2>2, <2>4, <2>5, HeapInvSettle
<1>10. CASE /\ unregistered' = TRUE /\ fault' \in {"erasedEntry", "doubleFree"}
            /\ m_heaps' = Unlist(u) /\ heaps' = after /\ held' = held
  <2>1. HeapTyped'
    <3>1. unregistered' \in BOOLEAN /\ fault' \in Faults
      BY <1>10 DEF Faults
    <3>2. QED
      BY <1>1, <1>3, <1>5, <1>10, <3>1 DEF HeapTyped
  <2>2. ListedIntact'
    BY <1>6, <1>10 DEF ListedIntact
  <2>3. HeldStays'
    BY <1>7, <1>10 DEF HeldStays
  <2>4. FreedByUnregister' /\ FaultsHaveCauses'
    BY <1>10 DEF FreedByUnregister, FaultsHaveCauses
  <2>5. QED
    BY <2>1, <2>2, <2>3, <2>4 DEF HeapInv
<1>11. QED
  BY <1>4, <1>8, <1>9, <1>10, Zenon

LEMMA HeapInvDrop ==
    ASSUME HeapInv, NEW hd \in [Thread -> SUBSET (1..Len(heaps))], \A t \in Thread : hd[t] \subseteq held[t],
           NEW mb, Settle(heaps, m_heaps, mb, hd), unregistered' = unregistered
    PROVE  HeapInv'
<1>1. /\ heaps \in Seq(HeapRec) /\ Len(heaps) <= MaxHeaps /\ m_heaps \in [Use -> HeapIds]
      /\ unregistered' \in BOOLEAN
      /\ \A h \in 1..Len(heaps) : heaps[h].memory = "freed" => unregistered'
  BY DEF HeapInv, HeapTyped, FreedByUnregister
<1>2. \A u \in Use : m_heaps[u] # 0 => /\ m_heaps[u] \in 1..Len(heaps) /\ heaps[m_heaps[u]].memory = "live"
                                       /\ heaps[m_heaps[u]].use = u
  BY DEF HeapInv, ListedIntact
<1>3. \A t \in Thread : \A h \in hd[t] : heaps[h].memory # "gone"
  BY DEF HeapInv, HeldStays
<1>4. QED
  BY <1>1, <1>2, <1>3, HeapInvSettle

\* alloc() in memory that was freed is the third way to a fault.
LEMMA HeapInvAlloc ==
    ASSUME HeapInv, NEW t \in Thread, NEW h \in 1..Len(heaps), Alloc(t, h)
    PROVE  HeapInv'
<1>1. /\ h \in held[t] /\ heaps[h].allocated < MaxBlocks
      /\ heaps' = [heaps EXCEPT ![h].allocated = @ + 1]
      /\ fault' = IF heaps[h].memory = "live" THEN "none" ELSE "useAfterFree"
      /\ m_heaps' = m_heaps /\ held' = held /\ unregistered' = unregistered
  BY DEF Alloc
<1>2. /\ heaps \in Seq(HeapRec) /\ Len(heaps) \in Nat /\ heaps[h] \in HeapRec /\ DOMAIN heaps = 1..Len(heaps)
  BY HeapIdsAre DEF HeapInv, HeapTyped
<1> DEFINE r == [heaps[h] EXCEPT !.allocated = @ + 1]
<1>3. r \in HeapRec /\ r.use = heaps[h].use /\ r.memory = heaps[h].memory /\ r.moved = heaps[h].moved
  <2>1. heaps[h].allocated + 1 \in 0..MaxBlocks
    BY <1>1, <1>2, BuffersAssumption DEF HeapRec
  <2>2. r = [heaps[h] EXCEPT !.allocated = heaps[h].allocated + 1]
    OBVIOUS
  <2>3. QED
    BY <1>2, <2>1, <2>2 DEF HeapRec
<1>4. heaps' = [heaps EXCEPT ![h] = r]
  BY <1>1
<1> HIDE DEF r
<1>5. /\ heaps' \in Seq(HeapRec) /\ Len(heaps') = Len(heaps) /\ DOMAIN heaps' = 1..Len(heaps)
      /\ \A k \in 1..Len(heaps) : /\ heaps'[k].use = heaps[k].use /\ heaps'[k].memory = heaps[k].memory
                                  /\ heaps'[k].moved = heaps[k].moved
  BY <1>2, <1>3, <1>4
<1>6. HeapTyped'
  BY <1>1, <1>5 DEF HeapInv, HeapTyped, Faults
<1>7. ListedIntact'
  BY <1>1, <1>5 DEF HeapInv, ListedIntact
<1>8. HeldStays'
  BY <1>1, <1>5, HeapIdsAre DEF HeapInv, HeldStays
<1>9. FreedByUnregister'
  BY <1>1, <1>5 DEF HeapInv, FreedByUnregister
<1>10. heaps[h].memory # "live" => unregistered
  BY <1>1, <1>2 DEF HeapInv, HeldStays, FreedByUnregister, HeapRec
<1>11. FaultsHaveCauses'
  BY <1>1, <1>10 DEF FaultsHaveCauses
<1>12. QED
  BY <1>6, <1>7, <1>8, <1>9, <1>11 DEF HeapInv

-----------------------------------------------------------------------------
\* A call that frees a heap finds it listed.

FreeInv == \A t \in Thread : \A k \in 1..Len(stack[t]) :
             stack[t][k].at = "free" => m_heaps[stack[t][k].call.param.use] # 0

\* The calls that free after a step did so before it, but for the one that comes to it.
LEMMA FreesAreListed ==
    ASSUME StackInv, FreeInv, StackMoves
    PROVE  \A t \in Thread : \A k \in 1..Len(stack'[t]) :
             stack'[t][k].at = "free" => m_heaps[stack'[t][k].call.param.use] # 0
<1> DEFINE Fine(s) == \A k \in 1..Len(s) : s[k].at = "free" => m_heaps[s[k].call.param.use] # 0
<1>0. stack \in [Thread -> Seq(FrameSet)] /\ \A t \in Thread : Fine(stack[t])
  BY DEF StackInv, FreeInv
<1>1. CASE stack' = stack
  BY <1>1 DEF FreeInv
<1>2. \A t \in Thread : \A r : stack' = [stack EXCEPT ![t] = r] /\ Fine(r) => \A u \in Thread : Fine(stack'[u])
  BY <1>0
<1>3. ASSUME NEW t \in Thread, Pushes(t) PROVE \E r : stack' = [stack EXCEPT ![t] = r] /\ Fine(r)
  <2>1. PICK c \in AllCalls : Push(t, c)
    BY <1>3 DEF Pushes
  <2> DEFINE r == Append(stack[t], Opening(c))
  <2>2. stack[t] \in Seq(FrameSet) /\ stack' = [stack EXCEPT ![t] = r]
    BY <2>1 DEF Push, Opening, StackInv
  <2>3. Opening(c) \in FrameSet /\ Opening(c).at = "spin"
    BY DEF Opening, FrameSet, Where
  <2>4. /\ Len(r) = Len(stack[t]) + 1 /\ Len(stack[t]) \in Nat
        /\ \A k \in 1..Len(stack[t]) : r[k] = stack[t][k]
        /\ r[Len(stack[t]) + 1] = Opening(c)
    BY <2>2, <2>3, Pushed
  <2>5. Fine(stack[t])
    BY <1>0
  <2> HIDE DEF r
  <2>6. Fine(r)
    BY <2>3, <2>4, <2>5
  <2>7. QED
    BY <2>2, <2>6
<1>4. ASSUME NEW t \in Thread, NEW where \in {"run", "continue"}, stack[t] # <<>>, GoTo(t, where)
      PROVE  \E r : stack' = [stack EXCEPT ![t] = r] /\ Fine(r)
  <2> DEFINE r == [stack[t] EXCEPT ![Len(stack[t])] = [call |-> Top(t).call, at |-> where]]
  <2>1. /\ stack' = [stack EXCEPT ![t] = r] /\ Len(r) = Len(stack[t])
        /\ \A k \in 1..Len(r) - 1 : r[k] = stack[t][k]
        /\ r[Len(r)].at # "free" /\ Len(stack[t]) \in Nat
    <3>1. /\ stack' = [stack EXCEPT ![t] = r] /\ Len(r) = Len(stack[t])
          /\ \A k \in 1..Len(r) - 1 : r[k] = stack[t][k]
          /\ r[Len(r)] = [call |-> Top(t).call, at |-> where]
      BY <1>4, Moved
    <3>2. Len(stack[t]) \in Nat
      BY <1>4, TopIs
    <3>3. r[Len(r)].at # "free"
      BY <1>4, <3>1
    <3>4. QED
      BY <3>1, <3>2, <3>3
  <2>2. Fine(stack[t])
    BY <1>0
  <2> HIDE DEF r
  <2>3. Fine(r)
    BY <2>1, <2>2
  <2>4. QED
    BY <2>1, <2>3
<1>5. ASSUME NEW t \in Thread, Return(t) PROVE \E r : stack' = [stack EXCEPT ![t] = r] /\ Fine(r)
  <2> DEFINE r == Front(stack[t])
  <2>1. stack[t] # <<>> /\ stack' = [stack EXCEPT ![t] = r] /\ stack[t] \in Seq(FrameSet)
    BY <1>5 DEF Return, At, StackInv
  <2>2. Len(r) = Len(stack[t]) - 1 /\ Len(stack[t]) \in Nat /\ \A k \in 1..Len(stack[t]) - 1 : r[k] = stack[t][k]
    BY <2>1, Popped
  <2>3. Fine(stack[t])
    BY <1>0
  <2> HIDE DEF r
  <2>4. Fine(r)
    BY <2>2, <2>3
  <2>5. QED
    BY <2>1, <2>4
<1>6. ASSUME NEW t \in Thread, Throws(t) PROVE \E r : stack' = [stack EXCEPT ![t] = r] /\ Fine(r)
  <2>1. stack' = [stack EXCEPT ![t] = <<>>] /\ Fine(<<>>)
    BY <1>6 DEF Throws, Throw
  <2>2. QED
    BY <2>1
<1>7. ASSUME NEW t \in Thread, DoUnregister(t) PROVE \E r : stack' = [stack EXCEPT ![t] = r] /\ Fine(r)
  <2>0. stack[t] # <<>>
    BY <1>7, Unregistered
  <2>1. PICK u \in Use, token \in Tokens :
          LET q == [stack[t] EXCEPT ![Len(stack[t])] = Freed(t, u)]
          IN  /\ m_heaps[u] # 0 /\ q \in Seq(FrameSet) /\ Len(q) = Len(stack[t])
              /\ \A k \in 1..Len(q) - 1 : q[k] = stack[t][k]
              /\ q[Len(q)] = Freed(t, u)
              /\ stack' = [stack EXCEPT ![t] = IF heaps[m_heaps[u]].allocated > 0
                                                 THEN Append(q, Opening(Clearing(u, token))) ELSE q]
    BY <1>7, Unregistered
  <2> DEFINE q == [stack[t] EXCEPT ![Len(stack[t])] = Freed(t, u)]
  <2>2. /\ m_heaps[u] # 0 /\ q \in Seq(FrameSet) /\ Len(q) = Len(stack[t])
        /\ \A k \in 1..Len(q) - 1 : q[k] = stack[t][k]
        /\ q[Len(q)] = Freed(t, u)
        /\ stack' = [stack EXCEPT ![t] = IF heaps[m_heaps[u]].allocated > 0
                                           THEN Append(q, Opening(Clearing(u, token))) ELSE q]
    BY <2>1
  <2> HIDE DEF q
  <2>3. Freed(t, u).call.param.use = u
    <3>1. Top(t).call \in AllCalls
      BY <2>0, TopIs
    <3>2. QED
      BY <3>1, ParamReplaced DEF Freed
  <2>4. Len(q) \in Nat /\ Fine(stack[t])
    <3> HIDE DEF Fine
    <3>1. QED
      BY <1>0, <2>2
  <2>5. Fine(q)
    BY <2>2, <2>3, <2>4
  <2>6. Opening(Clearing(u, token)) \in FrameSet /\ Opening(Clearing(u, token)).at = "spin"
    BY ClearIsCall DEF Opening, FrameSet, Where, Clearing
  <2> DEFINE a == Append(q, Opening(Clearing(u, token)))
  <2>7. Len(a) = Len(q) + 1 /\ a[Len(q) + 1].at = "spin" /\ \A k \in 1..Len(q) : a[k] = q[k]
    BY <2>2, <2>6, Pushed
  <2> HIDE DEF a
  <2>8. Fine(a)
    BY <2>4, <2>5, <2>7
  <2>9. stack' = [stack EXCEPT ![t] = a] \/ stack' = [stack EXCEPT ![t] = q]
    BY <2>2 DEF a
  <2>10. QED
    BY <2>5, <2>8, <2>9
<1>8. ASSUME NEW t \in Thread, Goes(t) \/ TryLock(t) PROVE \E r : stack' = [stack EXCEPT ![t] = r] /\ Fine(r)
  <2>1. stack[t] # <<>> /\ (GoTo(t, "continue") \/ GoTo(t, "run"))
    BY <1>8 DEF Goes, TryLock, At
  <2>2. QED
    BY <1>4, <2>1
<1>9. stack' = stack \/ \E t \in Thread : \E r : stack' = [stack EXCEPT ![t] = r] /\ Fine(r)
  BY <1>3, <1>5, <1>6, <1>7, <1>8 DEF StackMoves
<1>10. QED
  BY <1>1, <1>2, <1>9

\* The thread that frees a heap owns the allocator's mutex: it has no other call that does, and no
\* other thread has one.
LEMMA FreesOne ==
    ASSUME StackInv, MutexInv, FreeInv, NEW t \in Thread, DoFree(t)
    PROVE  /\ Top(t).call.param.use \in Use /\ m_heaps[Top(t).call.param.use] # 0
           /\ \A u \in Thread : \A k \in 1..Len(stack'[u]) : stack'[u][k].at # "free"
<1> DEFINE n == Len(stack[t])
<1>1. stack[t] # <<>> /\ Top(t).at = "free" /\ GoTo(t, "continue")
  BY DEF DoFree, At
<1>2. /\ n \in Nat \ {0} /\ Top(t) = stack[t][n] /\ stack[t] \in Seq(FrameSet) /\ Shaped(stack[t])
      /\ Top(t).call \in AllCalls
  BY <1>1, TopIs DEF StackInv
<1>3. Top(t).call.param.use \in Use /\ Top(t).call.kind \in UnregisterKinds
  BY <1>1, <1>2 DEF Shaped
<1>4. m_heaps[Top(t).call.param.use] # 0
  BY <1>1, <1>2 DEF FreeInv
<1>5. mutex["allocator"].owner = t
  <2>1. Top(t).call.on = "allocator"
    BY <1>2, <1>3, CallParams
  <2>2. QED
    BY <1>1, <2>1, TopOwns
<1>6. ASSUME NEW u \in Thread, u # t, NEW k \in 1..Len(stack[u]), stack[u][k].at = "free" PROVE FALSE
  <2>1. stack[u] \in Seq(FrameSet) /\ Shaped(stack[u])
    BY DEF StackInv
  <2>2. stack[u][k].call \in AllCalls
    <3>1. stack[u][k] \in FrameSet
      BY <2>1
    <3>2. QED
      BY <3>1 DEF FrameSet
  <2>3. stack[u][k].call.on = "allocator"
    BY <1>6, <2>1, <2>2, CallParams DEF Shaped
  <2>4. k \in HeldIn(stack[u], "allocator")
    BY <1>6, <2>3 DEF HeldIn
  <2>5. QED
    BY <1>5, <1>6, <2>4 DEF MutexInv, Accounted, Mutexes
<1> DEFINE r == [stack[t] EXCEPT ![n] = [call |-> Top(t).call, at |-> "continue"]]
<1>7. /\ stack' = [stack EXCEPT ![t] = r] /\ Len(r) = n
      /\ \A k \in 1..Len(r) - 1 : r[k] = stack[t][k]
      /\ r[Len(r)] = [call |-> Top(t).call, at |-> "continue"]
  BY <1>1, Moved
<1>8. \A k \in 1..n - 1 : stack[t][k].at # "free"
  BY <1>1, <1>2 DEF Shaped
<1> HIDE DEF r
<1>9. \A k \in 1..n : r[k].at # "free"
  BY <1>2, <1>7, <1>8
<1>10. stack'[t] = r /\ \A u \in Thread : u # t => stack'[u] = stack[u]
  BY <1>7 DEF StackInv
<1>11. \A u \in Thread : \A k \in 1..Len(stack'[u]) : stack'[u][k].at # "free"
  BY <1>6, <1>7, <1>9, <1>10
<1>12. QED
  BY <1>3, <1>4, <1>11

-----------------------------------------------------------------------------
\* The cache.

BufferRec == [ident : Idents, heap : HeapIds \ {0}]
SubscriptionRec == [filter : BaseFilters, acceptor : Acceptor]
CacheInv == /\ m_buffers \in Seq(BufferRec) /\ m_subscriptions \in Seq(SubscriptionRec)
            /\ accepted \subseteq Acceptor

\* The entries that there are stay where they are, and no Acceptor is called.
CacheKeeps == /\ \A k \in DOMAIN m_buffers : k \in DOMAIN m_buffers' /\ m_buffers'[k] = m_buffers[k]
              /\ accepted' = accepted

LEMMA CacheSame ==
    ASSUME CacheInv, m_buffers' = m_buffers, m_subscriptions' = m_subscriptions, accepted' = accepted
    PROVE  CacheInv' /\ CacheKeeps
BY DEF CacheInv, CacheKeeps

\* buffer_cache.cpp:91 and :161: no subscription's filter matches the buffer.
LEMMA NoReceivers ==
    ASSUME CacheInv, NEW i
    PROVE  Receivers(i) = {}
<1>1. \A l \in DOMAIN m_subscriptions : m_subscriptions[l].filter.kind = "base"
  <2>1. \A l \in DOMAIN m_subscriptions : m_subscriptions[l] \in SubscriptionRec
    BY DEF CacheInv
  <2>2. QED
    BY <2>1, BaseFiltersAreBase DEF SubscriptionRec
<1>2. \A l \in DOMAIN m_subscriptions : ~Matches(m_subscriptions[l].filter, i)
  BY <1>1, BaseMatchesNothing
<1>3. QED
  BY <1>2 DEF Receivers

LEMMA CacheInvStep ==
    ASSUME CacheInv, StackInv, [Next]_vars
    PROVE  CacheInv' /\ CacheKeeps
<1>1. CASE UNCHANGED vars
  BY <1>1, CacheSame DEF vars
<1>2. ASSUME NEW t \in Thread, Begin(t) \/ Continue(t) PROVE CacheInv' /\ CacheKeeps
  BY <1>2, CacheSame DEF Begin, Continue, cacheVars
<1>3. ASSUME NEW t \in Thread, NEW h \in DOMAIN heaps, Drop(t, h) \/ Alloc(t, h)
      PROVE  CacheInv' /\ CacheKeeps
  BY <1>3, CacheSame DEF Drop, Alloc, Settle, cacheVars
<1>4. ASSUME NEW t \in Thread, InCall(t) PROVE CacheInv' /\ CacheKeeps
  <2>1. CASE TryLock(t) \/ Return(t) \/ RegisterUse(t) \/ GetHeap(t)
    BY <2>1, CacheSame DEF TryLock, Return, RegisterUse, Throw, GetHeap, cacheVars
  <2>2. CASE \/ AllocatorStatus(t) \/ CacheStatus(t) \/ FindRelevant(t)
             \/ UnregisterNothing(t) \/ DoUnregister(t)
    BY <2>2, CacheSame DEF AllocatorStatus, CacheStatus, FindRelevant, Reports, UnregisterNothing,
                           DoUnregister, cacheVars
  <2>3. CASE DoFree(t)
    BY <2>3, CacheSame, Zenon DEF DoFree, Settle
  <2>4. CASE AddAllocated(t)
    <3> DEFINE p == Top(t).call.param
    <3>1. /\ stack[t] # <<>> /\ Top(t).call.kind = "addAllocated"
          /\ m_buffers' = Append(m_buffers, p) /\ m_subscriptions' = m_subscriptions
      BY <2>4 DEF AddAllocated, Running, At
    <3>2. p \in BufferRec
      BY <3>1, TopIs, CallParams DEF BufferRec
    <3> DEFINE blocks == 1..heaps[p.heap].allocated
    <3>3. accepted' = accepted
      <4>1. PICK ident \in [blocks -> Idents] :
              accepted' = accepted \cup UNION {Receivers(ident[k]) : k \in blocks}
        BY <2>4 DEF AddAllocated
      <4> HIDE DEF blocks
      <4>2. \A k \in blocks : Receivers(ident[k]) = {}
        BY NoReceivers
      <4>3. UNION {Receivers(ident[k]) : k \in blocks} = {}
        BY <4>2, Zenon
      <4>4. QED
        BY <4>1, <4>3
    <3> HIDE DEF p, blocks
    <3>4. m_buffers \in Seq(BufferRec)
      BY DEF CacheInv
    <3>5. /\ m_buffers' \in Seq(BufferRec)
          /\ \A k \in DOMAIN m_buffers : k \in DOMAIN m_buffers' /\ m_buffers'[k] = m_buffers[k]
      BY <3>1, <3>2, <3>4
    <3>6. QED
      BY <3>1, <3>3, <3>5 DEF CacheInv, CacheKeeps
  <2>5. CASE ClearAllocated(t)
    <3> DEFINE f == Top(t).call.param.filter
               pairs == {b \in ToSet(m_buffers) : Matches(f, b.ident)}
               kept == {b \in ToSet(m_buffers) :
                          ~\E c \in pairs : c.heap = b.heap /\ IdentEquals(c.ident, b.ident)}
    <3>1. /\ stack[t] # <<>> /\ Top(t).call.kind = "clearAllocated"
          /\ m_buffers' = ElementsIn(m_buffers, kept)
          /\ m_subscriptions' = m_subscriptions /\ accepted' = accepted
      BY <2>5 DEF ClearAllocated, Running, At, Settle
    <3>2. f.kind = "base"
      BY <3>1, TopIs, CallParams, BaseFiltersAreBase
    <3>3. kept = ToSet(m_buffers)
      BY <3>2, BaseMatchesNothing
    <3>4. m_buffers \in Seq(BufferRec) /\ \A i \in 1..Len(m_buffers) : m_buffers[i] \in ToSet(m_buffers)
      BY DEF CacheInv, ToSet
    <3> HIDE DEF kept
    <3>5. ElementsIn(m_buffers, kept) = m_buffers
      BY <3>3, <3>4, ElementsInKeeps
    <3>6. QED
      BY <3>1, <3>5, CacheSame
  <2>6. CASE Subscribe(t)
    <3>1. /\ stack[t] # <<>> /\ Top(t).call.kind = "subscribe"
          /\ m_subscriptions' = Append(m_subscriptions, Top(t).call.param)
          /\ m_buffers' = m_buffers /\ accepted' = accepted
      BY <2>6 DEF Subscribe, Running, At
    <3>2. Top(t).call.param \in SubscriptionRec
      BY <3>1, TopIs, CallParams DEF SubscriptionRec
    <3>3. m_subscriptions' \in Seq(SubscriptionRec)
      BY <3>1, <3>2 DEF CacheInv
    <3>4. QED
      BY <3>1, <3>3 DEF CacheInv, CacheKeeps
  <2>7. CASE Unsubscribe(t)
    <3> DEFINE kept == {s \in ToSet(m_subscriptions) : s.acceptor # Top(t).call.param.acceptor}
    <3>1. /\ m_subscriptions' = ElementsIn(m_subscriptions, kept)
          /\ m_buffers' = m_buffers /\ accepted' = accepted
      BY <2>7 DEF Unsubscribe
    <3> HIDE DEF kept
    <3>2. m_subscriptions' \in Seq(SubscriptionRec)
      BY <3>1, ElementsInKeeps DEF CacheInv
    <3>3. QED
      BY <3>1, <3>2 DEF CacheInv, CacheKeeps
  <2>8. CASE Publish(t)
    <3>1. /\ m_buffers' = m_buffers /\ m_subscriptions' = m_subscriptions
          /\ accepted' = accepted \cup Receivers(Top(t).call.param.ident)
      BY <2>8 DEF Publish
    <3>2. accepted' = accepted
      BY <3>1, NoReceivers
    <3>3. QED
      BY <3>1, <3>2, CacheSame
  <2>9. QED
    BY <1>4, <2>1, <2>2, <2>3, <2>4, <2>5, <2>6, <2>7, <2>8 DEF InCall
<1>5. QED
  BY <1>1, <1>2, <1>3, <1>4 DEF Next

-----------------------------------------------------------------------------
\* How far the mutexes can count.

SpinsIn(s) == s # <<>> /\ Last(s).at = "spin" /\ Last(s).call.on = "allocator"
Spinning == {t \in Thread : SpinsIn(stack[t])}

\* Every call inside the allocator's mutex, or left by an exception, and every one that waits for it
\* was begun by a client; the cache's mutex is not recursive.
IssueInv == /\ issued \in 0..MaxCalls
            /\ \A t \in Thread : stack[t] # <<>> => issued >= 1
            /\ \A m \in Mutexes : mutex[m].count > 0 => issued >= 1
            /\ mutex["cache"].count <= 1
            /\ IsFiniteSet(Spinning)
            /\ mutex["allocator"].count + Cardinality(Spinning) <= issued

LEMMA SpinningStep ==
    ASSUME StackInv, NEW t \in Thread, NEW r, stack' = [stack EXCEPT ![t] = r]
    PROVE  Spinning' = IF SpinsIn(r) THEN Spinning \cup {t} ELSE Spinning \ {t}
<1>1. stack'[t] = r /\ \A u \in Thread : u # t => stack'[u] = stack[u]
  BY DEF StackInv
<1>2. Spinning' = {u \in Thread : SpinsIn(stack'[u])}
  BY DEF Spinning, SpinsIn
<1>3. QED
  BY <1>1, <1>2 DEF Spinning

LEMMA SpinningCard ==
    ASSUME IssueInv, NEW t
    PROVE  /\ Cardinality(Spinning) \in Nat
           /\ IsFiniteSet(Spinning \cup {t}) /\ Cardinality(Spinning \cup {t}) <= Cardinality(Spinning) + 1
           /\ IsFiniteSet(Spinning \ {t}) /\ Cardinality(Spinning \ {t}) <= Cardinality(Spinning)
           /\ t \in Spinning => Cardinality(Spinning \ {t}) = Cardinality(Spinning) - 1
<1>1. IsFiniteSet(Spinning)
  BY DEF IssueInv
<1>2. Cardinality(Spinning) \in Nat
  BY <1>1, FS_CardinalityType
<1>3. /\ IsFiniteSet(Spinning \cup {t})
      /\ Cardinality(Spinning \cup {t}) = IF t \in Spinning THEN Cardinality(Spinning)
                                                           ELSE Cardinality(Spinning) + 1
  BY <1>1, FS_AddElement
<1>4. /\ IsFiniteSet(Spinning \ {t})
      /\ Cardinality(Spinning \ {t}) = IF t \in Spinning THEN Cardinality(Spinning) - 1
                                                        ELSE Cardinality(Spinning)
  BY <1>1, FS_RemoveElement
<1>5. QED
  BY <1>2, <1>3, <1>4

\* A step of t that leaves t outside the spin, and no mutex higher.
LEMMA IssueInvLower ==
    ASSUME StackInv, MutexInv, IssueInv, NEW t \in Thread, NEW r, stack' = [stack EXCEPT ![t] = r],
           stack[t] # <<>>, ~SpinsIn(r), issued' = issued,
           \A m \in Mutexes : mutex'[m].count \in Nat /\ mutex'[m].count <= mutex[m].count
    PROVE  IssueInv'
<1>1. Spinning' = Spinning \ {t}
  BY SpinningStep
<1>2. /\ Cardinality(Spinning) \in Nat /\ IsFiniteSet(Spinning \ {t})
      /\ Cardinality(Spinning \ {t}) <= Cardinality(Spinning)
  BY SpinningCard
<1>3. Cardinality(Spinning \ {t}) \in Nat
  BY <1>2, FS_CardinalityType
<1>4. /\ issued \in 0..MaxCalls /\ issued >= 1 /\ mutex["cache"].count <= 1
      /\ mutex["allocator"].count + Cardinality(Spinning) <= issued
  BY DEF IssueInv
<1>5. "cache" \in Mutexes /\ "allocator" \in Mutexes /\ \A m \in Mutexes : mutex[m].count \in Nat
  BY DEF Mutexes, MutexInv
<1>6. mutex'["cache"].count <= 1
  BY <1>4, <1>5
<1>7. mutex'["allocator"].count + Cardinality(Spinning \ {t}) <= issued
  BY <1>2, <1>3, <1>4, <1>5, BuffersAssumption
<1>8. IsFiniteSet(Spinning')
  BY <1>1, <1>2
<1>9. mutex'["allocator"].count + Cardinality(Spinning') <= issued'
  BY <1>1, <1>7
<1>10. QED
  BY <1>4, <1>6, <1>8, <1>9 DEF IssueInv

LEMMA IssueInvStep ==
    ASSUME StackInv, MutexInv, IssueInv, StackMoves
    PROVE  IssueInv'
<1>0. /\ issued \in 0..MaxCalls /\ mutex["cache"].count <= 1 /\ MaxCalls \in Nat
      /\ mutex["allocator"].count + Cardinality(Spinning) <= issued
      /\ "cache" \in Mutexes /\ "allocator" \in Mutexes /\ "cache" # "allocator"
      /\ mutex \in [Mutexes -> [owner : Thread \cup {NoThread}, count : Nat]]
      /\ Cardinality(Spinning) \in Nat
  BY SpinningCard, BuffersAssumption DEF IssueInv, Mutexes, MutexInv
<1>1. CASE UNCHANGED <<stack, mutex, thrown, issued>>
  <2>1. stack' = stack /\ mutex' = mutex /\ issued' = issued
    BY <1>1
  <2>2. Spinning' = Spinning
    BY <2>1 DEF Spinning, SpinsIn
  <2>3. QED
    BY <2>1, <2>2 DEF IssueInv
<1>2. ASSUME NEW t \in Thread, Pushes(t) PROVE IssueInv'
  <2>1. PICK c \in AllCalls : Push(t, c)
    BY <1>2 DEF Pushes
  <2> DEFINE r == Append(stack[t], Opening(c))
  <2>2. stack' = [stack EXCEPT ![t] = r] /\ issued < MaxCalls /\ issued' = issued + 1 /\ mutex' = mutex
    BY <1>2, <2>1 DEF Push, Opening, StackInv, Pushes
  <2> HIDE DEF r
  <2>3. Spinning' = Spinning \cup {t} \/ Spinning' = Spinning \ {t}
    BY <2>2, SpinningStep
  <2>4. IsFiniteSet(Spinning') /\ Cardinality(Spinning') <= Cardinality(Spinning) + 1
    <3>1. CASE Spinning' = Spinning \cup {t}
      BY <3>1, SpinningCard
    <3>2. CASE Spinning' = Spinning \ {t}
      <4>1. /\ Cardinality(Spinning) \in Nat /\ IsFiniteSet(Spinning \ {t})
            /\ Cardinality(Spinning \ {t}) <= Cardinality(Spinning)
        BY SpinningCard
      <4>2. Cardinality(Spinning \ {t}) \in Nat
        BY <4>1, FS_CardinalityType
      <4>3. QED
        BY <3>2, <4>1, <4>2
    <3>3. QED
      BY <2>3, <3>1, <3>2
  <2>5. Cardinality(Spinning') \in Nat
    BY <2>4, FS_CardinalityType
  <2>6. issued' \in 0..MaxCalls /\ issued' >= 1
    BY <1>0, <2>2
  <2>7. mutex'["allocator"].count + Cardinality(Spinning') <= issued'
    BY <1>0, <2>2, <2>4, <2>5
  <2>8. QED
    BY <1>0, <2>2, <2>4, <2>6, <2>7 DEF IssueInv
<1>3. ASSUME NEW t \in Thread, Goes(t) PROVE IssueInv'
  <2> DEFINE r == [stack[t] EXCEPT ![Len(stack[t])] = [call |-> Top(t).call, at |-> "continue"]]
  <2>1. stack[t] # <<>> /\ GoTo(t, "continue") /\ issued' = issued /\ mutex' = mutex
    BY <1>3 DEF Goes
  <2>2. stack' = [stack EXCEPT ![t] = r] /\ r[Len(r)] = [call |-> Top(t).call, at |-> "continue"]
    BY <2>1, Moved
  <2> HIDE DEF r
  <2>3. ~SpinsIn(r)
    BY <2>2 DEF SpinsIn, Last
  <2>4. \A m \in Mutexes : mutex'[m].count \in Nat /\ mutex'[m].count <= mutex[m].count
    BY <1>0, <2>1
  <2>5. QED
    BY <2>1, <2>2, <2>3, <2>4, IssueInvLower
<1>4. ASSUME NEW t \in Thread, TryLock(t) PROVE IssueInv'
  <2> DEFINE r == [stack[t] EXCEPT ![Len(stack[t])] = [call |-> Top(t).call, at |-> "run"]]
             on == Top(t).call.on
  <2>1. /\ stack[t] # <<>> /\ Top(t).at = "spin" /\ MayLock(t, on) /\ GoTo(t, "run") /\ issued' = issued
        /\ mutex' = [mutex EXCEPT ![on] = [owner |-> t, count |-> mutex[on].count + 1]]
    BY <1>4 DEF TryLock, At
  <2>2. stack' = [stack EXCEPT ![t] = r] /\ r[Len(r)] = [call |-> Top(t).call, at |-> "run"]
    BY <2>1, Moved
  <2> HIDE DEF r
  <2>3. ~SpinsIn(r)
    BY <2>2 DEF SpinsIn, Last
  <2>4. Spinning' = Spinning \ {t}
    BY <2>2, <2>3, SpinningStep
  <2>5. IsFiniteSet(Spinning') /\ Cardinality(Spinning') <= Cardinality(Spinning)
        /\ (t \in Spinning => Cardinality(Spinning') = Cardinality(Spinning) - 1)
    BY <2>4, SpinningCard
  <2>6. issued >= 1
    BY <2>1 DEF IssueInv
  <2>7. on \in Mutexes
    BY <2>1, TopIs
  <2>8. CASE on = "allocator"
    <3>1. t \in Spinning
      BY <2>1, <2>8 DEF Spinning, SpinsIn, Top
    <3>2. /\ mutex'["allocator"].count = mutex["allocator"].count + 1
          /\ mutex'["cache"] = mutex["cache"]
      BY <1>0, <2>1, <2>8
    <3>3. mutex'["allocator"].count + Cardinality(Spinning') <= issued
      BY <1>0, <2>5, <3>1, <3>2
    <3>4. QED
      BY <1>0, <2>1, <2>5, <2>6, <3>2, <3>3 DEF IssueInv
  <2>9. CASE on = "cache"
    <3>1. mutex'["cache"].count = mutex["cache"].count + 1 /\ mutex["cache"].count = 0
          /\ mutex'["allocator"] = mutex["allocator"]
      BY <1>0, <2>1, <2>9 DEF MayLock
    <3>2. Cardinality(Spinning') \in Nat
      BY <2>5, FS_CardinalityType
    <3>3. mutex'["allocator"].count + Cardinality(Spinning') <= issued
      BY <1>0, <2>5, <3>1, <3>2
    <3>4. mutex'["cache"].count <= 1
      BY <3>1
    <3>5. QED
      BY <1>0, <2>1, <2>5, <2>6, <3>3, <3>4 DEF IssueInv
  <2>10. QED
    BY <2>7, <2>8, <2>9 DEF Mutexes
<1>5. ASSUME NEW t \in Thread, Return(t) PROVE IssueInv'
  <2> DEFINE r == Front(stack[t])
  <2>1. /\ stack[t] # <<>> /\ stack' = [stack EXCEPT ![t] = r] /\ issued' = issued
        /\ mutex' = [mutex EXCEPT ![Top(t).call.on] = Unlocked(t, Top(t).call.on)]
    BY <1>5 DEF Return, At, StackInv
  <2>2. Len(r) = Len(stack[t]) - 1 /\ \A k \in 1..Len(stack[t]) - 1 : r[k] = stack[t][k]
    BY <2>1, TopIs, Popped
  <2>3. stack[t] \in Seq(FrameSet) /\ Shaped(stack[t]) /\ r \in Seq(FrameSet) /\ Len(stack[t]) \in Nat
    BY <2>1, TopIs, Popped DEF StackInv
  <2> HIDE DEF r
  <2>4. ~SpinsIn(r)
    <3> SUFFICES ASSUME r # <<>> PROVE r[Len(r)].at # "spin"
      BY DEF SpinsIn, Last
    <3>1. Len(r) \in 1..Len(stack[t]) - 1
      BY <2>2, <2>3
    <3>2. QED
      BY <2>2, <2>3, <3>1 DEF Shaped
  <2>5. MutexInv'
    BY <1>5, MutexInvReturn
  <2>6. \A m \in Mutexes : mutex'[m].count \in Nat /\ mutex'[m].count <= mutex[m].count
    <3> SUFFICES ASSUME NEW m \in Mutexes PROVE mutex'[m].count <= mutex[m].count
      BY <2>5 DEF MutexInv
    <3>1. CASE m = Top(t).call.on
      <4>1. mutex'[m] = Unlocked(t, m)
        BY <1>0, <2>1, <3>1
      <4>2. Unlocked(t, m).count = 0 \/ Unlocked(t, m).count = mutex[m].count - 1
        BY <1>0 DEF Unlocked
      <4>3. QED
        BY <1>0, <4>1, <4>2
    <3>2. CASE m # Top(t).call.on
      BY <1>0, <2>1, <3>2
    <3>3. QED
      BY <3>1, <3>2
  <2>7. QED
    BY <2>1, <2>4, <2>6, IssueInvLower
<1>6. ASSUME NEW t \in Thread, Throws(t) PROVE IssueInv'
  <2>1. stack[t] # <<>> /\ stack' = [stack EXCEPT ![t] = <<>>] /\ issued' = issued /\ mutex' = mutex
    BY <1>6 DEF Throws, Throw, Running, At
  <2>2. ~SpinsIn(<<>>)
    BY DEF SpinsIn
  <2>3. \A m \in Mutexes : mutex'[m].count \in Nat /\ mutex'[m].count <= mutex[m].count
    BY <1>0, <2>1
  <2>4. QED
    BY <2>1, <2>2, <2>3, IssueInvLower
<1>7. ASSUME NEW t \in Thread, DoUnregister(t) PROVE IssueInv'
  <2>1. PICK u \in Use, token \in Tokens :
          LET q == [stack[t] EXCEPT ![Len(stack[t])] = Freed(t, u)]
          IN  /\ q \in Seq(FrameSet) /\ q[Len(q)] = Freed(t, u)
              /\ stack' = [stack EXCEPT ![t] = IF heaps[m_heaps[u]].allocated > 0
                                                 THEN Append(q, Opening(Clearing(u, token))) ELSE q]
    BY <1>7, Unregistered
  <2> DEFINE q == [stack[t] EXCEPT ![Len(stack[t])] = Freed(t, u)]
             a == Append(q, Opening(Clearing(u, token)))
  <2>2. q \in Seq(FrameSet) /\ q[Len(q)] = Freed(t, u)
        /\ (stack' = [stack EXCEPT ![t] = a] \/ stack' = [stack EXCEPT ![t] = q])
    BY <2>1
  <2> HIDE DEF q
  <2>3. Opening(Clearing(u, token)) \in FrameSet /\ Opening(Clearing(u, token)).call.on = "cache"
    BY ClearIsCall DEF Opening, FrameSet, Where, Clearing
  <2>4. Len(a) = Len(q) + 1 /\ a[Len(q) + 1] = Opening(Clearing(u, token))
    BY <2>2, <2>3, Pushed
  <2> HIDE DEF a
  <2>5. ~SpinsIn(q)
    BY <2>2 DEF SpinsIn, Last, Freed
  <2>6. ~SpinsIn(a)
    BY <2>3, <2>4 DEF SpinsIn, Last
  <2>7. stack[t] # <<>> /\ issued' = issued /\ mutex' = mutex
    BY <1>7, Unregistered
  <2>8. \A m \in Mutexes : mutex'[m].count \in Nat /\ mutex'[m].count <= mutex[m].count
    BY <1>0, <2>7
  <2>9. QED
    BY <2>2, <2>5, <2>6, <2>7, <2>8, IssueInvLower
<1>8. QED
  BY <1>1, <1>2, <1>3, <1>4, <1>5, <1>6, <1>7 DEF StackMoves

-----------------------------------------------------------------------------
\* The invariant of the registry and the cache.

BufInv == StackInv /\ MutexInv /\ IssueInv /\ HeapInv /\ FreeInv /\ CacheInv

LEMMA BufInvInit ==
    Init => BufInv
<1> SUFFICES ASSUME Init PROVE BufInv
  OBVIOUS
<1>1. /\ m_heaps = [u \in Use |-> 0] /\ heaps = <<>> /\ m_buffers = <<>> /\ m_subscriptions = <<>>
      /\ held = [t \in Thread |-> {}] /\ stack = [t \in Thread |-> <<>>]
      /\ mutex = [m \in Mutexes |-> [owner |-> NoThread, count |-> 0]]
      /\ thrown = [m \in Mutexes |-> 0]
      /\ accepted = {} /\ unregistered = FALSE /\ issued = 0 /\ fault = "none"
  BY DEF Init
<1>2. StackInv
  BY <1>1, ShapedEmpty DEF StackInv
<1>3. \A t \in Thread : stack[t] = <<>>
  BY <1>1
<1>4. MutexInv
  <2>1. \A m \in Mutexes : mutex[m].owner = NoThread /\ mutex[m].count = 0 /\ thrown[m] = 0
    BY <1>1
  <2>2. \A m \in Mutexes : Accounted(m)
    BY <1>3, <2>1, HeldInEmpty, BuffersAssumption DEF Accounted
  <2>3. QED
    BY <1>1, <2>2 DEF MutexInv
<1>5. IssueInv
  <2>1. Spinning = {}
    BY <1>3 DEF Spinning, SpinsIn
  <2>2. IsFiniteSet(Spinning) /\ Cardinality(Spinning) = 0
    BY <2>1, FS_EmptySet
  <2>3. \A m \in Mutexes : mutex[m].count = 0
    BY <1>1
  <2>4. issued \in 0..MaxCalls
    BY <1>1, BuffersAssumption
  <2>5. QED
    BY <1>1, <1>3, <2>2, <2>3, <2>4 DEF IssueInv, Mutexes
<1>6. HeapInv
  <2>1. /\ 0 \in HeapIds /\ Len(heaps) = 0 /\ heaps \in Seq(HeapRec) /\ Len(heaps) <= MaxHeaps
        /\ 1..Len(heaps) = {} /\ DOMAIN heaps = {}
    BY <1>1, BuffersAssumption DEF HeapIds
  <2>2. HeapTyped
    <3>1. unregistered \in BOOLEAN /\ fault \in Faults
      BY <1>1, FALSE \in BOOLEAN DEF Faults
    <3>2. held \in [Thread -> SUBSET (1..Len(heaps))]
      BY <1>1
    <3>3. QED
      BY <1>1, <2>1, <3>1, <3>2 DEF HeapTyped
  <2>3. QED
    BY <1>1, <2>1, <2>2 DEF HeapInv, ListedIntact, HeldStays, FreedByUnregister, FaultsHaveCauses
<1>7. FreeInv
  BY <1>3 DEF FreeInv
<1>8. CacheInv
  BY <1>1 DEF CacheInv
<1>9. QED
  BY <1>2, <1>4, <1>5, <1>6, <1>7, <1>8 DEF BufInv

LEMMA HeapInvStep ==
    ASSUME BufInv, [Next]_vars
    PROVE  HeapInv'
<1>0. HeapInv /\ StackInv /\ MutexInv /\ FreeInv
  BY DEF BufInv
<1>1. CASE UNCHANGED vars
  BY <1>0, <1>1, HeapInvSame DEF vars, heapVars
<1>2. ASSUME NEW t \in Thread, Begin(t) \/ Continue(t) PROVE HeapInv'
  BY <1>0, <1>2, HeapInvSame DEF Begin, Continue
<1>3. ASSUME NEW t \in Thread, NEW h \in DOMAIN heaps, Drop(t, h) PROVE HeapInv'
  <2> DEFINE hd == [held EXCEPT ![t] = @ \ {h}]
  <2>1. Settle(heaps, m_heaps, m_buffers, hd) /\ unregistered' = unregistered
    BY <1>3 DEF Drop
  <2>2. held \in [Thread -> SUBSET (1..Len(heaps))]
    BY <1>0 DEF HeapInv, HeapTyped
  <2>3. hd \in [Thread -> SUBSET (1..Len(heaps))] /\ \A u \in Thread : hd[u] \subseteq held[u]
    BY <2>2
  <2> HIDE DEF hd
  <2>4. QED
    BY <1>0, <2>1, <2>3, HeapInvDrop
<1>4. ASSUME NEW t \in Thread, NEW h \in DOMAIN heaps, Alloc(t, h) PROVE HeapInv'
  <2>1. h \in 1..Len(heaps)
    BY <1>0, HeapIdsAre DEF HeapInv
  <2>2. QED
    BY <1>0, <1>4, <2>1, HeapInvAlloc
<1>5. ASSUME NEW t \in Thread, InCall(t) PROVE HeapInv'
  <2>1. CASE TryLock(t) \/ Return(t)
    BY <1>0, <2>1, HeapInvSame DEF TryLock, Return
  <2>2. CASE RegisterUse(t)
    BY <1>0, <2>2, HeapInvRegister
  <2>3. CASE GetHeap(t)
    BY <1>0, <2>3, HeapInvGet
  <2>4. CASE \/ AllocatorStatus(t) \/ CacheStatus(t) \/ FindRelevant(t)
             \/ UnregisterNothing(t) \/ DoUnregister(t)
    BY <1>0, <2>4, HeapInvSame DEF AllocatorStatus, CacheStatus, FindRelevant, Reports, UnregisterNothing,
                                  DoUnregister
  <2>5. CASE DoFree(t)
    <3>1. Top(t).call.param.use \in Use /\ m_heaps[Top(t).call.param.use] # 0
      BY <1>0, <2>5, FreesOne
    <3>2. QED
      BY <1>0, <2>5, <3>1, HeapInvFree
  <2>6. CASE AddAllocated(t) \/ Subscribe(t) \/ Unsubscribe(t) \/ Publish(t)
    BY <1>0, <2>6, HeapInvSame DEF AddAllocated, Subscribe, Unsubscribe, Publish
  <2>7. CASE ClearAllocated(t)
    <3>1. \E mb : Settle(heaps, m_heaps, mb, held) /\ unregistered' = unregistered
      BY <2>7 DEF ClearAllocated
    <3>2. held \in [Thread -> SUBSET (1..Len(heaps))] /\ \A u \in Thread : held[u] \subseteq held[u]
      BY <1>0 DEF HeapInv, HeapTyped
    <3>3. QED
      BY <1>0, <3>1, <3>2, HeapInvDrop
  <2>8. QED
    BY <1>5, <2>1, <2>2, <2>3, <2>4, <2>5, <2>6, <2>7 DEF InCall
<1>6. QED
  BY <1>1, <1>2, <1>3, <1>4, <1>5 DEF Next

\* Only DoFree takes a heap off the list.
LEMMA ListOnlyGrows ==
    ASSUME BufInv, [Next]_vars, \A t \in Thread : ~DoFree(t), NEW u \in Use, m_heaps[u] # 0
    PROVE  m_heaps'[u] = m_heaps[u]
<1>1. CASE UNCHANGED vars
  BY <1>1 DEF vars
<1>2. ASSUME NEW t \in Thread, Begin(t) \/ Continue(t) PROVE m_heaps' = m_heaps
  BY <1>2 DEF Begin, Continue, heapVars
<1>3. ASSUME NEW t \in Thread, NEW h \in DOMAIN heaps, Drop(t, h) \/ Alloc(t, h) PROVE m_heaps' = m_heaps
  BY <1>3 DEF Drop, Alloc, Settle
<1>4. ASSUME NEW t \in Thread, InCall(t) PROVE m_heaps'[u] = m_heaps[u]
  <2>1. CASE TryLock(t) \/ Return(t) \/ GetHeap(t)
    BY <2>1 DEF TryLock, Return, GetHeap, heapVars
  <2>2. CASE RegisterUse(t)
    <3>1. CASE Throw(t)
      BY <3>1 DEF Throw, heapVars
    <3>2. CASE ~Throw(t)
      <4>1. PICK v, h : m_heaps' = Insert(v, h)
        BY <2>2, <3>2 DEF RegisterUse
      <4>2. m_heaps \in [Use -> HeapIds]
        BY DEF BufInv, HeapInv, HeapTyped
      <4>3. QED
        BY <4>1, <4>2 DEF Insert
    <3>3. QED
      BY <3>1, <3>2
  <2>3. CASE \/ AllocatorStatus(t) \/ CacheStatus(t) \/ FindRelevant(t)
             \/ UnregisterNothing(t) \/ DoUnregister(t)
    BY <2>3 DEF AllocatorStatus, CacheStatus, FindRelevant, Reports, UnregisterNothing, DoUnregister,
                heapVars
  <2>4. CASE AddAllocated(t) \/ ClearAllocated(t) \/ Subscribe(t) \/ Unsubscribe(t) \/ Publish(t)
    BY <2>4 DEF AddAllocated, ClearAllocated, Settle, Subscribe, Unsubscribe, Publish, heapVars
  <2>5. QED
    BY <1>4, <2>1, <2>2, <2>3, <2>4 DEF InCall
<1>5. QED
  BY <1>1, <1>2, <1>3, <1>4 DEF Next

LEMMA FreeInvStep ==
    ASSUME BufInv, [Next]_vars, StackMoves, StackInv'
    PROVE  FreeInv'
<1>0. StackInv /\ MutexInv /\ FreeInv
  BY DEF BufInv
<1>1. CASE \E t \in Thread : DoFree(t)
  BY <1>0, <1>1, FreesOne DEF FreeInv
<1>2. CASE \A t \in Thread : ~DoFree(t)
  <2> SUFFICES ASSUME NEW t \in Thread, NEW k \in 1..Len(stack'[t]), stack'[t][k].at = "free"
               PROVE  m_heaps'[stack'[t][k].call.param.use] # 0
    BY DEF FreeInv
  <2> DEFINE u == stack'[t][k].call.param.use
  <2>1. m_heaps[u] # 0
    BY <1>0, FreesAreListed
  <2>2. u \in Use
    BY DEF StackInv, Shaped
  <2>3. QED
    BY <1>2, <2>1, <2>2, ListOnlyGrows
<1>3. QED
  BY <1>1, <1>2

LEMMA BufInvNext ==
    ASSUME BufInv, [Next]_vars
    PROVE  BufInv' /\ CacheKeeps
<1>0. StackInv /\ MutexInv /\ IssueInv /\ HeapInv /\ FreeInv /\ CacheInv
  BY DEF BufInv
<1>1. StackMoves
  BY <1>0, HeapIdsAre, StepsMoveStacks DEF HeapInv
<1>2. StackInv' /\ MutexInv' /\ IssueInv'
  BY <1>0, <1>1, StackInvStep, MutexInvStep, IssueInvStep
<1>3. HeapInv' /\ FreeInv'
  BY <1>1, <1>2, HeapInvStep, FreeInvStep
<1>4. CacheInv' /\ CacheKeeps
  BY <1>0, CacheInvStep
<1>5. QED
  BY <1>2, <1>3, <1>4 DEF BufInv

LEMMA BufInvInvariant == Spec => []BufInv
<1>1. BufInv /\ [Next]_vars => BufInv'
  BY BufInvNext
<1>2. QED
  BY BufInvInit, <1>1, PTL DEF Spec

-----------------------------------------------------------------------------
\* What follows from it.

LEMMA CountsBounded ==
    ASSUME BufInv
    PROVE  /\ mutex \in [Mutexes -> [owner : Thread \cup {NoThread}, count : 0..MaxCalls]]
           /\ thrown \in [Mutexes -> 0..MaxCalls] /\ issued \in 0..MaxCalls
<1>1. /\ mutex \in [Mutexes -> [owner : Thread \cup {NoThread}, count : Nat]]
      /\ thrown \in [Mutexes -> Nat] /\ \A m \in Mutexes : Accounted(m)
      /\ stack \in [Thread -> Seq(FrameSet)]
  BY DEF BufInv, MutexInv, StackInv
<1>2. issued \in 0..MaxCalls /\ MaxCalls \in Nat
  BY BuffersAssumption DEF BufInv, IssueInv
<1>3. mutex["cache"].count <= issued
  BY <1>1, <1>2 DEF BufInv, IssueInv, Mutexes
<1>4. mutex["allocator"].count <= issued
  <2>1. mutex["allocator"].count + Cardinality(Spinning) <= issued /\ Cardinality(Spinning) \in Nat
    BY SpinningCard DEF BufInv, IssueInv
  <2>2. mutex["allocator"].count \in Nat
    BY <1>1 DEF Mutexes
  <2>3. QED
    BY <1>2, <2>1, <2>2
<1>5. \A m \in Mutexes : mutex[m].count \in 0..MaxCalls
  BY <1>1, <1>2, <1>3, <1>4 DEF Mutexes
<1>6. \A m \in Mutexes : thrown[m] <= mutex[m].count
  <2> TAKE m \in Mutexes
  <2>1. CASE mutex[m].owner = NoThread
    BY <1>1, <2>1 DEF Accounted
  <2>2. CASE mutex[m].owner \in Thread
    <3>1. /\ mutex[m].count = thrown[m] + Cardinality(HeldIn(stack[mutex[m].owner], m))
          /\ stack[mutex[m].owner] \in Seq(FrameSet) /\ thrown[m] \in Nat
      BY <1>1, <2>2 DEF Accounted
    <3>2. Cardinality(HeldIn(stack[mutex[m].owner], m)) \in Nat
      BY <3>1, HeldInFinite
    <3>3. QED
      BY <3>1, <3>2
  <2>3. QED
    BY <1>1, <2>1, <2>2
<1>7. \A m \in Mutexes : thrown[m] \in 0..MaxCalls
  BY <1>1, <1>2, <1>5, <1>6
<1>8. QED
  BY <1>1, <1>2, <1>5, <1>7

\* allocator.cpp, buffer_cache.cpp and mutexcall.h: every variable keeps its type, each call that frees
\* a heap finds it listed, and no mutex counts more than the calls that were made.
THEOREM BufferTypeCorrect == Spec => []TypeOK
<1>1. BufInv => TypeOK
  <2> SUFFICES ASSUME BufInv PROVE TypeOK
    OBVIOUS
  <2>1. /\ m_heaps \in [Use -> HeapIds] /\ heaps \in Seq(HeapRec) /\ Len(heaps) <= MaxHeaps
        /\ held \in [Thread -> SUBSET DOMAIN heaps] /\ unregistered \in BOOLEAN /\ fault \in Faults
    BY HeapIdsAre DEF BufInv, HeapInv, HeapTyped
  <2>2. /\ m_buffers \in Seq(BufferRec) /\ accepted \subseteq Acceptor
        /\ \A k \in DOMAIN m_subscriptions : m_subscriptions[k].filter.kind = "base"
    <3>1. m_subscriptions \in Seq(SubscriptionRec)
      BY DEF BufInv, CacheInv
    <3>2. \A k \in DOMAIN m_subscriptions : m_subscriptions[k] \in SubscriptionRec
      BY <3>1
    <3>3. QED
      BY <3>2, BaseFiltersAreBase DEF BufInv, CacheInv, SubscriptionRec
  <2>3. ASSUME NEW t \in Thread, NEW k \in DOMAIN stack[t]
        PROVE  /\ stack[t][k].at \in Where /\ stack[t][k].call.on \in Mutexes
               /\ stack[t][k].at = "free" => m_heaps[stack[t][k].call.param.use] # 0
    <3>1. stack[t] \in Seq(FrameSet)
      BY DEF BufInv, StackInv
    <3>2. k \in 1..Len(stack[t]) /\ stack[t][k] \in FrameSet
      BY <2>3, <3>1
    <3>3. stack[t][k].at \in Where /\ stack[t][k].call \in AllCalls
      BY <3>2 DEF FrameSet
    <3>4. QED
      BY <3>2, <3>3, CallParams DEF BufInv, FreeInv
  <2>4. \A m \in Mutexes : (mutex[m].owner = NoThread) = (mutex[m].count = 0)
    BY DEF BufInv, MutexInv, Accounted
  <2>5. QED
    BY <2>1, <2>2, <2>3, <2>4, CountsBounded DEF TypeOK, HeapRec, BufferRec
<1>2. QED
  BY <1>1, BufInvInvariant, PTL

\* allocator.cpp:239: the map finds a heap of that very key with its memory in place, however many heaps,
\* keys and threads there are.
THEOREM ListedHeapsStayIntact == Spec => []ListedHeapsIntact
<1>1. BufInv => ListedHeapsIntact
  BY DEF BufInv, HeapInv, ListedIntact, ListedHeapsIntact
<1>2. QED
  BY <1>1, BufInvInvariant, PTL

\* allocator.cpp:135 and :218: memory is freed twice or used after it was freed only when some heap was
\* unregistered, and ::free gets a wrong pointer only for an alignment that moved it.
THEOREM HeapFaultsHaveCauses == Spec => []FaultsHaveCauses
<1>1. BufInv => FaultsHaveCauses
  BY DEF BufInv, HeapInv
<1>2. QED
  BY <1>1, BufInvInvariant, PTL

\* buffer_cache.h:93-97: a mutex counts one for each call inside it and one for each exception that left
\* it, and all the calls inside are its owner's.
THEOREM MutexesCountCalls == Spec => []MutexesGivenBack
<1>1. BufInv => MutexesGivenBack
  <2> SUFFICES ASSUME BufInv, NEW m \in Mutexes
               PROVE  /\ mutex[m].count = thrown[m] + (IF mutex[m].count = 0 THEN 0
                                                         ELSE Cardinality(Holding(mutex[m].owner, m)))
                      /\ \A t \in Thread : t # mutex[m].owner => Holding(t, m) = {}
    BY DEF MutexesGivenBack
  <2>1. /\ Accounted(m) /\ thrown[m] \in Nat /\ mutex[m].count \in Nat
        /\ mutex[m].owner \in Thread \cup {NoThread}
    BY DEF BufInv, MutexInv
  <2>2. \A t \in Thread : Holding(t, m) = HeldIn(stack[t], m)
    BY HoldingIsHeldIn DEF BufInv
  <2>3. \A t \in Thread : t # mutex[m].owner => Holding(t, m) = {}
    BY <2>1, <2>2 DEF Accounted
  <2>4. CASE mutex[m].count = 0
    BY <2>1, <2>3, <2>4 DEF Accounted
  <2>5. CASE mutex[m].count # 0
    <3>1. mutex[m].owner \in Thread
      BY <2>1, <2>5 DEF Accounted
    <3>2. mutex[m].count = thrown[m] + Cardinality(Holding(mutex[m].owner, m))
      BY <2>1, <2>2, <3>1 DEF Accounted
    <3>3. QED
      BY <2>3, <2>5, <3>2
  <2>6. QED
    BY <2>4, <2>5
<1>2. QED
  BY <1>1, BufInvInvariant, PTL

\* buffer_cache.cpp:91, :114 and :161: whatever filters clients pass, the ones that reach the cache match
\* nothing, so no entry ever leaves the cache and no Acceptor is called: what the run clears_relevant
\* shows of one call is so of every call.
THEOREM CacheMatchesNothing == Spec => [][CacheKeeps]_vars
<1>1. BufInv /\ [Next]_vars => [CacheKeeps]_vars
  BY BufInvNext
<1>2. QED
  BY <1>1, BufInvInvariant, PTL DEF Spec
====
