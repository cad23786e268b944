---- MODULE Buffers ----
\* The registry of heaps (Allocator), the buffer cache (BufferCache) and the two mutexes through
\* which threads call them (access, mutexcall.h): allocator.cpp, buffer_cache.cpp.
\* What heap_t does inside its memory is HeapBlocks; here a heap is its memory and its count.
EXTENDS UseIdents, FiniteSets, Subsequences

CONSTANTS Thread, NoThread, Use, Acceptor,
          Idents,      \* the UseIdents that clients make
          Filters,     \* the filters that clients pass
          Continues,   \* what a continuation of CPS may call: a set of kinds of calls
          Kinds,       \* the kinds of calls clients make
          MaxCalls,    \* bound on the calls of a run
          MaxHeaps,    \* bound on the heaps made by registerUse()
          MaxBlocks    \* bound on the blocks of a heap

ASSUME BuffersAssumption ==
    /\ NoThread \notin Thread /\ NoUse \notin Use
    /\ Token \in [Use -> SUBSET STRING] /\ \A u \in Use : Token[u] # {}
    /\ MaxCalls \in Nat /\ MaxHeaps \in Nat /\ MaxBlocks \in Nat

VARIABLES m_heaps,         \* Allocator::m_heaps: the heap of each key, 0 when it is not there
          heaps,           \* every heap_t made: its memory, live, freed or destroyed with it
          m_buffers,       \* BufferCache::m_buffers
          m_subscriptions, \* BufferCache::m_subscriptions
          held,            \* the shared_ptr<heap_t> that each thread has from its calls
          stack,           \* the calls each thread is in, innermost last
          mutex,           \* owner and count of Allocator::m_mutex and BufferCache::m_mutex
          thrown,          \* how often an exception left a call that had locked the mutex
          accepted,        \* the Acceptors whose accept() was called
          unregistered,    \* whether do_unregisterHeap() has freed memory
          issued, fault

vars == <<m_heaps, heaps, m_buffers, m_subscriptions, held, stack, mutex, thrown, accepted,
          unregistered, issued, fault>>
heapVars == <<m_heaps, heaps, held, unregistered>>
cacheVars == <<m_buffers, m_subscriptions, accepted>>

Mutexes == {"allocator", "cache"}

\* A call keeps its parameters from when it is built (CPS, CPS_void): filters go in as copies.
Call(kind, param) ==
  [kind |-> kind, param |-> param,
   on |-> IF kind \in {"registerUse", "unregisterUse", "unregisterAll", "getHeap",
                       "getAllocatorStatus"} THEN "allocator" ELSE "cache"]
Calls(t) ==
  {c \in {Call("registerUse", [use |-> u, wide |-> w]) : u \in Use, w \in BOOLEAN}
         \cup {Call(k, [use |-> u]) : k \in {"unregisterUse", "getHeap"}, u \in Use}
         \cup {Call(k, [use |-> NoUse]) : k \in {"unregisterAll", "getAllocatorStatus",
                                                  "getCacheStatus"}}
         \cup {Call("addAllocated", [ident |-> i, heap |-> h]) : i \in Idents, h \in held[t]}
         \cup {Call(k, [filter |-> Sliced(f)]) : k \in {"clearAllocated", "findRelevant"},
                                                 f \in Filters}
         \cup {Call("subscribe", [filter |-> Sliced(f), acceptor |-> a]) :
                 f \in Filters, a \in Acceptor}
         \cup {Call("unsubscribe", [acceptor |-> a]) : a \in Acceptor}
         \cup {Call("publish", [ident |-> i]) : i \in Idents}
   : c.kind \in Kinds}

Init == /\ m_heaps = [u \in Use |-> 0] /\ heaps = <<>>
        /\ m_buffers = <<>> /\ m_subscriptions = <<>>
        /\ held = [t \in Thread |-> {}] /\ stack = [t \in Thread |-> <<>>]
        /\ mutex = [m \in Mutexes |-> [owner |-> NoThread, count |-> 0]]
        /\ thrown = [m \in Mutexes |-> 0]
        /\ accepted = {} /\ unregistered = FALSE /\ issued = 0 /\ fault = "none"

-----------------------------------------------------------------------------
\* Entering and leaving the mutexes.

Top(t) == Last(stack[t])
At(t, where) == fault = "none" /\ stack[t] # <<>> /\ Top(t).at = where
Running(t, kind) == At(t, "run") /\ Top(t).call.kind = kind
Push(t, c) == stack' = [stack EXCEPT ![t] = Append(@, [call |-> c, at |-> "spin"])]
GoTo(t, where) == stack' = [stack EXCEPT ![t] = [@ EXCEPT ![Len(@)].at = where]]

Begin(t) == /\ fault = "none" /\ stack[t] = <<>> /\ issued < MaxCalls
            /\ \E c \in Calls(t) : Push(t, c)
            /\ issued' = issued + 1
            /\ UNCHANGED <<heapVars, cacheVars, mutex, thrown, fault>>

\* try_lock: only the mutex of the allocator is recursive.
NotRecursive(t, m) == mutex[m].count = 0
MayLock(t, m) == \/ mutex[m].count = 0
                 \/ m = "allocator" /\ mutex[m].owner = t
TryLock(t) == /\ At(t, "spin") /\ MayLock(t, Top(t).call.on)
              /\ mutex' = [mutex EXCEPT ![Top(t).call.on] =
                                          [owner |-> t, count |-> @.count + 1]]
              /\ GoTo(t, "run")
              /\ UNCHANGED <<heapVars, cacheVars, thrown, issued, fault>>

\* m_continuer runs with the mutex held; what it calls is the client's business.
Continue(t) == /\ At(t, "continue") /\ Len(stack[t]) = 1 /\ issued < MaxCalls
               /\ \E c \in Calls(t) : c.kind \in Continues /\ Push(t, c)
               /\ issued' = issued + 1
               /\ UNCHANGED <<heapVars, cacheVars, mutex, thrown, fault>>

UnlockedOnce(t, m) == [owner |-> NoThread, count |-> 0]
Unlocked(t, m) == IF mutex[m].count = 1 THEN [owner |-> NoThread, count |-> 0]
                                        ELSE [mutex[m] EXCEPT !.count = @ - 1]
Return(t) == /\ At(t, "continue")
             /\ mutex' = [mutex EXCEPT ![Top(t).call.on] = Unlocked(t, Top(t).call.on)]
             /\ stack' = [stack EXCEPT ![t] = Front(@)]
             /\ UNCHANGED <<heapVars, cacheVars, thrown, issued, fault>>

\* An exception passes access::allocator and access::cache without an unlock().
Throw(t) == /\ thrown' = [m \in Mutexes |->
                            thrown[m] + Cardinality({i \in DOMAIN stack[t] :
                                                       stack[t][i].call.on = m})]
            /\ stack' = [stack EXCEPT ![t] = <<>>]
            /\ UNCHANGED <<heapVars, cacheVars, mutex, issued, fault>>

-----------------------------------------------------------------------------
\* The shared_ptr<heap_t>: the map, the cache and the threads own a heap together, and the last
\* of them runs ~heap_t, which frees its memory.

Listed(mh, h) == \E u \in Use : mh[u] = h
ReferencedOutside(h, mh, mb, hd) == \/ \E i \in DOMAIN mb : mb[i].heap = h
                                    \/ \E t \in Thread : h \in hd[t]
Referenced(h, mh, mb, hd) == \/ Listed(mh, h)
                             \/ \E i \in DOMAIN mb : mb[i].heap = h
                             \/ \E t \in Thread : h \in hd[t]

\* ~heap_t of every heap that mh, mb and hd leave without an owner; hs are the heaps before.
Settle(hs, mh, mb, hd) ==
  LET gone == {h \in DOMAIN hs : hs[h].memory # "gone" /\ ~Referenced(h, mh, mb, hd)}
  IN  /\ m_heaps' = mh /\ m_buffers' = mb /\ held' = hd
      /\ heaps' = [h \in DOMAIN hs |-> IF h \in gone THEN [hs[h] EXCEPT !.memory = "gone"]
                                                      ELSE hs[h]]
      /\ fault' = IF \E h \in gone : hs[h].memory = "freed" THEN "doubleFree"
                  ELSE IF \E h \in gone : hs[h].moved THEN "badFree" ELSE "none"

Drop(t, h) == /\ fault = "none" /\ stack[t] = <<>> /\ h \in held[t]
              /\ Settle(heaps, m_heaps, m_buffers, [held EXCEPT ![t] = @ \ {h}])
              /\ UNCHANGED <<m_subscriptions, accepted, stack, mutex, thrown, unregistered,
                             issued>>

\* A holder of a heap calls alloc() and makes a HeapBuffer where it points.
Alloc(t, h) == /\ fault = "none" /\ stack[t] = <<>> /\ h \in held[t]
               /\ heaps[h].allocated < MaxBlocks
               /\ heaps' = [heaps EXCEPT ![h].allocated = @ + 1]
               /\ fault' = IF heaps[h].memory = "live" THEN "none" ELSE "useAfterFree"
               /\ UNCHANGED <<m_heaps, held, unregistered, cacheVars, stack, mutex, thrown, issued>>

-----------------------------------------------------------------------------
\* The calls under the mutex of the allocator.

\* insert() does not replace an entry; the new heap is returned in any case.  std::align moves
\* _free along when the alignment is wider than malloc's.
Insert(u, h) == IF m_heaps[u] = 0 THEN [m_heaps EXCEPT ![u] = h] ELSE m_heaps
RegisterUse(t) ==
  /\ Running(t, "registerUse")
  /\ LET p == Top(t).call.param
         h == Len(heaps) + 1
     IN  \/ /\ h <= MaxHeaps
            /\ \E moved \in {FALSE, p.wide} :
                 heaps' = Append(heaps, [use |-> p.use, memory |-> "live", moved |-> moved,
                                         allocated |-> 0])
            /\ m_heaps' = Insert(p.use, h)
            /\ held' = [held EXCEPT ![t] = @ \cup {h}]
            /\ GoTo(t, "continue")
            /\ UNCHANGED <<unregistered, cacheVars, mutex, thrown, issued, fault>>
         \/ Throw(t)    \* ENOMEM, and ENOALIGN: then the memory is lost

\* getHeap: an empty pointer when the key is not there.
FoundAnyway(u) == {m_heaps[u]}
Found(u) == {m_heaps[u]} \ {0}
GetHeap(t) == /\ Running(t, "getHeap")
              /\ held' = [held EXCEPT ![t] = @ \cup Found(Top(t).call.param.use)]
              /\ GoTo(t, "continue")
              /\ UNCHANGED <<m_heaps, heaps, unregistered, cacheVars, mutex, thrown, issued, fault>>

\* The calls that only report.
Reports(t, kind) == /\ Running(t, kind)
                    /\ GoTo(t, "continue")
                    /\ UNCHANGED <<heapVars, cacheVars, mutex, thrown, issued, fault>>
AllocatorStatus(t) == Reports(t, "getAllocatorStatus")
CacheStatus(t) == Reports(t, "getCacheStatus")
FindRelevant(t) == Reports(t, "findRelevant")

\* The entries that unregisterUse and unregisterAll come to first.
Targets(c) == {u \in Use : m_heaps[u] # 0 /\ (c.kind = "unregisterAll" \/ u = c.param.use)}
Unregisters(t) == Running(t, "unregisterUse") \/ Running(t, "unregisterAll")
UnregisterNothing(t) == /\ Unregisters(t) /\ Targets(Top(t).call) = {}
                        /\ GoTo(t, "continue")
                        /\ UNCHANGED <<heapVars, cacheVars, mutex, thrown, issued, fault>>

\* do_unregisterHeap: with blocks counted it first calls the cache, under the allocator's mutex,
\* with a filter for the token that the key has now.
DoUnregister(t) ==
  /\ Unregisters(t)
  /\ \E u \in Targets(Top(t).call) : \E token \in Token[u] :
       LET c == [Top(t).call EXCEPT !.param = [use |-> u]]
           n == Len(stack[t])
           clear == Call("clearAllocated", [filter |-> Sliced(SourcesOnly(IdentOf(u, token)))])
           free == [call |-> c, at |-> "free"]
       IN  stack' = [stack EXCEPT ![t] =
                       IF heaps[m_heaps[u]].allocated > 0
                         THEN Append([@ EXCEPT ![n] = free], [call |-> clear, at |-> "spin"])
                         ELSE [@ EXCEPT ![n] = free]]
  /\ UNCHANGED <<heapVars, cacheVars, mutex, thrown, issued, fault>>

\* ::free(_free), erase, reset: the heap goes with its last owner, and frees its memory again.
\* unregisterAll goes on from the entry that was erased.
UnlistNothing(u) == m_heaps
Unlist(u) == [m_heaps EXCEPT ![u] = 0]
DoFree(t) ==
  /\ At(t, "free")
  /\ LET u == Top(t).call.param.use
         h == m_heaps[u]
         after == [heaps EXCEPT ![h].memory = "freed"]
     IN  \/ heaps[h].moved /\ fault' = "badFree" /\ UNCHANGED <<heapVars, m_buffers>>
         \/ /\ ~heaps[h].moved /\ unregistered' = TRUE
            /\ Top(t).call.kind = "unregisterUse"
            /\ Settle(after, Unlist(u), m_buffers, held)
         \/ /\ ~heaps[h].moved /\ unregistered' = TRUE
            /\ Top(t).call.kind = "unregisterAll"
            /\ fault' = IF Referenced(h, Unlist(u), m_buffers, held) THEN "erasedEntry"
                                                                     ELSE "doubleFree"
            /\ m_heaps' = Unlist(u) /\ heaps' = after /\ UNCHANGED <<held, m_buffers>>
  /\ GoTo(t, "continue")
  /\ UNCHANGED <<m_subscriptions, accepted, mutex, thrown, issued>>

-----------------------------------------------------------------------------
\* The calls under the mutex of the cache.

\* publish: every subscription whose filter matches the buffer has its Acceptor called.
Receivers(i) == {m_subscriptions[k].acceptor :
                   k \in {l \in DOMAIN m_subscriptions : Matches(m_subscriptions[l].filter, i)}}

\* Every block of the heap is published, with the identifier of its own HeapBuffer.
AddAllocated(t) ==
  /\ Running(t, "addAllocated")
  /\ LET p == Top(t).call.param
         blocks == 1..heaps[p.heap].allocated
     IN  /\ m_buffers' = Append(m_buffers, p)
         /\ \E ident \in [blocks -> Idents] :
              accepted' = accepted \cup UNION {Receivers(ident[k]) : k \in blocks}
  /\ GoTo(t, "continue")
  /\ UNCHANGED <<heapVars, m_subscriptions, mutex, thrown, issued, fault>>

\* freeAll() of the heaps that match leaves their count; every entry that equals one that matched
\* goes, whatever the name in it.
ClearAllocated(t) ==
  /\ Running(t, "clearAllocated")
  /\ LET f == Top(t).call.param.filter
         pairs == {b \in ToSet(m_buffers) : Matches(f, b.ident)}
         kept == {b \in ToSet(m_buffers) :
                    ~\E c \in pairs : c.heap = b.heap /\ IdentEquals(c.ident, b.ident)}
     IN  Settle(heaps, m_heaps, ElementsIn(m_buffers, kept), held)
  /\ GoTo(t, "continue")
  /\ UNCHANGED <<m_subscriptions, accepted, unregistered, mutex, thrown, issued>>

Subscribe(t) == /\ Running(t, "subscribe")
                /\ m_subscriptions' = Append(m_subscriptions, Top(t).call.param)
                /\ GoTo(t, "continue")
                /\ UNCHANGED <<heapVars, m_buffers, accepted, mutex, thrown, issued, fault>>

Unsubscribe(t) ==
  /\ Running(t, "unsubscribe")
  /\ LET a == Top(t).call.param.acceptor
     IN  m_subscriptions' = ElementsIn(m_subscriptions,
                                       {s \in ToSet(m_subscriptions) : s.acceptor # a})
  /\ GoTo(t, "continue")
  /\ UNCHANGED <<heapVars, m_buffers, accepted, mutex, thrown, issued, fault>>

Publish(t) == /\ Running(t, "publish")
              /\ accepted' = accepted \cup Receivers(Top(t).call.param.ident)
              /\ GoTo(t, "continue")
              /\ UNCHANGED <<heapVars, m_buffers, m_subscriptions, mutex, thrown, issued, fault>>

-----------------------------------------------------------------------------
InCall(t) == \/ TryLock(t) \/ Return(t)
             \/ RegisterUse(t) \/ GetHeap(t)
             \/ AllocatorStatus(t) \/ CacheStatus(t) \/ FindRelevant(t)
             \/ UnregisterNothing(t) \/ DoUnregister(t) \/ DoFree(t)
             \/ AddAllocated(t) \/ ClearAllocated(t) \/ Subscribe(t) \/ Unsubscribe(t) \/ Publish(t)

Next == \E t \in Thread : \/ Begin(t) \/ Continue(t) \/ InCall(t)
                          \/ \E h \in DOMAIN heaps : Drop(t, h) \/ Alloc(t, h)

\* A thread in a call goes on; a try_lock() that fails is tried again after a yield().
Fairness == \A t \in Thread : WF_vars(InCall(t))
Spec == Init /\ [][Next]_vars
FairSpec == Spec /\ Fairness

-----------------------------------------------------------------------------
Faults == {"none", "doubleFree", "badFree", "useAfterFree", "erasedEntry"}
HeapIds == 0..MaxHeaps
Where == {"spin", "run", "free", "continue"}

\* Type invariant: the heaps, the entries of the cache, the calls under way and the mutexes.
TypeOK ==
  /\ m_heaps \in [Use -> HeapIds]
  /\ heaps \in Seq([use : Use, memory : {"live", "freed", "gone"}, moved : BOOLEAN,
                     allocated : 0..MaxBlocks]) /\ Len(heaps) <= MaxHeaps
  /\ m_buffers \in Seq([ident : Idents, heap : HeapIds \ {0}])
  /\ \A k \in DOMAIN m_subscriptions : m_subscriptions[k].filter.kind = "base"
  /\ held \in [Thread -> SUBSET DOMAIN heaps]
  /\ \A t \in Thread : \A k \in DOMAIN stack[t] :
       /\ stack[t][k].at \in Where /\ stack[t][k].call.on \in Mutexes
       /\ stack[t][k].at = "free" => m_heaps[stack[t][k].call.param.use] # 0
  /\ mutex \in [Mutexes -> [owner : Thread \cup {NoThread}, count : 0..MaxCalls]]
  /\ \A m \in Mutexes : (mutex[m].owner = NoThread) = (mutex[m].count = 0)
  /\ thrown \in [Mutexes -> 0..MaxCalls] /\ accepted \subseteq Acceptor
  /\ unregistered \in BOOLEAN /\ issued \in 0..MaxCalls /\ fault \in Faults

Holding(t, m) == {i \in DOMAIN stack[t] : stack[t][i].call.on = m /\ stack[t][i].at # "spin"}
Spins(t, m) == stack[t] # <<>> /\ Top(t).at = "spin" /\ Top(t).call.on = m

\* Safety, allocator.cpp:239: the map finds a heap of that very key with its memory in place, so
\* no call reaches a heap that was unregistered, and no heap is found under two keys.
ListedHeapsIntact ==
  fault = "none" => \A u \in Use : m_heaps[u] # 0 => /\ heaps[m_heaps[u]].memory = "live"
                                                    /\ heaps[m_heaps[u]].use = u

\* Safety, allocator.cpp:135 and :218: memory is freed twice or used after it was freed only when
\* some heap was unregistered, and ::free gets a pointer that malloc did not return only for an
\* alignment that moved it: shared_ptr alone never frees a heap that somebody still has.
FaultsHaveCauses == /\ fault \in {"doubleFree", "useAfterFree", "erasedEntry"} => unregistered
                    /\ fault = "badFree" => \E h \in DOMAIN heaps : heaps[h].moved

\* Safety, buffer_cache.h:93-97: a mutex counts one for each call inside it and one for each
\* exception that left it, and all the calls inside are its owner's.
MutexesGivenBack ==
  \A m \in Mutexes :
    /\ mutex[m].count = thrown[m] + (IF mutex[m].count = 0 THEN 0
                                       ELSE Cardinality(Holding(mutex[m].owner, m)))
    /\ \A t \in Thread : t # mutex[m].owner => Holding(t, m) = {}

\* Action property, buffer_cache.cpp:81 "loop to delete buffers by relevance" and allocator.cpp:232
\* "free the heap, first calling Cache(clearRelevantBuffers)": when clearAllocated() is done for a
\* heap that is to be freed, no entry is left in the cache whose name is that of the heap's user.
RelevantCleared ==
  [][\A t \in Thread :
       ClearAllocated(t) /\ (\E n \in DOMAIN stack[t] : stack[t][n].at = "free")
         => LET use == Top(t).call.param.filter.ident
            IN  \A k \in DOMAIN m_buffers' : ~Matches(SourcesOnly(use), m_buffers'[k].ident)]_vars

\* What keeps a call from returning: an exception that left a mutex locked, a thread in the cache
\* that calls the cache again, two threads that hold a mutex each and want the other's.
Stuck == \/ fault # "none" \/ \E m \in Mutexes : thrown[m] > 0
         \/ \E t \in Thread : Spins(t, "cache") /\ Holding(t, "cache") # {}
         \/ \E t, s \in Thread : /\ Spins(t, "cache") /\ Holding(t, "allocator") # {}
                                 /\ Spins(s, "allocator") /\ Holding(s, "cache") # {}

\* Liveness, buffer_cache.h:90-126: every call returns, unless one of these came about.
CallsReturn == \A t \in Thread : stack[t] # <<>> ~> stack[t] = <<>> \/ Stuck
====
