---- MODULE WorkStore ----
\* The store of work (Token, Store, Access; work.cpp).  Store's mutex makes setWork() and getWork() one step
\* each; what is done through an Access happens outside of it.
EXTENDS Naturals, Sequences, SequencesExt, FiniteSets

CONSTANTS Worker,      \* the threads that use the store
          Target, Descriptor,
          MaxPart,     \* bound on the part of a Token
          MaxAdds      \* and on the descriptors of each

ASSUME WorkStoreAssumption == MaxPart \in Nat /\ MaxAdds \in Nat

VARIABLES m_workMap,     \* Store::m_workMap: the descriptors of each token's Object
          m_workQueue,   \* Store::m_workQueue
          access,        \* the Tokens each worker has an Access to
          adding,        \* the addDescriptor() each worker is in: its token, list and descriptor
          added,         \* the descriptors that addDescriptor() was called with, by token
          overlapped     \* tokens whose list two workers changed at a time

storeVars == <<m_workMap, m_workQueue, access, adding, added, overlapped>>

\* Clients make a Token of any part, with a constructor or as the clone() of another.
Tokens == [target : Target, part : 0..MaxPart]
NoAdd == <<>>

WorkInit == /\ m_workMap = [k \in {} |-> <<>>] /\ m_workQueue = <<>>
            /\ access = [w \in Worker |-> {}] /\ adding = [w \in Worker |-> NoAdd]
            /\ added = [k \in Tokens |-> <<>>] /\ overlapped = {}

Known == DOMAIN m_workMap

\* setWork() throws for a token that is known; nothing takes one out again.
Anything(k) == TRUE
Unknown(k) == k \notin Known
SetWork(w, k) ==
  /\ adding[w] = NoAdd /\ Unknown(k)
  /\ m_workMap' = [j \in Known \cup {k} |-> IF j = k THEN <<>> ELSE m_workMap[j]]
  /\ m_workQueue' = Append(m_workQueue, k)
  /\ access' = [access EXCEPT ![w] = @ \cup {k}]
  /\ UNCHANGED <<adding, added, overlapped>>
SetWorkThrows(w, k) == adding[w] = NoAdd /\ k \in Known /\ UNCHANGED storeVars

GetWork(w, k) == /\ adding[w] = NoAdd /\ k \in Known
                 /\ access' = [access EXCEPT ![w] = @ \cup {k}]
                 /\ UNCHANGED <<m_workMap, m_workQueue, adding, added, overlapped>>
GetWorkThrows(w, k) == adding[w] = NoAdd /\ k \notin Known /\ UNCHANGED storeVars

\* addDescriptor() appends to the list of an Object that others may hold: nothing locks it, and
\* of two that overlap the later may write over the earlier.
Adders(k) == {w \in Worker : adding[w] # NoAdd /\ adding[w].token = k}
AddDescriptor(w, k, d) ==
  /\ adding[w] = NoAdd /\ k \in access[w] /\ Len(added[k]) < MaxAdds
  /\ adding' = [adding EXCEPT ![w] = [token |-> k, list |-> Append(m_workMap[k], d)]]
  /\ added' = [added EXCEPT ![k] = Append(@, d)]
  /\ overlapped' = IF Adders(k) = {} THEN overlapped ELSE overlapped \cup {k}
  /\ UNCHANGED <<m_workMap, m_workQueue, access>>
AddDescriptorEnds(w) ==
  /\ adding[w] # NoAdd
  /\ m_workMap' = [m_workMap EXCEPT ![adding[w].token] = adding[w].list]
  /\ adding' = [adding EXCEPT ![w] = NoAdd]
  /\ UNCHANGED <<m_workQueue, access, added, overlapped>>

WorkNext == \E w \in Worker :
  \/ \E k \in Tokens : \/ SetWork(w, k) \/ SetWorkThrows(w, k) \/ GetWork(w, k) \/ GetWorkThrows(w, k)
                       \/ \E d \in Descriptor : AddDescriptor(w, k, d)
  \/ AddDescriptorEnds(w)

-----------------------------------------------------------------------------
\* Safety, work.cpp:64-79: the queue holds every token of the map once, in whatever order parts are
\* set, and whoever has an Access has it to a token of the map.
QueueMatchesMap ==
  /\ ToSet(m_workQueue) = Known /\ Len(m_workQueue) = Cardinality(Known)
  /\ \A w \in Worker : access[w] \subseteq Known

\* Safety, work.cpp:107: the list of a token has every descriptor, in the order of the calls, unless
\* two workers were in addDescriptor() for it at the same time.
DescriptorsKept ==
  \A k \in Known : k \notin overlapped /\ Adders(k) = {} => m_workMap[k] = added[k]
====
