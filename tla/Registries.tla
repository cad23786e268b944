---- MODULE Registries ----
\* Registry<WorkObject>: a map from names to objects that it owns by pointer (registry.h,
\* registry.cpp); other Types are not stopped by remove().  Its mutex makes each call one step.
EXTENDS Naturals, FiniteSets

CONSTANTS Entry,     \* the names
          Thing      \* the objects that may be registered

VARIABLES map,       \* the object of each name, Nothing when there is none
          thing,     \* each object: live, stopped or deleted
          aliased,   \* objects that were registered while they had a name
          registryFault

registryVars == <<map, thing, aliased, registryFault>>
Nothing == "nothing"

RegistryInit == /\ map = [n \in Entry |-> Nothing] /\ thing = [x \in Thing |-> "live"]
                /\ aliased = {} /\ registryFault = "none"

Named(x) == {n \in Entry : map[n] = x}

\* add(): insert() keeps the entry of a name that is taken.
Added(n, x) == IF map[n] = Nothing THEN [map EXCEPT ![n] = x] ELSE map
AddEntry(n, x) ==
  /\ registryFault = "none" /\ thing[x] # "deleted"
  /\ map' = Added(n, x)
  /\ aliased' = IF map'[n] = x /\ Named(x) \ {n} # {} THEN aliased \cup {x} ELSE aliased
  /\ UNCHANGED <<thing, registryFault>>

\* remove(): the object is deleted unless noDelete; a WorkObject is stopped first.
Kept(n) == map
Erased(n) == [map EXCEPT ![n] = Nothing]
RemoveEntry(n, noDelete) ==
  /\ registryFault = "none" /\ map[n] # Nothing
  /\ LET x == map[n]
     IN  IF thing[x] = "deleted"
           THEN registryFault' = "useAfterFree" /\ UNCHANGED <<map, thing>>
           ELSE /\ thing' = [thing EXCEPT ![x] = IF noDelete THEN "stopped" ELSE "deleted"]
                /\ map' = Erased(n)
                /\ registryFault' = "none"
  /\ aliased' = aliased
RemoveMissing(n) == map[n] = Nothing /\ UNCHANGED registryVars

\* removeAll(): the deletion is commented out.
RemoveAllEntries ==
  /\ registryFault = "none" /\ map' = [n \in Entry |-> Nothing]
  /\ UNCHANGED <<thing, aliased, registryFault>>

\* fromString(): dynamic_cast reads the object of the name, which is a fault if it was deleted.
FromString(n) == /\ registryFault = "none" /\ map[n] # Nothing
                 /\ registryFault' = IF thing[map[n]] = "deleted" THEN "useAfterFree" ELSE "none"
                 /\ UNCHANGED <<map, thing, aliased>>

RegistryNext == \/ \E n \in Entry : \/ \E x \in Thing : AddEntry(n, x)
                                    \/ \E noDelete \in BOOLEAN : RemoveEntry(n, noDelete)
                                    \/ RemoveMissing(n) \/ FromString(n)
                \/ RemoveAllEntries

-----------------------------------------------------------------------------
\* Safety, registry.h:58 and :71: what the map points to is deleted only if it had two names.
EntriesLive == \A n \in Entry : map[n] # Nothing /\ map[n] \notin aliased => thing[map[n]] # "deleted"

\* Action property, registry.h:76-80: what removeAll() takes out of the map it deletes.
RemoveAllDeletes ==
  [][RemoveAllEntries => \A n \in Entry : map[n] # Nothing => thing'[map[n]] = "deleted"]_registryVars
====
