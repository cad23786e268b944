---------------------------- MODULE StoreProofs -----------------------------
(* Theorems about the stores of a program and the accessor to its threads, each *)
(* for any finite or infinite sets of names, objects, paths, workers, arrays    *)
(* and threads.                                                                 *)
EXTENDS JsonConfigs, WorkStore, Registries, ByteArrays, Accessors, SequenceLemmas, FiniteSetTheorems

-----------------------------------------------------------------------------
(* The registry.                                                                *)

RegistryType == /\ map \in [Entry -> Thing \cup {Nothing}]
                /\ thing \in [Thing -> {"live", "stopped", "deleted"}]

\* An object that two names lead to is known as such.
AliasesKnown == \A n, m \in Entry : n # m /\ map[n] # Nothing /\ map[n] = map[m] => map[n] \in aliased

RegistryInv == RegistryType /\ AliasesKnown /\ EntriesLive

(* remove() deletes the object of one name: by AliasesKnown no other name leads *)
(* to it unless it is in aliased.                                               *)
LEMMA RegistryStep == RegistryInv /\ [RegistryNext]_registryVars => RegistryInv'
<1> SUFFICES ASSUME RegistryInv, [RegistryNext]_registryVars PROVE RegistryInv'
  OBVIOUS
<1> USE DEF RegistryInv, RegistryType, AliasesKnown, EntriesLive
<1>1. ASSUME NEW n \in Entry, NEW x \in Thing, AddEntry(n, x) PROVE RegistryInv'
  <2>1. /\ map' = Added(n, x) /\ thing[x] # "deleted" /\ thing' = thing
        /\ aliased' = IF map'[n] = x /\ Named(x) \ {n} # {} THEN aliased \cup {x} ELSE aliased
    BY <1>1 DEF AddEntry
  <2>2. CASE map[n] = Nothing
    <3>1. map' = [map EXCEPT ![n] = x]  BY <2>1, <2>2 DEF Added
    <3>2. RegistryType' /\ EntriesLive'  BY <2>1, <3>1
    <3>3. ASSUME NEW i \in Entry, NEW j \in Entry,
                 i # j, map'[i] # Nothing, map'[i] = map'[j]
          PROVE map'[i] \in aliased'
      <4>1. CASE i # n /\ j # n  BY <2>1, <3>1, <3>3, <4>1
      <4>2. CASE i = n \/ j = n
        <5>1. map'[i] = x /\ map'[n] = x  BY <3>1, <3>3, <4>2
        <5>2. \E m \in Named(x) : m # n  BY <3>1, <3>3, <4>2 DEF Named
        <5>3. QED  BY <2>1, <5>1, <5>2
      <4>3. QED  BY <4>1, <4>2
    <3>4. QED  BY <3>2, <3>3
  <2>3. CASE map[n] # Nothing
    BY <2>1, <2>3 DEF Added
  <2>4. QED  BY <2>2, <2>3
<1>2. ASSUME NEW n \in Entry, NEW noDelete \in BOOLEAN, RemoveEntry(n, noDelete) PROVE RegistryInv'
  <2>1. map[n] # Nothing /\ map[n] \in Thing /\ aliased' = aliased  BY <1>2 DEF RemoveEntry
  <2>2. CASE thing[map[n]] = "deleted"  BY <1>2, <2>1, <2>2 DEF RemoveEntry
  <2>3. CASE thing[map[n]] # "deleted"
    <3>1. /\ map' = [map EXCEPT ![n] = Nothing]
          /\ thing' = [thing EXCEPT ![map[n]] = IF noDelete THEN "stopped" ELSE "deleted"]
      BY <1>2, <2>3 DEF RemoveEntry, Erased
    <3>2. RegistryType'  BY <3>1
    <3>3. AliasesKnown'  BY <2>1, <3>1
    <3>4. ASSUME NEW i \in Entry, map'[i] # Nothing, map'[i] \notin aliased'
          PROVE thing'[map'[i]] # "deleted"
      <4>1. i # n /\ map'[i] = map[i]  BY <3>1, <3>4
      <4>2. map[i] # map[n]  BY <2>1, <3>4, <4>1
      <4>3. QED  BY <2>1, <3>1, <3>4, <4>1, <4>2
    <3>5. QED  BY <3>2, <3>3, <3>4
  <2>4. QED  BY <2>2, <2>3
<1>3. CASE RemoveAllEntries  BY <1>3 DEF RemoveAllEntries
<1>4. ASSUME NEW n \in Entry, RemoveMissing(n) \/ FromString(n) PROVE RegistryInv'
  BY <1>4 DEF RemoveMissing, FromString, registryVars
<1>5. CASE UNCHANGED registryVars  BY <1>5 DEF registryVars
<1>6. QED  BY <1>1, <1>2, <1>3, <1>4, <1>5 DEF RegistryNext

(* Safety, registry.h:58 and :71: for any names and objects, what the map of a  *)
(* Registry points to is deleted only if it was registered under two names.     *)
THEOREM RegisteredAreLive == RegistryInit /\ [][RegistryNext]_registryVars => []EntriesLive
<1>1. RegistryInit => RegistryInv
  BY DEF RegistryInit, RegistryInv, RegistryType, AliasesKnown, EntriesLive
<1>2. RegistryInv => EntriesLive  BY DEF RegistryInv
<1>3. QED  BY <1>1, <1>2, RegistryStep, PTL
-----------------------------------------------------------------------------
(* The cache of configurations.                                                 *)

File == [is : {"text", "bad", "absent"}, keys : Texts]
Config == [live : BOOLEAN, keys : Texts]

JsonType == /\ files \in [Path -> File]
            /\ configs \in Seq(Config)
            /\ Cached \subseteq Path
            /\ \A p \in Cached : s_jsons[p] \in 0..Len(configs)

JsonInv == JsonType /\ CacheIsLive

LEMMA NoKeysIsText == NoKeys \in Texts
<1>1. NoKeys \in [{} -> Value]  BY DEF NoKeys
<1>2. QED  BY <1>1 DEF Texts

LEMMA WithNewIsText ==
    ASSUME NEW keys \in Texts, NEW k \in Key, NEW v \in Value
    PROVE  WithNew(keys, k, v) \in Texts
<1>1. PICK ks \in SUBSET Key : keys \in [ks -> Value]  BY DEF Texts
<1>2. With(keys, k, v) \in [ks \cup {k} -> Value]  BY <1>1 DEF With
<1>3. ks \cup {k} \in SUBSET Key  OBVIOUS
<1>4. QED  BY <1>2, <1>3 DEF Texts, WithNew

LEMMA ConfigTyped ==
    ASSUME JsonInv, NEW c \in DOMAIN configs
    PROVE  configs[c] \in Config /\ configs[c].keys \in Texts
<1>1. configs[c] \in Config  BY DEF JsonInv, JsonType
<1>2. QED  BY <1>1 DEF Config

LEMMA ConfigUpdates ==
    ASSUME NEW r \in Config, NEW keys \in Texts
    PROVE  /\ [r EXCEPT !.live = FALSE] \in Config
           /\ [r EXCEPT !.keys = keys] \in Config
           /\ [r EXCEPT !.keys = keys].live = r.live
BY DEF Config

(* A configuration that is made is live, and is not in the cache.               *)
LEMMA MadeIsNew ==
    ASSUME JsonInv, NEW keys \in Texts, configs' = Made(keys)
    PROVE  /\ configs' \in Seq(Config) /\ Len(configs') = Len(configs) + 1
           /\ configs'[Len(configs) + 1].live
           /\ \A c \in DOMAIN configs : configs'[c] = configs[c]
BY DEF JsonInv, JsonType, Made, Config

(* Loading adds the configuration that it makes under one path.                 *)
LEMMA LoadsKeepsInv ==
    ASSUME JsonInv, NEW p \in Path, Loads(p), UNCHANGED files
    PROVE  JsonInv'
<1> USE DEF JsonInv, JsonType
<1>1. /\ configs' \in Seq(Config) /\ Len(configs') = Len(configs) + 1
      /\ configs'[Len(configs) + 1].live
      /\ \A c \in DOMAIN configs : configs'[c] = configs[c]
  <2>1. files[p].keys \in Texts  BY DEF File
  <2>2. configs' = Made(files[p].keys)  BY DEF Loads
  <2>3. QED  BY <2>1, <2>2, MadeIsNew
<1>2. /\ Cached' = Cached \cup {p} /\ p \notin Cached /\ s_jsons'[p] = Len(configs) + 1
      /\ \A q \in Cached : s_jsons'[q] = s_jsons[q]
  BY DEF Loads, Inserted, Cached
<1>3. JsonType'  BY <1>1, <1>2
<1>4. \A q \in Cached : s_jsons[q] # NoConfig => s_jsons[q] \in DOMAIN configs  BY DEF NoConfig
<1>5. CacheIsLive'  BY <1>1, <1>2, <1>4 DEF CacheIsLive
<1>6. QED  BY <1>3, <1>5

LEMMA KilledIsTyped ==
    ASSUME JsonInv, NEW cs
    PROVE  Killed(cs) \in Seq(Config)
<1>1. \A c \in DOMAIN configs : [configs[c] EXCEPT !.live = FALSE] \in Config
  BY ConfigTyped, ConfigUpdates, NoKeysIsText
<1>2. Len(configs) \in Nat /\ DOMAIN configs = 1..Len(configs)  BY DEF JsonInv, JsonType
<1>3. Killed(cs) \in [1..Len(configs) -> Config]
  BY <1>1, <1>2, ConfigTyped DEF Killed
<1>4. QED  BY <1>2, <1>3, IsASeq

(* reload() and the end of the program delete every cached configuration, and   *)
(* leave the cache empty.                                                       *)
LEMMA ClearedKeepsInv ==
    ASSUME JsonInv, NEW cs, configs' = Killed(cs), s_jsons' = Cleared, UNCHANGED files
    PROVE  JsonInv'
<1>1. Cached' = {}  BY DEF Cached, Cleared
<1>2. QED  BY <1>1, KilledIsTyped DEF JsonInv, JsonType, CacheIsLive

(* What a reload that stops has deleted has one path, whose entry is null now.  *)
LEMMA ReloadStopsKeepsInv ==
    ASSUME JsonInv, NEW done \in SUBSET Cached, UNCHANGED files,
           configs' = Killed({s_jsons[p] : p \in done} \ {NoConfig}),
           s_jsons' = [p \in Cached |-> IF p \in done THEN NoConfig ELSE s_jsons[p]]
    PROVE  JsonInv'
<1> DEFINE cs == {s_jsons[p] : p \in done} \ {NoConfig}
<1>1. configs' \in Seq(Config) /\ DOMAIN configs' = DOMAIN configs /\ Len(configs') = Len(configs)
  <2>1. configs' = Killed(cs)  OBVIOUS
  <2> HIDE DEF cs
  <2>2. configs' \in Seq(Config)  BY <2>1, KilledIsTyped
  <2>3. DOMAIN configs' = DOMAIN configs  BY <2>1 DEF Killed
  <2>4. configs \in Seq(Config)  BY DEF JsonInv, JsonType
  <2>5. QED  BY <2>2, <2>3, <2>4
<1>2. Cached' = Cached /\ \A p \in Cached : s_jsons'[p] = IF p \in done THEN NoConfig ELSE s_jsons[p]
  BY DEF Cached
<1>3. JsonType'
  <2>1. \A p \in Cached : s_jsons[p] \in 0..Len(configs)  BY DEF JsonInv, JsonType
  <2>2. Len(configs) \in Nat  BY DEF JsonInv, JsonType
  <2>3. \A p \in Cached : s_jsons'[p] \in 0..Len(configs)  BY <1>2, <2>1, <2>2 DEF NoConfig
  <2>4. files' \in [Path -> File] /\ Cached' \subseteq Path  BY <1>2 DEF JsonInv, JsonType
  <2>5. QED  BY <1>1, <1>2, <2>3, <2>4 DEF JsonType
<1>4. ASSUME NEW p \in Cached, s_jsons'[p] # NoConfig PROVE configs'[s_jsons'[p]].live
  <2>1. p \notin done /\ s_jsons'[p] = s_jsons[p]  BY <1>2, <1>4
  <2>2. s_jsons[p] \notin cs  BY <1>4, <2>1 DEF JsonInv, CacheIsLive
  <2>3. s_jsons[p] \in DOMAIN configs  BY <1>4, <2>1 DEF JsonInv, JsonType, NoConfig
  <2>4. configs'[s_jsons[p]] = configs[s_jsons[p]]  BY <2>2, <2>3 DEF Killed
  <2>5. QED  BY <1>4, <2>1, <2>4 DEF JsonInv, CacheIsLive
<1>5. CacheIsLive'  BY <1>2, <1>4 DEF JsonInv, CacheIsLive
<1>6. QED  BY <1>3, <1>5 DEF JsonInv

(* Its keys may change, but a configuration is deleted by nobody else.          *)
LEMMA UsesKeepsInv ==
    ASSUME JsonInv, NEW c \in DOMAIN configs, NEW keys \in Texts, Uses(c, keys)
    PROVE  JsonInv'
<1> USE DEF JsonInv, JsonType
<1>1. CASE configs' = configs
  BY <1>1 DEF Uses, CacheIsLive, Cached
<1>2. CASE configs' = [configs EXCEPT ![c].keys = keys]
  <2>1. /\ configs' \in Seq(Config) /\ Len(configs') = Len(configs)
        /\ \A d \in DOMAIN configs : configs'[d].live = configs[d].live
    <3> DEFINE new == [configs[c] EXCEPT !.keys = keys]
    <3>1. new \in Config /\ new.live = configs[c].live  BY ConfigTyped, ConfigUpdates
    <3>2. configs' = [configs EXCEPT ![c] = new]  BY <1>2
    <3> HIDE DEF new
    <3>3. QED  BY <3>1, <3>2
  <2>2. UNCHANGED <<s_jsons, files>>  BY DEF Uses
  <2>3. \A q \in Cached : s_jsons[q] # NoConfig => s_jsons[q] \in DOMAIN configs  BY DEF NoConfig
  <2>4. QED  BY <2>1, <2>2, <2>3 DEF CacheIsLive, Cached
<1>3. QED  BY <1>1, <1>2 DEF Uses

LEMMA JsonStep == JsonInv /\ [JsonNext]_jsonVars => JsonInv'
<1> SUFFICES ASSUME JsonInv, [JsonNext]_jsonVars PROVE JsonInv'
  OBVIOUS
<1> USE DEF JsonInv, JsonType
<1>1. ASSUME NEW p \in Path, FromFile(p) PROVE JsonInv'
  <2>1. CASE Loads(p)  BY <1>1, <2>1, LoadsKeepsInv DEF FromFile
  <2>2. CASE Finds(p)  BY <1>1, <2>2 DEF FromFile, Finds, CacheIsLive, Cached
  <2>3. QED  BY <1>1, <2>1, <2>2 DEF FromFile
<1>2. ASSUME NEW p \in Path, ReloadNext(p) PROVE JsonInv'
  <2>1. CASE Loads(p)  BY <1>2, <2>1, LoadsKeepsInv DEF ReloadNext
  <2>2. CASE NullCached(p)
    <3>1. /\ Cached' = Cached \cup {p} /\ (p \in Cached => s_jsons'[p] = s_jsons[p])
          /\ (p \notin Cached => s_jsons'[p] = NoConfig)
          /\ \A q \in Cached : s_jsons'[q] = s_jsons[q]
      BY <2>2 DEF NullCached, Inserted, Cached
    <3>2. UNCHANGED <<configs, files>>  BY <1>2, <2>2 DEF ReloadNext, NullCached
    <3>3. QED  BY <3>1, <3>2 DEF CacheIsLive, NoConfig
  <2>3. QED  BY <1>2, <2>1, <2>2 DEF ReloadNext
<1>3. ASSUME NEW keys \in Texts, FromJson(keys) PROVE JsonInv'
  <2>1. /\ configs' \in Seq(Config) /\ Len(configs') = Len(configs) + 1
        /\ \A c \in DOMAIN configs : configs'[c] = configs[c]
    BY <1>3, MadeIsNew DEF FromJson
  <2>2. UNCHANGED <<files, s_jsons>>  BY <1>3 DEF FromJson
  <2>3. \A q \in Cached : s_jsons[q] # NoConfig => s_jsons[q] \in DOMAIN configs  BY DEF NoConfig
  <2>4. QED  BY <2>1, <2>2, <2>3 DEF CacheIsLive, Cached
<1>4. ASSUME NEW list \in SUBSET Path, Reload(list) PROVE JsonInv'
  BY <1>4, ClearedKeepsInv DEF Reload
<1>5. CASE Exit  BY <1>5, ClearedKeepsInv DEF Exit
<1>6. ASSUME NEW c \in DOMAIN configs, NEW k \in Key, NEW v \in Value,
             SetKey(c, k, v) \/ SetDefaultValue(c, k, v)
      PROVE  JsonInv'
  <2>1. configs[c].keys \in Texts  BY ConfigTyped
  <2>2. WithNew(configs[c].keys, k, v) \in Texts  BY <2>1, WithNewIsText
  <2>3. QED  BY <1>6, <2>1, <2>2, UsesKeepsInv DEF SetKey, SetDefaultValue
<1>7. ASSUME NEW c \in DOMAIN configs, GetKey(c) PROVE JsonInv'
  <2>1. configs[c].keys \in Texts  BY ConfigTyped
  <2>2. QED  BY <1>7, <2>1, UsesKeepsInv DEF GetKey
<1>8. ASSUME NEW c \in DOMAIN configs, NEW p \in Path, Save(c, p) PROVE JsonInv'
  <2>1. Text(configs[c].keys) \in File  BY ConfigTyped DEF Text, File
  <2>2. files' \in [Path -> File]  BY <1>8, <2>1 DEF Save
  <2>3. QED  BY <1>8, <2>2 DEF Save, CacheIsLive, Cached
<1>9. CASE FilesChange
  <2>1. Absent \in File /\ Bad \in File  BY NoKeysIsText DEF Absent, Bad, File
  <2>2. files' \in [Path -> File]  BY <1>9, <2>1 DEF FilesChange
  <2>3. QED  BY <1>9, <2>2 DEF FilesChange, CacheIsLive, Cached
<1>10. ASSUME NEW p \in Path, ReloadThrows(p) PROVE JsonInv'
  BY <1>10 DEF ReloadThrows, CacheIsLive, Cached
<1>11. CASE ReloadStops  BY <1>11, ReloadStopsKeepsInv DEF ReloadStops
<1>12. CASE UNCHANGED jsonVars  BY <1>12 DEF jsonVars, CacheIsLive, Cached
<1>13. QED
  BY <1>1, <1>2, <1>3, <1>4, <1>5, <1>6, <1>7, <1>8, <1>9, <1>10, <1>11, <1>12 DEF JsonNext

(* Safety, jsonconfig.cpp:76-90: for any paths, texts and number of reloads,    *)
(* the cache leads to live configurations only, each under one path.            *)
THEOREM CachedAreLive == JsonInit /\ [][JsonNext]_jsonVars => []CacheIsLive
<1>1. JsonInit => JsonInv
  <2> SUFFICES ASSUME JsonInit PROVE JsonInv
    OBVIOUS
  <2>1. Absent \in File /\ Bad \in File /\ Text(NoKeys) \in File
    BY NoKeysIsText DEF Absent, Bad, Text, File
  <2>2. Cached = {}  BY DEF JsonInit, Cached
  <2>3. QED  BY <2>1, <2>2 DEF JsonInit, JsonInv, JsonType, CacheIsLive
<1>2. JsonInv => CacheIsLive  BY DEF JsonInv
<1>3. QED  BY <1>1, <1>2, JsonStep, PTL
-----------------------------------------------------------------------------
(* The store of work.                                                           *)

WorkType == /\ m_workQueue \in Seq(Tokens) /\ Known \subseteq Tokens /\ IsFiniteSet(Known)
            /\ access \in [Worker -> SUBSET Tokens]
            /\ adding = [w \in Worker |-> adding[w]]
            /\ added \in [Tokens -> Seq(Descriptor)] /\ overlapped \subseteq Tokens

QueueInv == WorkType /\ QueueMatchesMap

\* Whoever is alone in addDescriptor() for a token has the list of all the calls, the last included.
ListsInv ==
  /\ \A w \in Worker : adding[w] # NoAdd => adding[w].token \in Known
  /\ \A w \in Worker : adding[w] # NoAdd /\ adding[w].token \notin overlapped =>
       /\ adding[w].list = added[adding[w].token]
       /\ \A v \in Adders(adding[w].token) : v = w
  /\ \A k \in Tokens \ Known : added[k] = <<>>
  /\ DescriptorsKept

LEMMA NoAddIsNoRecord == ASSUME NEW k, NEW list PROVE [token |-> k, list |-> list] # NoAdd
<1>1. "token" \in DOMAIN [token |-> k, list |-> list]  OBVIOUS
<1>2. DOMAIN NoAdd = {}  BY DEF NoAdd
<1>3. QED  BY <1>1, <1>2

LEMMA ToSetOfAppend ==
    ASSUME NEW S, NEW s \in Seq(S), NEW e \in S
    PROVE  ToSet(Append(s, e)) = ToSet(s) \cup {e}
<1> DEFINE t == Append(s, e)
<1>1. /\ Len(t) = Len(s) + 1 /\ t[Len(s) + 1] = e /\ \A i \in 1..Len(s) : t[i] = s[i]
      /\ DOMAIN t = 1..(Len(s) + 1) /\ DOMAIN s = 1..Len(s) /\ Len(s) \in Nat
  OBVIOUS
<1> HIDE DEF t
<1>2. 1..(Len(s) + 1) = 1..Len(s) \cup {Len(s) + 1}  BY <1>1
<1>3. QED  BY <1>1, <1>2 DEF ToSet, t

(* A token is put at the end of the queue once, when it enters the map.         *)
LEMMA SetWorkKeepsQueue ==
    ASSUME QueueInv, NEW w \in Worker, NEW k \in Tokens, SetWork(w, k)
    PROVE  QueueInv'
<1> USE DEF QueueInv, WorkType
<1>1. /\ k \notin Known /\ Known' = Known \cup {k} /\ m_workQueue' = Append(m_workQueue, k)
      /\ access' = [access EXCEPT ![w] = @ \cup {k}] /\ UNCHANGED <<adding, added, overlapped>>
  BY DEF SetWork, Unknown, Known
<1>2. WorkType'  BY <1>1, FS_AddElement
<1>3. ToSet(m_workQueue') = Known'
  <2>1. ToSet(m_workQueue) = Known  BY DEF QueueMatchesMap
  <2>2. ToSet(Append(m_workQueue, k)) = ToSet(m_workQueue) \cup {k}  BY ToSetOfAppend
  <2>3. QED  BY <1>1, <2>1, <2>2
<1>4. Len(m_workQueue') = Cardinality(Known')
  <2>1. Cardinality(Known') = Cardinality(Known) + 1  BY <1>1, FS_AddElement
  <2>2. QED  BY <1>1, <2>1 DEF QueueMatchesMap
<1>5. \A v \in Worker : access'[v] \subseteq Known'  BY <1>1 DEF QueueMatchesMap
<1>6. QED  BY <1>2, <1>3, <1>4, <1>5 DEF QueueMatchesMap

LEMMA SetWorkKeepsLists ==
    ASSUME QueueInv, ListsInv, NEW w \in Worker, NEW k \in Tokens, SetWork(w, k)
    PROVE  ListsInv'
<1>1. /\ k \notin Known /\ Known' = Known \cup {k} /\ UNCHANGED <<adding, added, overlapped>>
      /\ m_workMap'[k] = <<>> /\ \A j \in Known : m_workMap'[j] = m_workMap[j]
  BY DEF SetWork, Unknown, Known
<1>2. added[k] = <<>>  BY <1>1 DEF ListsInv
<1>3. QED  BY <1>1, <1>2 DEF ListsInv, DescriptorsKept, Adders

(* Alone for its token, the list is that of the map, and the descriptor is put  *)
(* after those of the earlier calls; with another, the token is overlapped.     *)
LEMMA AddDescriptorKeepsLists ==
    ASSUME QueueInv, ListsInv, NEW w \in Worker, NEW k \in Tokens, NEW d \in Descriptor,
           AddDescriptor(w, k, d)
    PROVE  ListsInv'
<1> DEFINE new == [token |-> k, list |-> Append(m_workMap[k], d)]
<1> USE DEF QueueInv, WorkType
<1>1. /\ adding[w] = NoAdd /\ k \in Known /\ adding' = [adding EXCEPT ![w] = new]
      /\ added' = [added EXCEPT ![k] = Append(@, d)] /\ UNCHANGED m_workMap
      /\ overlapped' = IF Adders(k) = {} THEN overlapped ELSE overlapped \cup {k}
  BY DEF AddDescriptor, QueueMatchesMap
<1>2. new # NoAdd /\ new.token = k /\ new.list = Append(m_workMap[k], d)  BY NoAddIsNoRecord
<1>3. Known' = Known  BY <1>1 DEF Known
<1> HIDE DEF new
<1>4. \A j \in Tokens : Adders(j)' = IF j = k THEN Adders(k) \cup {w} ELSE Adders(j)
  BY <1>1, <1>2 DEF Adders
<1>5. CASE k \notin overlapped'
  <2>1. Adders(k) = {} /\ k \notin overlapped  BY <1>1, <1>5
  <2>2. new.list = added'[k]  BY <1>1, <1>2, <2>1 DEF ListsInv, DescriptorsKept
  <2>3. ASSUME NEW v \in Worker, adding'[v] # NoAdd, adding'[v].token \notin overlapped'
        PROVE  /\ adding'[v].list = added'[adding'[v].token]
               /\ \A u \in Adders(adding[v].token)' : u = v
    <3>1. CASE v = w  BY <1>1, <1>2, <1>4, <2>1, <2>2, <3>1
    <3>2. CASE v # w
      <4>1. adding'[v] = adding[v] /\ adding[v].token # k  BY <1>1, <2>1, <2>3, <3>2 DEF Adders
      <4>2. adding[v].token \in Tokens /\ adding[v].token \notin overlapped
        BY <1>1, <2>1, <2>3, <4>1 DEF ListsInv
      <4>3. QED  BY <1>1, <1>4, <2>3, <4>1, <4>2 DEF ListsInv
    <3>3. QED  BY <3>1, <3>2
  <2>4. DescriptorsKept'
    BY <1>1, <1>3, <1>4, <2>1 DEF ListsInv, DescriptorsKept
  <2>5. QED  BY <1>1, <1>2, <1>3, <2>3, <2>4 DEF ListsInv
<1>6. CASE k \in overlapped'
  <2>1. ASSUME NEW v \in Worker, adding'[v] # NoAdd, adding'[v].token \notin overlapped'
        PROVE  /\ adding'[v].list = added'[adding'[v].token]
               /\ \A u \in Adders(adding[v].token)' : u = v
    <3>1. v # w /\ adding'[v] = adding[v] /\ adding[v].token # k  BY <1>1, <1>2, <1>6, <2>1
    <3>2. adding[v].token \in Tokens /\ adding[v].token \notin overlapped
      BY <1>1, <2>1, <3>1 DEF ListsInv
    <3>3. QED  BY <1>1, <1>4, <2>1, <3>1, <3>2 DEF ListsInv
  <2>2. DescriptorsKept'
    BY <1>1, <1>3, <1>4, <1>6 DEF ListsInv, DescriptorsKept
  <2>3. QED  BY <1>1, <1>2, <1>3, <2>1, <2>2 DEF ListsInv
<1>7. QED  BY <1>5, <1>6

LEMMA AddDescriptorEndsKeepsLists ==
    ASSUME QueueInv, ListsInv, NEW w \in Worker, AddDescriptorEnds(w)
    PROVE  ListsInv'
<1> DEFINE k == adding[w].token
<1> USE DEF QueueInv, WorkType
<1>1. /\ adding[w] # NoAdd /\ k \in Known /\ adding' = [adding EXCEPT ![w] = NoAdd]
      /\ UNCHANGED <<added, overlapped>>
      /\ Known' = Known /\ m_workMap'[k] = adding[w].list
      /\ \A j \in Known : j # k => m_workMap'[j] = m_workMap[j]
  BY DEF AddDescriptorEnds, ListsInv, Known
<1>2. k \notin overlapped => m_workMap'[k] = added[k]  BY <1>1 DEF ListsInv
<1>3. \A j \in Tokens : Adders(j)' = Adders(j) \ {w} /\ (j # k => w \notin Adders(j))
  BY <1>1 DEF Adders
<1> HIDE DEF k
<1>4. DescriptorsKept'
  <2> SUFFICES ASSUME NEW j \in Known, j \notin overlapped, Adders(j)' = {}
               PROVE  m_workMap'[j] = added[j]
    BY <1>1 DEF DescriptorsKept
  <2>1. CASE j = k  BY <1>2, <2>1
  <2>2. CASE j # k  BY <1>1, <1>3, <2>2 DEF ListsInv, DescriptorsKept
  <2>3. QED  BY <2>1, <2>2
<1>5. ASSUME NEW v \in Worker, adding'[v] # NoAdd
      PROVE  v # w /\ adding'[v] = adding[v] /\ adding[v].token \in Tokens
  BY <1>1, <1>5 DEF ListsInv
<1>6. ASSUME NEW v \in Worker, adding'[v] # NoAdd, adding'[v].token \notin overlapped'
      PROVE  /\ adding'[v].list = added'[adding'[v].token]
             /\ \A u \in Adders(adding[v].token)' : u = v
  <2>1. v # w /\ adding'[v] = adding[v] /\ adding[v].token \in Tokens  BY <1>5, <1>6
  <2>2. adding[v] # NoAdd /\ adding[v].token \notin overlapped  BY <1>1, <1>6, <2>1
  <2>3. /\ adding[v].list = added[adding[v].token]
        /\ \A u \in Adders(adding[v].token) : u = v
    BY <2>2 DEF ListsInv
  <2>4. \A u \in Adders(adding[v].token)' : u \in Adders(adding[v].token)
    BY <1>3, <2>1
  <2>5. QED  BY <1>1, <2>1, <2>3, <2>4
<1>7. \A v \in Worker : adding'[v] # NoAdd => adding'[v].token \in Known'
  BY <1>1, <1>5 DEF ListsInv
<1>8. \A j \in Tokens \ Known' : added'[j] = <<>>  BY <1>1 DEF ListsInv
<1>9. QED  BY <1>4, <1>6, <1>7, <1>8 DEF ListsInv

LEMMA WorkStep == QueueInv /\ ListsInv /\ [WorkNext]_storeVars => QueueInv' /\ ListsInv'
<1> SUFFICES ASSUME QueueInv, ListsInv, [WorkNext]_storeVars PROVE QueueInv' /\ ListsInv'
  OBVIOUS
<1>1. ASSUME NEW w \in Worker, NEW k \in Tokens, SetWork(w, k)
      PROVE  QueueInv' /\ ListsInv'
  BY <1>1, SetWorkKeepsQueue, SetWorkKeepsLists
<1>2. ASSUME NEW w \in Worker, NEW k \in Tokens, GetWork(w, k)
      PROVE  QueueInv' /\ ListsInv'
  <2>1. /\ k \in Known /\ access' = [access EXCEPT ![w] = @ \cup {k}]
        /\ UNCHANGED <<m_workMap, m_workQueue, adding, added, overlapped>>
    BY <1>2 DEF GetWork
  <2>2. QueueInv'  BY <2>1 DEF QueueInv, WorkType, QueueMatchesMap, Known
  <2>3. ListsInv'  BY <2>1 DEF ListsInv, DescriptorsKept, Adders, Known
  <2>4. QED  BY <2>2, <2>3
<1>3. ASSUME NEW w \in Worker, NEW k \in Tokens, NEW d \in Descriptor, AddDescriptor(w, k, d)
      PROVE  QueueInv' /\ ListsInv'
  <2>1. QueueInv'
    <3>1. /\ adding' = [v \in Worker |-> adding'[v]] /\ Known' = Known
          /\ added' = [added EXCEPT ![k] = Append(@, d)]
          /\ overlapped' \subseteq overlapped \cup {k}
          /\ UNCHANGED <<m_workQueue, access>>
      BY <1>3 DEF AddDescriptor, QueueInv, WorkType, Known
    <3>2. QED  BY <3>1 DEF QueueInv, WorkType, QueueMatchesMap
  <2>2. QED  BY <1>3, <2>1, AddDescriptorKeepsLists
<1>4. ASSUME NEW w \in Worker, AddDescriptorEnds(w) PROVE QueueInv' /\ ListsInv'
  <2>1. QueueInv'
    <3>1. /\ adding' = [adding EXCEPT ![w] = NoAdd] /\ Known' = Known
          /\ UNCHANGED <<m_workQueue, access, added, overlapped>>
      BY <1>4 DEF AddDescriptorEnds, Known
    <3>2. QED  BY <3>1 DEF QueueInv, WorkType, QueueMatchesMap
  <2>2. QED  BY <1>4, <2>1, AddDescriptorEndsKeepsLists
<1>5. CASE UNCHANGED storeVars
  <2>1. QueueInv'
    BY <1>5 DEF storeVars, QueueInv, WorkType, QueueMatchesMap, Known
  <2>2. ListsInv'  BY <1>5 DEF storeVars, ListsInv, DescriptorsKept, Adders, Known
  <2>3. QED  BY <2>1, <2>2
<1>6. QED
  BY <1>1, <1>2, <1>3, <1>4, <1>5 DEF WorkNext, SetWorkThrows, GetWorkThrows

LEMMA WorkStart == WorkInit => QueueInv /\ ListsInv
<1> SUFFICES ASSUME WorkInit PROVE QueueInv /\ ListsInv
  OBVIOUS
<1>1. Known = {}  BY DEF WorkInit, Known
<1>2. QueueInv
  <2>1. ToSet(m_workQueue) = {} /\ Len(m_workQueue) = 0  BY DEF WorkInit, ToSet
  <2>2. QED
    BY <1>1, <2>1, FS_EmptySet DEF WorkInit, QueueInv, WorkType, QueueMatchesMap
<1>3. ListsInv  BY <1>1 DEF WorkInit, ListsInv, DescriptorsKept, Adders
<1>4. QED  BY <1>2, <1>3

(* Safety, work.cpp:64-79: for any targets, workers and parts, set in any       *)
(* order, the queue holds every token of the map once, and an Access is to one. *)
THEOREM QueueHoldsTheMap == WorkInit /\ [][WorkNext]_storeVars => []QueueMatchesMap
<1>1. QueueInv => QueueMatchesMap  BY DEF QueueInv
<1>2. QED  BY <1>1, WorkStart, WorkStep, PTL

(* Safety, work.cpp:107: for any number of workers and of calls, a list lacks   *)
(* no descriptor unless two workers were in addDescriptor() for it at a time.   *)
THEOREM ListsAreWhole == WorkInit /\ [][WorkNext]_storeVars => []DescriptorsKept
<1>1. ListsInv => DescriptorsKept  BY DEF ListsInv
<1>2. QED  BY <1>1, WorkStart, WorkStep, PTL

-----------------------------------------------------------------------------
(* Byte arrays.                                                                 *)

Arr == [born : BOOLEAN, m_data : Nat, m_length : Nat, m_destroy : BOOLEAN]
Mem == [size : Nat, nul : BOOLEAN, free : BOOLEAN]

BytesType == /\ arrays \in [Array -> Arr] /\ memory \in Seq(Mem)
             /\ released \subseteq DOMAIN memory

\* An array that was made and not destroyed owns a block, or nothing.
OwnersWork == \A a \in Array : arrays[a].m_destroy => arrays[a].born /\ arrays[a].m_data \in DOMAIN memory

\* MemoryHasOneOwner without the names of the sets of owners.
Owns(a, b) == arrays[a].m_destroy /\ arrays[a].m_data = b
OneOwner ==
  \A b \in DOMAIN memory :
    /\ \A a, c \in Array : Owns(a, b) /\ Owns(c, b) => a = c
    /\ \A a \in Array : Owns(a, b) =>
         b \notin released /\ ~memory[b].free /\ arrays[a].m_length <= memory[b].size
    /\ b \in released => ~memory[b].free
    /\ (\A a \in Array : ~Owns(a, b)) /\ b \notin released => memory[b].free

BytesInv == BytesType /\ OwnersWork /\ OneOwner

\* It is kept by every step but those that recurse.
Owned == byteFault # "recursion" => BytesInv

LEMMA OneOwnerSuffices == Owned => MemoryHasOneOwner
BY DEF Owned, BytesInv, OneOwner, MemoryHasOneOwner, Owns

LEMMA ArrayUpdates ==
    ASSUME NEW x \in Arr, NEW n \in Nat
    PROVE  /\ Disowned(x) \in Arr /\ Disowned(x).born = x.born /\ ~Disowned(x).m_destroy
           /\ [x EXCEPT !.m_length = n] \in Arr
           /\ [x EXCEPT !.m_length = n].m_length = n
           /\ [x EXCEPT !.m_length = n].born = x.born
           /\ [x EXCEPT !.m_length = n].m_data = x.m_data
           /\ [x EXCEPT !.m_length = n].m_destroy = x.m_destroy
BY DEF Arr, Disowned

LEMMA AppendedArray ==
    ASSUME NEW x \in Arr, NEW n \in Nat, Len(memory) \in Nat
    PROVE  /\ Appended(x, n) \in Arr /\ Appended(x, n).born = x.born
           /\ Appended(x, n).m_data = Len(memory) + 1
           /\ Appended(x, n).m_length = x.m_length + n /\ Appended(x, n).m_destroy
BY DEF Appended, Arr

LEMMA BlockUpdates ==
    ASSUME NEW r \in Mem
    PROVE  /\ [r EXCEPT !.free = TRUE] \in Mem /\ [r EXCEPT !.free = TRUE].free
           /\ [r EXCEPT !.nul = TRUE] \in Mem
           /\ [r EXCEPT !.nul = TRUE].free = r.free /\ [r EXCEPT !.nul = TRUE].size = r.size
BY DEF Mem

LEMMA EmptyIsArr ==
    /\ Empty \in Arr /\ ~Empty.m_destroy /\ Empty.m_data = 0 /\ Empty.m_length = 0 /\ Empty.born
    /\ Unborn \in Arr /\ ~Unborn.m_destroy
BY DEF Empty, Unborn, Null0, Arr

LEMMA UpdatedSeq ==
    ASSUME NEW S, NEW s \in Seq(S), NEW i \in DOMAIN s, NEW e \in S
    PROVE  /\ [s EXCEPT ![i] = e] \in Seq(S) /\ DOMAIN [s EXCEPT ![i] = e] = DOMAIN s
           /\ \A j \in DOMAIN s : [s EXCEPT ![i] = e][j] = IF j = i THEN e ELSE s[j]
OBVIOUS

(* Freeing one block, or a NUL in it, leaves the others as they are.            *)
FreedAt(b) == [memory EXCEPT ![b].free = TRUE]
NulAt(b) == [memory EXCEPT ![b].nul = TRUE]
LEMMA FreedBlock ==
    ASSUME BytesType, NEW b \in DOMAIN memory
    PROVE  /\ FreedAt(b) \in Seq(Mem) /\ DOMAIN FreedAt(b) = DOMAIN memory /\ FreedAt(b)[b].free
           /\ \A c \in DOMAIN memory : c # b => FreedAt(b)[c] = memory[c]
<1> DEFINE r == [memory[b] EXCEPT !.free = TRUE]
<1>1. memory[b] \in Mem /\ memory \in Seq(Mem)  BY DEF BytesType
<1>2. r \in Mem /\ r.free  BY <1>1, BlockUpdates
<1>3. FreedAt(b) = [memory EXCEPT ![b] = r]  BY DEF FreedAt
<1> HIDE DEF r
<1>4. QED  BY <1>1, <1>2, <1>3, UpdatedSeq

LEMMA NulBlock ==
    ASSUME BytesType, NEW b \in DOMAIN memory
    PROVE  /\ NulAt(b) \in Seq(Mem) /\ DOMAIN NulAt(b) = DOMAIN memory
           /\ \A c \in DOMAIN memory : /\ NulAt(b)[c].free = memory[c].free
                                       /\ NulAt(b)[c].size = memory[c].size
<1> DEFINE r == [memory[b] EXCEPT !.nul = TRUE]
<1>1. memory[b] \in Mem /\ memory \in Seq(Mem)  BY DEF BytesType
<1>2. r \in Mem /\ r.free = memory[b].free /\ r.size = memory[b].size  BY <1>1, BlockUpdates
<1>3. NulAt(b) = [memory EXCEPT ![b] = r]  BY DEF NulAt
<1> HIDE DEF r
<1>4. QED  BY <1>1, <1>2, <1>3, UpdatedSeq

(* After append() the memory of before is freed, if the array owned it, and a   *)
(* new block has the room for all.                                              *)
LEMMA AppendedMemory ==
    ASSUME BytesType, NEW x \in Arr, NEW n \in Nat, NEW nul, Malloced(x.m_length + n, nul) \in Mem
    PROVE  /\ MemoryAfter(x, n, nul) \in Seq(Mem)
           /\ DOMAIN MemoryAfter(x, n, nul) = DOMAIN memory \cup {Len(memory) + 1}
           /\ Len(memory) + 1 \notin DOMAIN memory
           /\ MemoryAfter(x, n, nul)[Len(memory) + 1] = Malloced(x.m_length + n, nul)
           /\ x.m_data \in DOMAIN memory => MemoryAfter(x, n, nul)[x.m_data].free
           /\ \A c \in DOMAIN memory : c # x.m_data => MemoryAfter(x, n, nul)[c] = memory[c]
<1> DEFINE old == [b \in DOMAIN memory |->
                     IF b = x.m_data THEN [memory[b] EXCEPT !.free = TRUE] ELSE memory[b]]
           new == Malloced(x.m_length + n, nul)
<1>1. new \in Mem  OBVIOUS
<1>2. \A b \in DOMAIN memory : memory[b] \in Mem  BY DEF BytesType
<1>3. /\ \A b \in DOMAIN memory : old[b] \in Mem /\ (b # x.m_data => old[b] = memory[b])
      /\ x.m_data \in DOMAIN memory => old[x.m_data].free
  BY <1>2, BlockUpdates
<1>4. Len(memory) \in Nat /\ DOMAIN memory = 1..Len(memory)  BY DEF BytesType
<1>5. old \in [1..Len(memory) -> Mem]  BY <1>3, <1>4
<1>6. old \in Seq(Mem) /\ Len(old) = Len(memory)  BY <1>4, <1>5, IsASeq
<1>7. MemoryAfter(x, n, nul) = Append(old, new) /\ new = Malloced(x.m_length + n, nul)  BY DEF MemoryAfter
<1> HIDE DEF old, new
<1>8. QED  BY <1>1, <1>3, <1>4, <1>6, <1>7

LEMMA AppendsKeepsInv ==
    ASSUME BytesInv, NEW a \in Array, NEW x \in Arr, NEW n \in Nat, NEW nul \in BOOLEAN,
           Appends(a, x, n, nul), x.born,
           x = arrays[a] \/ (x = Empty /\ ~arrays[a].m_destroy)
    PROVE  BytesInv'
<1>0. BytesType  BY DEF BytesInv
<1> USE DEF BytesInv, BytesType
<1>1. CASE arrays' = [arrays EXCEPT ![a] = x] /\ UNCHANGED <<memory, released>>
  <2>1. arrays[a].m_destroy => x = arrays[a]  BY EmptyIsArr
  <2>2. x.m_destroy => x = arrays[a]  BY EmptyIsArr
  <2>3. QED  BY <1>1, <2>1, <2>2 DEF OwnersWork, OneOwner, Owns
<1>2. CASE /\ x.m_destroy \/ x.m_data = 0
           /\ arrays' = [arrays EXCEPT ![a] = Appended(x, n)]
           /\ memory' = MemoryAfter(x, n, nul) /\ UNCHANGED released
  <2> DEFINE b == Len(memory) + 1
             y == Appended(x, n)
  <2>1. y \in Arr /\ y.born /\ y.m_data = b /\ y.m_length = x.m_length + n /\ y.m_destroy
    <3>1. Len(memory) \in Nat  OBVIOUS
    <3>2. QED  BY <3>1, AppendedArray
  <2>2. /\ memory' \in Seq(Mem) /\ DOMAIN memory' = DOMAIN memory \cup {b} /\ b \notin DOMAIN memory
        /\ memory'[b].size = x.m_length + n /\ ~memory'[b].free
        /\ x.m_data \in DOMAIN memory => memory'[x.m_data].free
        /\ \A c \in DOMAIN memory : c # x.m_data => memory'[c] = memory[c]
    <3> HIDE DEF BytesType, BytesInv
    <3>1. memory' = MemoryAfter(x, n, nul)  BY <1>2
    <3> DEFINE m == MemoryAfter(x, n, nul)
    <3>0. Malloced(x.m_length + n, nul).size = x.m_length + n /\ ~Malloced(x.m_length + n, nul).free
      BY DEF Malloced
    <3>2. /\ m \in Seq(Mem) /\ DOMAIN m = DOMAIN memory \cup {b} /\ b \notin DOMAIN memory
          /\ m[b].size = x.m_length + n /\ ~m[b].free
          /\ x.m_data \in DOMAIN memory => m[x.m_data].free
          /\ \A c \in DOMAIN memory : c # x.m_data => m[c] = memory[c]
      <4>1. Malloced(x.m_length + n, nul) \in Mem  BY DEF Malloced, Mem, Arr
      <4>2. QED  BY <1>0, <3>0, <4>1, AppendedMemory
    <3> HIDE DEF m, b
    <3>3. QED  BY <3>1, <3>2 DEF m
  <2>3. arrays' = [arrays EXCEPT ![a] = y]  BY <1>2
  <2> HIDE DEF b, y
  <2>4. BytesType' /\ OwnersWork'  BY <1>2, <2>1, <2>2, <2>3 DEF OwnersWork
  <2>5. x.m_data \in DOMAIN memory => Owns(a, x.m_data)
    <3>1. 0 \notin DOMAIN memory  OBVIOUS
    <3>2. QED  BY <1>2, <3>1, EmptyIsArr DEF Owns
  <2>6. \A c \in Array \ {a} : arrays'[c] = arrays[c] /\ ~(arrays[c].m_destroy /\ arrays[c].m_data = b)
    BY <2>2, <2>3 DEF OwnersWork
  <2>7. ASSUME NEW d \in DOMAIN memory'
        PROVE  /\ \A e, c \in Array : Owns(e, d)' /\ Owns(c, d)' => e = c
               /\ \A e \in Array : Owns(e, d)' =>
                    d \notin released' /\ ~memory'[d].free /\ arrays'[e].m_length <= memory'[d].size
               /\ d \in released' => ~memory'[d].free
               /\ (\A e \in Array : ~Owns(e, d)') /\ d \notin released' => memory'[d].free
    <3>1. CASE d = b
      <4>1. b \notin released  BY <2>2
      <4>2. x.m_length + n \in Nat  BY DEF Arr
      <4>3. arrays'[a] = y  BY <2>3
      <4>4. QED  BY <1>2, <2>1, <2>2, <2>6, <3>1, <4>1, <4>2, <4>3 DEF Owns
    <3>2. CASE d = x.m_data /\ d # b
      <4>1. d \in DOMAIN memory /\ Owns(a, d)  BY <2>2, <2>5, <3>2
      <4>2. /\ d \notin released' /\ memory'[d].free
            /\ \A c \in Array \ {a} : ~Owns(c, d)
        BY <1>2, <2>2, <3>2, <4>1 DEF OneOwner
      <4>3. \A c \in Array : ~Owns(c, d)'  BY <2>1, <2>3, <2>6, <3>2, <4>2 DEF Owns
      <4>4. QED  BY <4>2, <4>3
    <3>3. CASE d # x.m_data /\ d # b
      <4>1. d \in DOMAIN memory /\ memory'[d] = memory[d]  BY <2>2, <3>3
      <4>2. ~Owns(a, d)  BY <1>2, <3>3, EmptyIsArr DEF Owns
      <4>3. \A c \in Array : Owns(c, d)' <=> Owns(c, d)  BY <2>1, <2>3, <2>6, <3>3, <4>2 DEF Owns
      <4>4. \A c \in Array : Owns(c, d) => arrays'[c] = arrays[c]  BY <2>6, <4>2
      <4>5. QED  BY <1>2, <4>1, <4>3, <4>4 DEF OneOwner
    <3>4. QED  BY <3>1, <3>2, <3>3
  <2>8. QED  BY <2>4, <2>7 DEF OneOwner
<1>3. CASE BytesFault("wildWrite")
  BY <1>3 DEF BytesFault, OwnersWork, OneOwner, Owns
<1>4. QED  BY <1>1, <1>2, <1>3 DEF Appends, Writable, Null0

(* The memory that an array leaves is freed, or given to the caller.            *)
LEMMA ClearKeepsInv ==
    ASSUME BytesInv, NEW a \in Array, NEW after \in {Empty, Unborn},
           arrays' = [arrays EXCEPT ![a] = after], memory' = Freed(arrays[a]), UNCHANGED released
    PROVE  BytesInv'
<1>1. after \in Arr /\ ~after.m_destroy  BY EmptyIsArr
<1> USE DEF BytesInv
<1>2. CASE arrays[a].m_destroy
  <2> DEFINE b == arrays[a].m_data
  <2>1. b \in DOMAIN memory /\ Owns(a, b)  BY <1>2 DEF OwnersWork, Owns
  <2>2. b # 0  BY <2>1 DEF BytesType
  <2>3. memory' = FreedAt(b)  BY <1>2, <2>2 DEF Freed, FreedAt, Null0
  <2>4. /\ memory' \in Seq(Mem) /\ DOMAIN memory' = DOMAIN memory /\ memory'[b].free
        /\ \A c \in DOMAIN memory : c # b => memory'[c] = memory[c]
    BY <2>1, <2>3, FreedBlock
  <2> HIDE DEF b
  <2>5. \A c \in Array : \A d : Owns(c, d)' <=> c # a /\ Owns(c, d)  BY <1>1 DEF Owns, BytesType
  <2>6. \A c \in Array : c # a => ~Owns(c, b)  BY <2>1 DEF OneOwner
  <2>7. OneOwner'
    <3>1. b \notin released  BY <2>1 DEF OneOwner
    <3>2. \A d \in DOMAIN memory : d # b => (Owns(a, d) <=> FALSE)  BY DEF Owns, b
    <3>3. \A c \in Array : c # a => arrays'[c] = arrays[c]  BY DEF BytesType
    <3>4. QED  BY <2>4, <2>5, <2>6, <3>1, <3>2, <3>3 DEF OneOwner
  <2>8. QED  BY <1>1, <2>4, <2>7 DEF BytesType, OwnersWork
<1>3. CASE ~arrays[a].m_destroy
  <2>1. memory' = memory  BY <1>3 DEF Freed
  <2>2. \A c \in Array : \A d : Owns(c, d)' <=> Owns(c, d)  BY <1>1, <1>3 DEF Owns, BytesType
  <2>3. \A c \in Array : c # a => arrays'[c] = arrays[c]  BY DEF BytesType
  <2>4. OneOwner'  BY <1>3, <2>1, <2>2, <2>3 DEF OneOwner, Owns
  <2>5. QED  BY <1>1, <2>1, <2>4 DEF BytesType, OwnersWork
<1>4. QED  BY <1>2, <1>3

LEMMA ReleaseKeepsInv == ASSUME BytesInv, NEW a \in Array, Release(a) PROVE BytesInv'
<1> DEFINE x == Disowned(arrays[a])
<1>1. x \in Arr /\ x.born = arrays[a].born /\ ~x.m_destroy
  BY ArrayUpdates DEF BytesInv, BytesType
<1>2. /\ arrays' = [arrays EXCEPT ![a] = x] /\ UNCHANGED memory
      /\ released' = IF arrays[a].m_destroy THEN released \cup {arrays[a].m_data} ELSE released
  BY DEF Release
<1> HIDE DEF x
<1>3. \A c \in Array : \A d : Owns(c, d)' <=> c # a /\ Owns(c, d)
  BY <1>1, <1>2 DEF Owns, BytesInv, BytesType
<1>4. \A c \in Array : c # a => arrays'[c] = arrays[c]  BY <1>2 DEF BytesInv, BytesType
<1>5. BytesType' /\ OwnersWork'  BY <1>1, <1>2 DEF BytesInv, BytesType, OwnersWork
<1>6. \A d : d \in released' <=> d \in released \/ Owns(a, d)  BY <1>2 DEF Owns
<1>7. OneOwner'
  BY <1>2, <1>3, <1>4, <1>6 DEF BytesInv, OneOwner
<1>8. QED  BY <1>5, <1>7 DEF BytesInv

LEMMA CallerFreesKeepsInv == ASSUME BytesInv, NEW b \in released, CallerFrees(b) PROVE BytesInv'
<1>1. b \in DOMAIN memory /\ released' = released \ {b} /\ UNCHANGED arrays
  BY DEF BytesInv, BytesType, CallerFrees
<1>2. memory' = FreedAt(b)  BY DEF CallerFrees, FreedAt
<1>3. /\ memory' \in Seq(Mem) /\ DOMAIN memory' = DOMAIN memory /\ memory'[b].free
      /\ \A c \in DOMAIN memory : c # b => memory'[c] = memory[c]
  BY <1>1, <1>2, FreedBlock DEF BytesInv
<1>4. \A c \in Array : \A d : Owns(c, d)' <=> Owns(c, d)  BY <1>1 DEF Owns
<1>5. \A c \in Array : ~Owns(c, b)  BY <1>1 DEF BytesInv, OneOwner
<1>6. OneOwner'  BY <1>1, <1>3, <1>4, <1>5 DEF BytesInv, OneOwner
<1>7. QED  BY <1>1, <1>3, <1>6 DEF BytesInv, BytesType, OwnersWork

LEMMA TruncateKeepsInv ==
    ASSUME BytesInv, NEW a \in Array, NEW n \in Int, Truncate(a, n)
    PROVE  BytesInv'
<1>1. CASE UNCHANGED <<arrays, memory, released>>
  BY <1>1 DEF BytesInv, BytesType, OwnersWork, OneOwner, Owns
<1>2. CASE ~UNCHANGED <<arrays, memory, released>>
  <2> DEFINE b == arrays[a].m_data
             x == [arrays[a] EXCEPT !.m_length = n]
  <2>1. /\ arrays[a].m_destroy /\ arrays[a].m_data # Null0 /\ n <= arrays[a].m_length /\ n \in Nat
        /\ arrays' = [arrays EXCEPT ![a] = x] /\ memory' = NulAt(b) /\ UNCHANGED released
    BY <1>2 DEF Truncate, BytesFault, NulAt
  <2>2. x \in Arr /\ x.born = arrays[a].born /\ x.m_destroy = arrays[a].m_destroy
        /\ x.m_data = arrays[a].m_data /\ x.m_length = n
    <3>1. arrays[a] \in Arr /\ n \in Nat  BY <2>1 DEF BytesInv, BytesType
    <3>2. QED  BY <3>1, ArrayUpdates
  <2>3. b \in DOMAIN memory  BY <2>1 DEF BytesInv, OwnersWork
  <2>4. /\ memory' \in Seq(Mem) /\ DOMAIN memory' = DOMAIN memory
        /\ \A c \in DOMAIN memory : memory'[c].free = memory[c].free /\ memory'[c].size = memory[c].size
    BY <2>1, <2>3, NulBlock DEF BytesInv
  <2> HIDE DEF b, x
  <2>5. \A c \in Array : \A d : Owns(c, d)' <=> Owns(c, d)  BY <2>1, <2>2 DEF Owns, BytesInv, BytesType
  <2>6. \A c \in Array : arrays'[c].m_length <= arrays[c].m_length
                          /\ arrays[c].m_length \in Nat /\ arrays'[c].m_length \in Nat
    BY <2>1, <2>2 DEF BytesInv, BytesType, Arr
  <2>7. \A d \in DOMAIN memory : memory[d].size \in Nat
    <3>1. \A d \in DOMAIN memory : memory[d] \in Mem  BY DEF BytesInv, BytesType
    <3>2. QED  BY <3>1 DEF Mem
  <2>8. OneOwner'  BY <2>1, <2>4, <2>5, <2>6, <2>7 DEF BytesInv, OneOwner
  <2>9. QED  BY <2>1, <2>2, <2>4, <2>8 DEF BytesInv, BytesType, OwnersWork
<1>3. QED  BY <1>1, <1>2

(* Every step starts without a fault; the last of an assignment recurses.       *)
LEMMA NoneBefore ==
    ASSUME BytesNext, byteFault' # "recursion"
    PROVE  /\ byteFault = "none"
           /\ \A a, b : /\ ~AssignMove(a, b)
                        /\ AssignCopy(a, b) \/ PlusAssign(a, b) => UNCHANGED <<arrays, memory, released>>
           /\ \A a, n : ~AssignChars(a, n)
<1>1. byteFault = "none"
  <2>1. \A a, n, nul : AppendBytes(a, n, nul) \/ FromBytes(a, n, nul) \/ FromDataStart(a, n, nul)
          => byteFault = "none"
    BY DEF AppendBytes, FromBytes, FromDataStart, Working
  <2>2. \A a, n : ReadAll(a, n) \/ Truncate(a, n) \/ TruncateNothing(a, n) \/ AssignChars(a, n) \/ Reads(a, n)
          => byteFault = "none"
    BY DEF ReadAll, Truncate, TruncateNothing, AssignChars, Reads, Working
  <2>3. \A a, b : Plus(a, b) \/ AssignCopy(a, b) \/ AssignMove(a, b) \/ PlusAssign(a, b)
          => byteFault = "none"
    BY DEF Plus, AssignCopy, AssignMove, PlusAssign, Working
  <2>4. \A a : Clear(a) \/ Release(a) \/ CallerFrees(a) => byteFault = "none"
    BY DEF Clear, Release, CallerFrees, Working
  <2>5. QED  BY <2>1, <2>2, <2>3, <2>4 DEF BytesNext
<1>2. \A a, x, mem : ~ReturnsCopy(a, x, mem)  BY DEF ReturnsCopy
<1>3. QED  BY <1>1, <1>2 DEF AssignCopy, AssignMove, AssignChars, PlusAssign, BytesFault

LEMMA BytesStep == Owned /\ [BytesNext]_byteVars => Owned'
<1> SUFFICES ASSUME Owned, [BytesNext]_byteVars, byteFault' # "recursion" PROVE BytesInv'
  BY DEF Owned
<1>0. BytesInv
  BY NoneBefore DEF Owned, byteVars
<1> HIDE DEF Owned
<1>1. CASE UNCHANGED <<arrays, memory, released>>
  BY <1>0, <1>1 DEF BytesInv, BytesType, OwnersWork, OneOwner, Owns
<1>2. \A a \in Array : arrays[a] \in Arr /\ (~arrays[a].born => ~arrays[a].m_destroy)
  BY <1>0 DEF BytesInv, BytesType, OwnersWork
<1>3. ASSUME NEW a \in Array, NEW n \in Nat, NEW nul \in BOOLEAN, AppendBytes(a, n, nul)
      PROVE  BytesInv'
  <2>1. arrays[a] \in Arr /\ arrays[a].born /\ Appends(a, arrays[a], n, nul)
    BY <1>2, <1>3 DEF AppendBytes, Working
  <2>2. QED  BY <1>0, <2>1, AppendsKeepsInv
<1>4. ASSUME NEW a \in Array, NEW n \in Nat, NEW nul \in BOOLEAN,
             Appends(a, Empty, n, nul), ~arrays[a].born
      PROVE  BytesInv'
  <2>1. Empty \in Arr /\ Empty.born /\ ~arrays[a].m_destroy  BY <1>2, <1>4, EmptyIsArr
  <2>2. QED  BY <1>0, <1>4, <2>1, AppendsKeepsInv
<1>5. ASSUME NEW a \in Array, NEW n \in Nat, NEW nul \in BOOLEAN, FromBytes(a, n, nul)
      PROVE  BytesInv'
  BY <1>4, <1>5 DEF FromBytes
<1>6. ASSUME NEW a \in Array, NEW n \in Nat, NEW nul \in BOOLEAN, FromDataStart(a, n, nul)
      PROVE  BytesInv'
  <2>1. CASE BytesFault("overread")  BY <1>1, <2>1 DEF BytesFault
  <2>2. CASE Appends(a, Empty, n + 1, TRUE)
    <3>1. n + 1 \in Nat /\ TRUE \in BOOLEAN /\ ~arrays[a].born  BY <1>6 DEF FromDataStart
    <3>2. QED  BY <1>4, <2>2, <3>1
  <2>3. QED  BY <1>6, <2>1, <2>2 DEF FromDataStart
<1>7. ASSUME NEW a \in Array, NEW n \in Nat, ReadAll(a, n) PROVE BytesInv'
  <2>1. Chunk * (n \div Chunk) \in Nat  BY DEF Chunk
  <2>2. QED  BY <1>4, <1>7, <2>1 DEF ReadAll
<1>8. ASSUME NEW a \in Array, Clear(a) PROVE BytesInv'
  BY <1>0, <1>8, ClearKeepsInv DEF Clear
<1>9. ASSUME NEW a \in Array, NEW n \in Int, Truncate(a, n) \/ TruncateNothing(a, n) PROVE BytesInv'
  BY <1>0, <1>1, <1>9, TruncateKeepsInv DEF TruncateNothing, byteVars
<1>10. 0..MaxLength \subseteq Nat /\ 0..(2 * MaxLength + 1) \subseteq Nat
       /\ -1..(2 * MaxLength + 1) \subseteq Int
  BY ByteArraysAssumption
<1>11. CASE BytesNext
  <2>1. ASSUME NEW a \in Array, NEW n \in 0..MaxLength, NEW nul \in BOOLEAN,
               AppendBytes(a, n, nul) \/ FromBytes(a, n, nul) \/ FromDataStart(a, n, nul)
        PROVE  BytesInv'
    BY <1>3, <1>5, <1>6, <1>10, <2>1
  <2>2. ASSUME NEW a \in Array, NEW n \in 0..(2 * MaxLength + 1), ReadAll(a, n) PROVE BytesInv'
    BY <1>7, <1>10, <2>2
  <2>3. ASSUME NEW a \in Array, NEW n \in -1..(2 * MaxLength + 1), Truncate(a, n) \/ TruncateNothing(a, n)
        PROVE  BytesInv'
    BY <1>9, <1>10, <2>3
  <2>4. ASSUME NEW a \in Array, (\E strings \in BOOLEAN : Reads(a, strings))
                                 \/ (\E c \in Array : Plus(a, c))
        PROVE  BytesInv'
    BY <1>1, <2>4 DEF Reads, Plus, BytesFault
  <2>5. ASSUME NEW a \in Array, NEW c \in Array, AssignCopy(a, c) \/ AssignMove(a, c) \/ PlusAssign(a, c)
        PROVE  BytesInv'
    BY <1>1, <1>11, <2>5, NoneBefore
  <2>6. ASSUME NEW a \in Array, NEW n, AssignChars(a, n) PROVE BytesInv'
    BY <1>11, <2>6, NoneBefore
  <2>7. QED
    BY <1>0, <1>8, <1>11, <2>1, <2>2, <2>3, <2>4, <2>5, <2>6, ReleaseKeepsInv, CallerFreesKeepsInv
       DEF BytesNext
<1>12. QED  BY <1>1, <1>11 DEF byteVars

(* Safety, byte_array.h:47 and byte_array.cpp:53-61: for any arrays and         *)
(* lengths, memory is owned by one array or by one caller of release(), until   *)
(* an assignment recurses.                                                      *)
THEOREM OwnedOnce == BytesInit /\ [][BytesNext]_byteVars => []MemoryHasOneOwner
<1>1. BytesInit => Owned
  BY EmptyIsArr DEF BytesInit, Owned, BytesInv, BytesType, OwnersWork, OneOwner
<1>2. QED  BY <1>1, OneOwnerSuffices, BytesStep, PTL

-----------------------------------------------------------------------------
(* The accessor.  While it exists nothing is added or removed; before the first *)
(* removal the vector has every thread once, and only threads that live.        *)

ThreadList == Seq(Selectable)
AccessorType == [namedThreads : ThreadList, typedThreads : ThreadList, selection : ThreadList,
                 flagAllName : BOOLEAN, flagAllType : BOOLEAN, gone : SUBSET Selectable]
AccessTyped == /\ m_threads \in ThreadList /\ life \in [Selectable -> {"new", "live", "freed"}]
               /\ accessor # NoAccess => accessor \in AccessorType
GoneIsDeleted == accessor # NoAccess => accessor.gone = Deleted
EachOnce == Deleted = {} => IsInjective(m_threads) /\ \A t \in ToSet(m_threads) : life[t] = "live"
SelectedOnce == accessor # NoAccess /\ Deleted = {} => \A list \in Lists(accessor) : IsInjective(list)
StaleIsGone == accessFault = "useAfterFree" => Deleted # {}
AccessInv == AccessTyped /\ GoneIsDeleted /\ EachOnce /\ SelectedOnce /\ StaleIsGone

LEMMA AccessInvSuffices == AccessInv => SelectionsHold
BY DEF AccessInv, GoneIsDeleted, SelectedOnce, StaleIsGone, SelectionsHold

LEMMA EmptyIsInjective == <<>> \in ThreadList /\ IsInjective(<<>>)
BY DEF ThreadList, IsInjective

\* What is selected of the vector is in it once when the vector has it once.
LEMMA AmongOnce ==
    ASSUME AccessInv, NEW set
    PROVE  Among(set) \in ThreadList /\ (Deleted = {} => IsInjective(Among(set)))
BY ElementsInKeeps DEF Among, ThreadList, AccessInv, AccessTyped, EachOnce

\* A step of the accessor, which leaves the threads and the vector alone.
LEMMA AccessorStep ==
    ASSUME AccessInv, NEW acc, Becomes(acc), acc \in AccessorType, acc.gone = Deleted,
           Deleted = {} => \A list \in Lists(acc) : IsInjective(list)
    PROVE  AccessInv'
<1>1. accessor' = acc /\ UNCHANGED <<m_threads, life, accessFault>>
  BY DEF Becomes
<1>2. Deleted' = Deleted
  BY <1>1 DEF Deleted
<1>3. AccessTyped' /\ GoneIsDeleted'
  BY <1>1, <1>2 DEF AccessInv, AccessTyped, GoneIsDeleted
<1>4. EachOnce' /\ SelectedOnce' /\ StaleIsGone'
  BY <1>1, <1>2 DEF AccessInv, EachOnce, SelectedOnce, StaleIsGone
<1>5. QED
  BY <1>3, <1>4 DEF AccessInv

\* A step that only records a fault, of a deleted thread when one was removed.
LEMMA AccessFails ==
    ASSUME AccessInv, NEW what, Fails(what), what = "useAfterFree" => Deleted # {}
    PROVE  AccessInv'
<1>1. accessFault' = what /\ UNCHANGED <<m_threads, life, accessor>>
  BY DEF Fails
<1>2. Deleted' = Deleted
  BY <1>1 DEF Deleted
<1>3. QED
  BY <1>1, <1>2 DEF AccessInv, AccessTyped, GoneIsDeleted, EachOnce, SelectedOnce, StaleIsGone

LEMMA AccessStutters == AccessInv /\ UNCHANGED accessVars => AccessInv'
<1> SUFFICES ASSUME AccessInv, UNCHANGED accessVars PROVE AccessInv'
  OBVIOUS
<1>1. UNCHANGED <<m_threads, life, accessor, accessFault>>
  BY DEF accessVars
<1>2. Deleted' = Deleted
  BY <1>1 DEF Deleted
<1>3. QED
  BY <1>1, <1>2 DEF AccessInv, AccessTyped, GoneIsDeleted, EachOnce, SelectedOnce, StaleIsGone

LEMMA BlankOf ==
    ASSUME NEW acc \in AccessorType
    PROVE  /\ Blank(acc) \in AccessorType /\ Blank(acc).gone = acc.gone
           /\ Lists(Blank(acc)) = {acc.namedThreads, acc.typedThreads, <<>>}
<1>1. FALSE \in BOOLEAN /\ <<>> \in ThreadList
  BY EmptyIsInjective
<1>2. QED
  BY <1>1 DEF Blank, AccessorType, Lists

\* Replacing one of the lists of an accessor, and setting one of its flags.
LEMMA WithList ==
    ASSUME NEW acc \in AccessorType, NEW list \in ThreadList, NEW b \in BOOLEAN
    PROVE  /\ [acc EXCEPT !.selection = list] \in AccessorType
           /\ [acc EXCEPT !.selection = list].gone = acc.gone
           /\ Lists([acc EXCEPT !.selection = list]) \subseteq Lists(acc) \cup {list}
           /\ [acc EXCEPT !.namedThreads = list, !.flagAllName = b] \in AccessorType
           /\ [acc EXCEPT !.namedThreads = list, !.flagAllName = b].gone = acc.gone
           /\ Lists([acc EXCEPT !.namedThreads = list, !.flagAllName = b])
                \subseteq Lists(acc) \cup {list}
           /\ [acc EXCEPT !.typedThreads = list, !.flagAllType = b] \in AccessorType
           /\ [acc EXCEPT !.typedThreads = list, !.flagAllType = b].gone = acc.gone
           /\ Lists([acc EXCEPT !.typedThreads = list, !.flagAllType = b])
                \subseteq Lists(acc) \cup {list}
           /\ [acc EXCEPT !.flagAllName = b] \in AccessorType
           /\ [acc EXCEPT !.flagAllName = b].gone = acc.gone
           /\ Lists([acc EXCEPT !.flagAllName = b]) = Lists(acc)
           /\ [acc EXCEPT !.flagAllType = b] \in AccessorType
           /\ [acc EXCEPT !.flagAllType = b].gone = acc.gone
           /\ Lists([acc EXCEPT !.flagAllType = b]) = Lists(acc)
BY DEF AccessorType, Lists

LEMMA ChangesList ==
    ASSUME AccessInv, accessor # NoAccess, NEW list \in ThreadList,
           Deleted = {} => IsInjective(list), NEW acc \in AccessorType, acc.gone = accessor.gone,
           Lists(acc) \subseteq Lists(accessor) \cup {list}, Becomes(acc)
    PROVE  AccessInv'
<1>1. acc.gone = Deleted
  BY DEF AccessInv, GoneIsDeleted
<1>2. Deleted = {} => \A l \in Lists(acc) : IsInjective(l)
  BY DEF AccessInv, SelectedOnce
<1>3. QED
  BY <1>1, <1>2, AccessorStep

LEMMA Selects ==
    ASSUME AccessInv, accessor # NoAccess, NEW list \in ThreadList,
           Deleted = {} => IsInjective(list), Select(list)
    PROVE  AccessInv'
<1>1. accessor \in AccessorType
  BY DEF AccessInv, AccessTyped
<1> DEFINE acc == [accessor EXCEPT !.selection = list]
<1>2. /\ acc \in AccessorType /\ acc.gone = accessor.gone
      /\ Lists(acc) \subseteq Lists(accessor) \cup {list}
  <2>1. TRUE \in BOOLEAN
    OBVIOUS
  <2>2. QED
    BY <1>1, <2>1, WithList
<1>3. Becomes(acc)
  BY DEF Select
<1> HIDE DEF acc
<1>4. QED
  BY <1>2, <1>3, ChangesList

\* The threads that the lists and the vector hold.
LEMMA ListsAreLists ==
    ASSUME AccessInv, accessor # NoAccess
    PROVE  /\ accessor \in AccessorType /\ m_threads \in ThreadList
           /\ Deleted = {} => IsInjective(m_threads)
           /\ Lists(accessor) \subseteq ThreadList
           /\ Deleted = {} => \A list \in Lists(accessor) : IsInjective(list)
           /\ accessor.namedThreads \in Lists(accessor) /\ accessor.typedThreads \in Lists(accessor)
           /\ accessor.gone = Deleted
<1>1. accessor \in AccessorType /\ m_threads \in ThreadList
  BY DEF AccessInv, AccessTyped
<1>2. Lists(accessor) \subseteq ThreadList
  BY <1>1 DEF Lists, AccessorType
<1>3. QED
  BY <1>1, <1>2 DEF AccessInv, EachOnce, SelectedOnce, GoneIsDeleted, Lists

LEMMA AccessorCalls ==
    ASSUME AccessInv, accessFault = "none", accessor # NoAccess, AccessorCall
    PROVE  AccessInv'
<1>0. /\ accessor \in AccessorType /\ m_threads \in ThreadList
      /\ Deleted = {} => IsInjective(m_threads)
      /\ Lists(accessor) \subseteq ThreadList
      /\ Deleted = {} => \A list \in Lists(accessor) : IsInjective(list)
      /\ accessor.namedThreads \in Lists(accessor) /\ accessor.typedThreads \in Lists(accessor)
      /\ accessor.gone = Deleted
  BY ListsAreLists
<1>a. FALSE \in BOOLEAN /\ Stale => Deleted # {}
  BY DEF Stale
<1>1. CASE Close
  <2>1. accessor' = NoAccess /\ UNCHANGED <<m_threads, life, accessFault>>
    BY <1>1 DEF Close
  <2>2. Deleted' = Deleted
    BY <2>1 DEF Deleted
  <2>3. QED
    BY <2>1, <2>2
    DEF AccessInv, AccessTyped, GoneIsDeleted, EachOnce, SelectedOnce, StaleIsGone
<1>2. CASE ClearSelection
  <2>1. /\ Blank(accessor) \in AccessorType /\ Blank(accessor).gone = Deleted
        /\ Lists(Blank(accessor)) = {accessor.namedThreads, accessor.typedThreads, <<>>}
    BY <1>0, BlankOf
  <2>2. Deleted = {} => \A list \in Lists(Blank(accessor)) : IsInjective(list)
    BY <1>0, <2>1, EmptyIsInjective
  <2>3. Becomes(Blank(accessor))
    BY <1>2 DEF ClearSelection
  <2>4. QED
    BY <2>1, <2>2, <2>3, AccessorStep
<1>3. CASE GetNamed
  BY <1>0, <1>3, Selects DEF GetNamed
<1>4. CASE GetTyped
  BY <1>0, <1>4, Selects DEF GetTyped
<1>5. CASE SelectBoth
  <2>1. CASE Select(m_threads) \/ Select(<<>>)
    BY <1>0, <2>1, Selects, EmptyIsInjective
  <2>2. CASE Fails("mixedIterators")
    BY <2>2, AccessFails
  <2>3. QED
    BY <1>5, <2>1, <2>2 DEF SelectBoth
<1>6. CASE Throws
  BY <1>6, AccessStutters DEF Throws
<1>7. ASSUME NEW threads, Touches(threads) PROVE AccessInv'
  <2>1. CASE UNCHANGED accessVars
    BY <2>1, AccessStutters
  <2>2. CASE threads \cap Deleted # {} /\ Fails("useAfterFree")
    <3>1. Deleted # {}
      BY <2>2
    <3>2. QED
      BY <2>2, <3>1, AccessFails
  <2>3. QED
    BY <1>7, <2>1, <2>2 DEF Touches
<1>8. CASE Apply \/ First
  BY <1>7, <1>8 DEF Apply, First
<1>9. ASSUME NEW b \in BOOLEAN, AllNames(b) \/ AllTypes(b) PROVE AccessInv'
  <2>1. CASE AllNames(b)
    <3> DEFINE acc == [accessor EXCEPT !.flagAllName = b]
    <3>1. /\ acc \in AccessorType /\ acc.gone = accessor.gone
          /\ Lists(acc) \subseteq Lists(accessor) \cup {<<>>}
      BY <1>0, WithList, EmptyIsInjective
    <3>2. Becomes(acc)
      BY <2>1 DEF AllNames
    <3> HIDE DEF acc
    <3>3. QED
      BY <3>1, <3>2, ChangesList, EmptyIsInjective
  <2>2. CASE AllTypes(b)
    <3> DEFINE acc == [accessor EXCEPT !.flagAllType = b]
    <3>1. /\ acc \in AccessorType /\ acc.gone = accessor.gone
          /\ Lists(acc) \subseteq Lists(accessor) \cup {<<>>}
      BY <1>0, WithList, EmptyIsInjective
    <3>2. Becomes(acc)
      BY <2>2 DEF AllTypes
    <3> HIDE DEF acc
    <3>3. QED
      BY <3>1, <3>2, ChangesList, EmptyIsInjective
  <2>3. QED
    BY <1>9, <2>1, <2>2
<1>10. ASSUME NEW name, ByName(name) PROVE AccessInv'
  <2>1. CASE Stale /\ Fails("useAfterFree")
    BY <1>a, <2>1, AccessFails
  <2>2. CASE Becomes([accessor EXCEPT !.namedThreads = Among(name), !.flagAllName = FALSE])
    <3> DEFINE acc == [accessor EXCEPT !.namedThreads = Among(name), !.flagAllName = FALSE]
    <3>1. Among(name) \in ThreadList /\ (Deleted = {} => IsInjective(Among(name)))
      BY AmongOnce
    <3>2. /\ acc \in AccessorType /\ acc.gone = accessor.gone
          /\ Lists(acc) \subseteq Lists(accessor) \cup {Among(name)}
      BY <1>0, <1>a, <3>1, WithList
    <3>3. Becomes(acc)
      BY <2>2
    <3> HIDE DEF acc
    <3>4. QED
      BY <3>1, <3>2, <3>3, ChangesList
  <2>3. QED
    BY <1>10, <2>1, <2>2 DEF ByName
<1>11. ASSUME NEW type, ByType(type) PROVE AccessInv'
  <2>1. CASE Stale /\ Fails("useAfterFree")
    BY <1>a, <2>1, AccessFails
  <2>2. CASE Fails("nullWorker")
    BY <2>2, AccessFails
  <2>3. CASE Becomes([accessor EXCEPT !.typedThreads = Among(type), !.flagAllType = FALSE])
    <3> DEFINE acc == [accessor EXCEPT !.typedThreads = Among(type), !.flagAllType = FALSE]
    <3>1. Among(type) \in ThreadList /\ (Deleted = {} => IsInjective(Among(type)))
      BY AmongOnce
    <3>2. /\ acc \in AccessorType /\ acc.gone = accessor.gone
          /\ Lists(acc) \subseteq Lists(accessor) \cup {Among(type)}
      BY <1>0, <1>a, <3>1, WithList
    <3>3. Becomes(acc)
      BY <2>3
    <3> HIDE DEF acc
    <3>4. QED
      BY <3>1, <3>2, <3>3, ChangesList
  <2>4. QED
    BY <1>11, <2>1, <2>2, <2>3 DEF ByType
<1>12. ASSUME NEW t \in Selectable, GetWorkered(t) PROVE AccessInv'
  <2>1. CASE Stale /\ Fails("useAfterFree")
    BY <1>a, <2>1, AccessFails
  <2>2. CASE Select(Among({u \in {t} : m_worker[u]}))
    BY <2>2, AmongOnce, Selects
  <2>3. QED
    BY <1>12, <2>1, <2>2 DEF GetWorkered
<1>13. QED
  BY <1>1, <1>2, <1>3, <1>4, <1>5, <1>6, <1>8, <1>9, <1>10, <1>11, <1>12 DEF AccessorCall

LEMMA StdRemoveType ==
    ASSUME NEW s \in ThreadList, NEW t
    PROVE  StdRemove(s, t) \in ThreadList
<1> DEFINE kept == ElementsIn(s, Selectable \ {t})
<1>1. kept \in Seq(Selectable) /\ Len(kept) <= Len(s) /\ s \in Seq(Selectable)
  BY ElementsInKeeps DEF ThreadList
<1> HIDE DEF kept
<1>2. Len(kept) \in Nat /\ Len(s) \in Nat /\ \A i \in 1..Len(s) : s[i] \in Selectable
  BY <1>1, LenProperties, ElementOfSeq
<1>3. SubSeq(s, Len(kept) + 1, Len(s)) \in Seq(Selectable)
  BY <1>1, <1>2
<1>4. kept \o SubSeq(s, Len(kept) + 1, Len(s)) \in Seq(Selectable)
  BY <1>1, <1>3, ConcatProperties
<1>5. QED
  BY <1>4 DEF StdRemove, ThreadList, kept

\* The Application adds and removes threads only while no accessor exists.
LEMMA ApplicationStep ==
    ASSUME AccessInv, NEW t \in Selectable, AddThread(t) \/ RemoveThread(t) \/ ResetWorker(t)
    PROVE  AccessInv'
<1>1. CASE AddThread(t)
  <2>1. /\ accessor = NoAccess /\ accessor' = NoAccess /\ life[t] = "new"
        /\ life' = [life EXCEPT ![t] = "live"] /\ m_threads' = Append(m_threads, t)
        /\ accessFault' = accessFault
    BY <1>1 DEF AddThread, AppMutexFree
  <2>2. m_threads \in ThreadList /\ life \in [Selectable -> {"new", "live", "freed"}]
    BY DEF AccessInv, AccessTyped
  <2>3. m_threads' \in ThreadList /\ life' \in [Selectable -> {"new", "live", "freed"}]
    BY <2>1, <2>2 DEF ThreadList
  <2>4. Deleted' = Deleted
    BY <2>1, <2>2 DEF Deleted
  <2>5. /\ Len(m_threads) \in Nat /\ DOMAIN m_threads = 1..Len(m_threads)
        /\ DOMAIN m_threads' = 1..(Len(m_threads) + 1) /\ m_threads'[Len(m_threads) + 1] = t
        /\ \A i \in 1..Len(m_threads) : m_threads'[i] = m_threads[i]
    BY <2>1, <2>2, AppendProperties, LenProperties DEF ThreadList
  <2>6. EachOnce'
    <3>1. SUFFICES ASSUME Deleted = {}
                   PROVE  IsInjective(m_threads') /\ \A u \in ToSet(m_threads') : life'[u] = "live"
      BY <2>4 DEF EachOnce
    <3>2. IsInjective(m_threads) /\ \A i \in 1..Len(m_threads) : life[m_threads[i]] = "live"
      BY <2>5, <3>1 DEF AccessInv, EachOnce, ToSet
    <3>3. \A i \in 1..Len(m_threads) : m_threads[i] # t /\ m_threads[i] \in Selectable
      BY <2>1, <2>2, <3>2, ElementOfSeq DEF ThreadList
    <3>4. IsInjective(m_threads')
      BY <2>5, <3>2, <3>3 DEF IsInjective
    <3>5. \A i \in 1..(Len(m_threads) + 1) : life'[m_threads'[i]] = "live"
      BY <2>1, <2>2, <2>5, <3>2, <3>3
    <3>6. QED
      BY <2>5, <3>4, <3>5 DEF ToSet
  <2>7. QED
    BY <2>1, <2>3, <2>4, <2>6
    DEF AccessInv, AccessTyped, GoneIsDeleted, SelectedOnce, StaleIsGone
<1>2. CASE RemoveThread(t)
  <2>1. /\ accessor' = NoAccess /\ life' = [life EXCEPT ![t] = "freed"]
        /\ m_threads' = StdRemove(m_threads, t)
    BY <1>2 DEF RemoveThread, AppMutexFree
  <2>2. m_threads' \in ThreadList /\ life' \in [Selectable -> {"new", "live", "freed"}]
    BY <2>1, StdRemoveType DEF AccessInv, AccessTyped
  <2>3. t \in Deleted'
    BY <2>1 DEF Deleted, AccessInv, AccessTyped
  <2>4. QED
    BY <2>1, <2>2, <2>3
    DEF AccessInv, AccessTyped, GoneIsDeleted, EachOnce, SelectedOnce, StaleIsGone
<1>3. CASE ResetWorker(t)
  <2>1. UNCHANGED <<m_threads, life, accessor, accessFault>>
    BY <1>3 DEF ResetWorker
  <2>2. Deleted' = Deleted
    BY <2>1 DEF Deleted
  <2>3. QED
    BY <2>1, <2>2
    DEF AccessInv, AccessTyped, GoneIsDeleted, EachOnce, SelectedOnce, StaleIsGone
<1>4. QED
  BY <1>1, <1>2, <1>3

LEMMA OpenStep ==
    ASSUME AccessInv, Open
    PROVE  AccessInv'
<1> DEFINE acc == [namedThreads |-> <<>>, typedThreads |-> <<>>, selection |-> <<>>,
                   flagAllName |-> FALSE, flagAllType |-> FALSE, gone |-> Deleted]
<1>1. acc \in AccessorType /\ acc.gone = Deleted /\ acc.namedThreads = <<>> /\ acc.typedThreads = <<>>
  <2>1. FALSE \in BOOLEAN /\ <<>> \in ThreadList /\ Deleted \subseteq Selectable
    BY EmptyIsInjective DEF Deleted
  <2>2. QED
    BY <2>1 DEF AccessorType
<1>2. Becomes(Blank(acc))
  BY DEF Open, NewAccess, Becomes
<1> HIDE DEF acc
<1>3. /\ Blank(acc) \in AccessorType /\ Blank(acc).gone = Deleted
      /\ Lists(Blank(acc)) = {acc.namedThreads, acc.typedThreads, <<>>}
  BY <1>1, BlankOf
<1>4. \A list \in Lists(Blank(acc)) : IsInjective(list)
  BY <1>1, <1>3, EmptyIsInjective
<1>5. QED
  BY <1>2, <1>3, <1>4, AccessorStep

\* Safety, thread_accessor.cpp:23 and application.cpp:44-45: an accessor meets no deleted thread but
\* one that was removed before it, and until a first removal it selects no thread twice, for any
\* set of threads, names and types.
THEOREM SelectedThreadsHold == AccessInit /\ [][AccessNext]_accessVars => []SelectionsHold
<1>1. AccessInit => AccessInv
  <2> SUFFICES ASSUME AccessInit PROVE AccessInv
    OBVIOUS
  <2>1. /\ m_threads = <<>> /\ life = [t \in Selectable |-> "new"] /\ accessor = NoAccess
        /\ accessFault = "none"
    BY DEF AccessInit
  <2>2. AccessTyped
    BY <2>1, EmptyIsInjective DEF AccessTyped
  <2>3. EachOnce
    BY <2>1, EmptyIsInjective DEF EachOnce, ToSet
  <2>4. QED
    BY <2>1, <2>2, <2>3 DEF AccessInv, GoneIsDeleted, SelectedOnce, StaleIsGone
<1>2. AccessInv /\ [AccessNext]_accessVars => AccessInv'
  <2> SUFFICES ASSUME AccessInv, [AccessNext]_accessVars PROVE AccessInv'
    OBVIOUS
  <2>1. CASE UNCHANGED accessVars
    BY <2>1, AccessStutters
  <2>2. CASE AccessNext
    BY <2>2, ApplicationStep, OpenStep, AccessorCalls DEF AccessNext
  <2>3. QED
    BY <2>1, <2>2
<1>3. AccessInv => SelectionsHold
  BY AccessInvSuffices
<1>4. QED
  BY <1>1, <1>2, <1>3, PTL
=============================================================================
