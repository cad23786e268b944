---- MODULE JsonConfigs ----
\* The cache of configurations (jsonconfig.cpp): JsonConfig objects are shared by pointer between
\* the cache and whoever asked for them.  A program calls it from one thread: it has no mutex.
EXTENDS Naturals, Sequences, FiniteSets

CONSTANTS Path, Key, Value,
          MaxConfigs,    \* bound on the JsonConfig objects made
          MaxReloads     \* bound on the calls of reload()

ASSUME JsonConfigsAssumption == MaxConfigs \in Nat /\ MaxReloads \in Nat

VARIABLES files,     \* what is on the disk: absent, a text that does not parse, or its keys
          s_jsons,   \* json_map_clearer::s_jsons: a configuration or NoConfig for each path cached
          configs,   \* every JsonConfig made: deleted or not, and its keys
          loading,   \* what reload() still has to load
          reloads,   \* how many reloads there were
          fileFault

jsonVars == <<files, s_jsons, configs, loading, reloads, fileFault>>

NoConfig == 0
Texts == UNION {[ks -> Value] : ks \in SUBSET Key}
NoKeys == [k \in {} |-> k]
Text(keys) == [is |-> "text", keys |-> keys]
Bad == [is |-> "bad", keys |-> NoKeys]
Absent == [is |-> "absent", keys |-> NoKeys]

JsonInit == /\ files \in [Path -> {Absent, Bad, Text(NoKeys)}]
            /\ s_jsons = [p \in {} |-> NoConfig] /\ configs = <<>>
            /\ loading = {} /\ reloads = 0 /\ fileFault = "none"

Idle == loading = {} /\ fileFault = "none"
Cached == DOMAIN s_jsons
Made(keys) == Append(configs, [live |-> TRUE, keys |-> keys])

\* std::map::insert(): an entry that is there stays.
Inserted(p, c) == IF p \in Cached THEN s_jsons
                  ELSE [q \in Cached \cup {p} |-> IF q = p THEN c ELSE s_jsons[q]]

\* fromFile(): what is cached, null for a file that is not there, else the file's keys, cached.
\* A text that does not parse is an exception, and nothing is cached.
Loads(p) == /\ p \notin Cached /\ files[p].is = "text" /\ Len(configs) < MaxConfigs
            /\ configs' = Made(files[p].keys) /\ s_jsons' = Inserted(p, Len(configs) + 1)
Finds(p) == (p \in Cached \/ files[p] = Absent) /\ UNCHANGED <<s_jsons, configs>>
FromFile(p) == /\ Idle
               /\ Loads(p) \/ Finds(p)
               /\ UNCHANGED <<files, loading, reloads, fileFault>>

\* fromJson(): a configuration that the cache does not know.
FromJson(keys) == /\ Idle /\ Len(configs) < MaxConfigs /\ configs' = Made(keys)
                  /\ UNCHANGED <<files, s_jsons, loading, reloads, fileFault>>

\* reload(): every cached configuration is deleted, then those whose file exists and those of the
\* list are loaded, one after the other; an exception leaves the rest out.
Killed(cs) == [c \in DOMAIN configs |->
                 IF c \in cs THEN [configs[c] EXCEPT !.live = FALSE] ELSE configs[c]]
CachedConfigs == {s_jsons[p] : p \in Cached} \ {NoConfig}
NotCleared == s_jsons
Cleared == [p \in {} |-> NoConfig]
Visible == {p \in Cached : files[p] # Absent}
Reload(list) ==
  /\ Idle /\ reloads < MaxReloads /\ reloads' = reloads + 1
  /\ configs' = Killed(CachedConfigs)
  /\ s_jsons' = Cleared
  /\ loading' = Visible \cup list
  /\ UNCHANGED <<files, fileFault>>
\* exists() throws in the middle of the first loop: the configurations before are deleted and their
\* entries null, the others are as they were.
ReloadStops == \E done \in SUBSET Cached :
  /\ Idle /\ done # {} /\ reloads < MaxReloads /\ reloads' = reloads + 1
  /\ configs' = Killed({s_jsons[p] : p \in done} \ {NoConfig})
  /\ s_jsons' = [p \in Cached |-> IF p \in done THEN NoConfig ELSE s_jsons[p]]
  /\ UNCHANGED <<files, loading, fileFault>>
NullCached(p) == /\ files[p] = Absent
                 /\ s_jsons' = Inserted(p, NoConfig) /\ configs' = configs
ReloadNext(p) == /\ fileFault = "none" /\ p \in loading
                 /\ Loads(p) \/ NullCached(p)
                 /\ loading' = loading \ {p}
                 /\ UNCHANGED <<files, reloads, fileFault>>
\* fromFile() throws for a text that does not parse, and when exists() does.
ReloadThrows(p) == /\ fileFault = "none" /\ p \in loading /\ p \notin Cached
                   /\ loading' = {}
                   /\ UNCHANGED <<files, s_jsons, configs, reloads, fileFault>>

\* What a holder of a configuration does with it: reading and writing a deleted one is a fault.
Uses(c, keys) == /\ Idle
                 /\ IF configs[c].live
                      THEN configs' = [configs EXCEPT ![c].keys = keys] /\ fileFault' = "none"
                      ELSE fileFault' = "useAfterFree" /\ configs' = configs
                 /\ UNCHANGED <<files, s_jsons, loading, reloads>>
With(keys, k, v) == [j \in DOMAIN keys \cup {k} |-> IF j = k THEN v ELSE keys[j]]
\* setKey() and setDefaultValue(): insert() keeps a key that is there.
WithNew(keys, k, v) == IF k \in DOMAIN keys THEN keys ELSE With(keys, k, v)
SetKey(c, k, v) == Uses(c, WithNew(configs[c].keys, k, v))
SetDefaultValue(c, k, v) == Uses(c, WithNew(configs[c].keys, k, v))
\* getKey(), operator[], at() and getJson() only read.
GetKey(c) == Uses(c, configs[c].keys)

\* save(): writes a file that exists, and no other.
Save(c, p) == /\ Idle /\ configs[c].live
              /\ files' = IF files[p] = Absent THEN files ELSE [files EXCEPT ![p] = Text(configs[c].keys)]
              /\ UNCHANGED <<s_jsons, configs, loading, reloads, fileFault>>

\* Others write and remove files meanwhile.
FilesChange == /\ fileFault = "none" /\ \E p \in Path, f \in {Absent, Bad} : files' = [files EXCEPT ![p] = f]
               /\ UNCHANGED <<s_jsons, configs, loading, reloads, fileFault>>

\* ~json_map_clearer, at the end of the program.
Exit == /\ Idle /\ configs' = Killed(CachedConfigs) /\ s_jsons' = Cleared
        /\ fileFault' = "exited"
        /\ UNCHANGED <<files, loading, reloads>>

JsonNext == \/ \E p \in Path : FromFile(p) \/ ReloadNext(p) \/ ReloadThrows(p)
            \/ \E keys \in Texts : FromJson(keys)
            \/ \E list \in SUBSET Path : Reload(list)
            \/ ReloadStops
            \/ \E c \in DOMAIN configs : \/ GetKey(c) \/ \E p \in Path : Save(c, p)
                                         \/ \E k \in Key, v \in Value : \/ SetKey(c, k, v)
                                                                       \/ SetDefaultValue(c, k, v)
            \/ FilesChange \/ Exit

-----------------------------------------------------------------------------
\* Safety, jsonconfig.cpp:76-90: the cache never points to a deleted configuration, nor to one
\* configuration under two paths, at any moment of a reload.
CacheIsLive ==
  /\ \A p \in Cached : s_jsons[p] # NoConfig => configs[s_jsons[p]].live
  /\ \A p, q \in Cached : p # q /\ s_jsons[p] # NoConfig => s_jsons[p] # s_jsons[q]
====
