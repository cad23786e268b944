---- MODULE MCStores ----
\* The stores of a program, the heap that its memory comes from and the accessor to its threads, which do
\* not call each other: each behaviour is of one of them.
EXTENDS JsonConfigs, WorkStore, Registries, ByteArrays, Accessors, HeapBlocks

VARIABLE focus

others(f) == /\ f # "json" => UNCHANGED jsonVars
             /\ f # "work" => UNCHANGED storeVars
             /\ f # "access" => UNCHANGED accessVars
             /\ f # "registry" => UNCHANGED registryVars
             /\ f # "bytes" => UNCHANGED byteVars
             /\ f # "heap" => UNCHANGED vars

\* Files and heap where a behaviour is not of them.
NoFiles == [p \in Path |-> Absent]
IdleHeap == CHOOSE h \in {HeapAt(size, n, align, p) :
                            size \in DataLengths, n \in QueueSizes, align \in Alignments, p \in Addresses} :
              h.memory # Null

MCInit == /\ JsonInit /\ WorkInit /\ RegistryInit /\ BytesInit /\ AccessInit /\ Init
          /\ focus \in {"json", "work", "access", "registry", "bytes", "heap"}
          /\ focus # "json" => files = NoFiles
          /\ focus # "heap" => heap = IdleHeap
MCNext == /\ focus' = focus /\ others(focus)
          /\ \/ focus = "json" /\ JsonNext
             \/ focus = "work" /\ WorkNext
             \/ focus = "access" /\ AccessNext
             \/ focus = "registry" /\ RegistryNext
             \/ focus = "bytes" /\ BytesNext
             \/ focus = "heap" /\ Next
MCSpec == MCInit /\ [][MCNext]_<<jsonVars, storeVars, accessVars, registryVars, byteVars, vars, focus>>
====
