# A TLA+ model of drumlin

drumlin is a C++ library: an `Application` owns a list of `Thread`s, each with a
`ThreadWorker`, and a queue of events; beside it stand a work store, a heap
allocator with a buffer cache, a socket class and a cache of JSON
configurations. This directory models the library in TLA+, checks the models
with TLC and proves the main properties with TLAPS. Paths below are relative to
the root of the repository (`src/` here).

## Inventory

Everything is a flat directory of pairs `x.h`/`x.cpp`. `drumlin.files` lists what
is built; `socket`, `connection`, `status`, `registry` and `usable.h` are not.

| component | state | operations | interacts with |
|---|---|---|---|
| Application (`application.*`) | `m_threads`, `m_queue`, `terminated`, `m_promises`, one recursive mutex | `addThread`, `removeThread`, `post`, `exec`/`event`, `stop`, `quit`, `shutdown`, `handleSignal`, `queuePromise`, `getStatus` | owns and deletes Threads, receives `ThreadRemove` |
| Thread (`thread.*`) | `m_ready`, `m_deleting`, `m_terminated`, `m_worker`, `m_thread`, `m_queue`; `m_mutex` per object, three static mutexes | `start`, `run`, `exec`, `event`, `terminate`, `wait`, `quit`, `post`, `isStarted`, `getWorker`, `hasWorker` | posts to the Application through `event::punt` |
| ThreadWorker (`thread_worker.*`) | its type; a static mutex | `stop`, `signalTermination`, reports; virtual `event`, `work`, `shutdown` | called from `run()` without a lock, finds its Thread through a ThreadAccessor |
| ThreadAccessor (`thread_accessor.*`) | a selection; holds the Application's mutex while it exists | `named`, `typed`, `getNamed`, `getTyped`, `getWorkered`, `selectBoth`, `first`, `operator()` with `SendEvent` or `StartThread` | reads `m_threads` and every element of it |
| Events (`event.*`) | none | `make_event`, `punt`, `send`, `post` | queues of Application and Thread; log what they pass on |
| Locks, logging (`drumlin.h`, `logger.*`, `cursor.*`, `mutexcall.h`) | logger mutex, `drumlin::debug`, trace buffers | `LOGLOCK`, `INTERNAL`, `CRITICAL`, `THREADSLOCK`, `Tracer` | everywhere |
| SignalHandler (`signalhandler.*`) | one global handler | table of signals, `handleSignal` | punts `Shutdown` |
| Work store (`work.*`) | tokens and their descriptors, named promises | `setWork`, `getWork`, `queuePromise`, `Access` | Thread is a `Work::Store`; Application holds promises |
| Registry, status (`registry.*`, `status.*`) | a map of names to owned objects | `add`, `remove`, `removeAll`, `fromString` | none in the library |
| Heap allocator (`allocator.*`, `uses_allocator.*`) | blocks per heap, heaps per type | `alloc`, `free`, `freeAll`, `registerUse`, `unregisterUse`, `unregisterAll` | buffers |
| Buffer cache (`buffer*`, `use_ident.*`) | buffers, subscriptions, a mutex taken by try_lock | `addAllocated`, `clearAllocated`, `findRelevant`, `subscribe`, `unsubscribe`, `publish`; filters | heap allocator |
| Socket, connection | read and write queues | asynchronous `reading`, `writing`, `write`, `peekData`; accept | boost::asio callbacks |
| JsonConfig | a map from file name to parsed value | `fromJson`, `fromFile`, `reload`, `save`, setters | file system, taocpp JSON |
| byte_array, string_list, regexen, crypto, exception | values | construct, append, truncate, split ... | none |

### What is hard in it

* Many threads, and most of their flags are read without a mutex: `run()` tests
  four conditions in a row, `stop()` asks `hasWorker()` and then `getWorker()`,
  `wait()` asks `m_thread` and `m_deleting`.
* The end of a thread is a protocol of four parties (worker, `run()`, the
  Application's queue, `removeThread()`), and `stop()` takes part in it too.
* `m_threads` is a vector of raw pointers that `removeThread()` shortens only in
  name: `std::remove` without `erase`.
* Two orders of taking mutexes: `quit()` holds `m_mutex` and needs the
  Application's; accessors, `stop()` and `removeThread()` hold the Application's
  and need `m_mutex`.
* Starting overlaps running: `m_thread` is assigned after the new thread runs.
* Five mutexes more (the logger's, three static ones, that of `Thread::event`), which
  almost every function takes for a moment, some of them while it holds others.
* A signal's handler runs on the stack of whatever thread it interrupts.
* Elsewhere: heaps freed twice, mutexes that an exception leaves locked, filters
  sliced on the way to the cache, short socket writes and handlers that outlive
  their socket, configuration pointers that a reload invalidates, byte arrays whose
  assignments share memory and call each other without end.

The file PROJECT.json lists each of these at its line under "hazards", with the
properties that watch it.

### What makes each component correct

* Application and Thread: every added thread stays findable until deleted; it is
  deleted once and after its `run()`; `ThreadsGone` is never announced while a
  thread is left; `stop()` returns and never uses a deleted thread; a handler always has
  its worker; whoever is told to terminate is deleted.
* Mutexes: no two operations wait for each other.
* ThreadAccessor: what it has selected is not deleted while it exists.
* Tracer: what is written out names the functions of the stack.
* Work store: its map and its queue agree, in whatever order parts are set; no
  descriptor is lost.
* Heap: a block is handed out once and returned once; the count covers what is in
  use; a heap is freed once, with its last owner.
* Buffer cache: what a filter names is found and cleared; the lock is given back.
* Socket: bytes leave in the order they were queued, none twice, none left.
* AsioServer: each connection is started or deleted.
* JsonConfig: the cache never holds what was deleted.
* Registry, byte_array: everything owned has one owner.

## Plan

1. **ThreadLifecycle**, **ThreadRegistry** (done): the threads, the Application's
   loop, `stop()`, the events between them, the order of the two mutexes; the
   refinement; invariants proved.
2. **HeapBlocks** (done): `heap_t` with its blocks and its count; its invariants
   proved.
3. **UseIdents**, **Buffers** (done): identifiers and filters as values with their
   slicing; the map of heaps, the cache, the two mutexes and their continuations.
4. **ByteStream**, **Sockets**, **Servers** (done): the queues of a socket against
   asynchronous completion, a byte stream as their specification; the acceptor.
5. **JsonConfigs**, **WorkStore**, **Registries**, **ByteArrays** (done): the stores.
6. **Locks**, **Tracers**, **Accessors** (done): all the mutexes that operations nest, the
   tracer that takes none, the accessor that lives inside one.
7. Theorems (done): every safety invariant and action property of the passing runs and
   both refinements, ThreadLifecycle => ThreadRegistry and Sockets => ByteStream.
   Open: the synchronous modes of a socket, which are not modelled.

## Modules

| module | what it is |
|---|---|
| `ThreadLifecycle` | the specification |
| `ThreadRegistry` | what the Application promises of the threads it is given |
| `MCThreadLifecycle` | constants for TLC |
| `ThreadLifecycleProofs` | the vector lemmas and `TypeCorrect` |
| `ThreadLifecycleSafety` | the safety theorems and, as its last part, the refinement |
| `HeapBlocks` | the blocks of one heap |
| `HeapBlocksProofs` | its theorems |
| `UseIdents` | identifiers, `string_list` as far as they need it, and filters |
| `Buffers`, `MCBuffers` | the map of heaps and the buffer cache behind their mutexes |
| `ByteStream` | what a socket promises: the bytes that leave are a prefix of those written |
| `Sockets`, `Servers`, `MCSockets` | one socket; one server that accepts; both as one run |
| `JsonConfigs`, `WorkStore`, `Registries`, `ByteArrays`, `Accessors`, `MCStores` | five parts that do not call each other, in one run with HeapBlocks |
| `Locks`, `Tracers`, `MCLocks` | the mutexes; the tracer; both in one run |
| `Subsequences` | the elements of a sequence that are in a set, for Buffers and Accessors |
| `BufferProofs`, `SocketProofs`, `StoreProofs`, `LockProofs` | the theorems about Buffers; Sockets and Servers; the five stores; Locks and Tracers |
| `SequenceLemmas` | lemmas that these need about sequences, functions on them and induction |

`MCSockets`, `MCStores` and `MCLocks` choose at the start which part a behaviour is of
(`focus`) and leave the others alone: the parts share no state in the code, and
their product would only multiply the states.

### ThreadLifecycle

State. `m_threads`, `m_ready`, `m_deleting`, `m_terminated`, `m_thread`, `m_queue`
are the members of that name; `m_worker` is whether the pointer is set; `life` is
the Thread object itself (not added, live, deleted). `pc` is where each `run()`
is: a run is a pair of a Thread and the number of the boost::thread, since
`start()` may be called again after a run has ended. `apc`, `stopType`,
`stopSel`, `stopPos` are the Application's thread inside `exec()` and `stop()`.
`loopLock` is the static mutex in `run()`. `starting` is the Thread inside
`start()`.

Grain. One step is what one mutex protects, or one access to a member no mutex
protects. A mutex that is given back within a step is a guard on that step; those
held across steps are states: the Application's mutex (`AppLockFree`: `stop()`
scanning, a `start()` under way, somebody stuck), each `m_mutex` (`MutexFree`:
`start()`, and `quit()` between taking it and posting) and the static mutex of
`Thread::event` (`EventMutexFree`). Two steps of finer grain are merged where
nothing can come between that the properties tell apart: the loop of
`terminate()` calls inside `stop()`, and the copy of the worker pointer in
`run()`.

Actions.

| code | actions |
|---|---|
| `addThread`, `start` | `AddPaused`, `AddStarted`, `BeginRun`, `EndStart` |
| `run` in order | `RunPostBeforeWork`, `RunPostWork` or `RunLogsNullWorker`, `RunLoop` or `RunReadsNullThread`, `RunExec`, `RunUnlock`, `RunTick`, `RunMarkDeleting`, `RunShutdownWorker` and `RunResetWorker` or `RunTerminatesItself`, `RunClearReady`, `RunQuit`, `RunPunts` |
| a worker's `event()`, `work()`, `shutdown()` | `WorkerCode`, in `RunExec`, `RunTick`, `RunShutdownWorker`: return, `signalTermination`, send work or shutdown, start a paused thread; stale slot; stuck |
| `Thread::event`, a ThreadShutdown that the worker did not keep to itself | `ThreadQuits`, `RunHandlerPunts` |
| `removeThread` | `AppRemoves`, `AppRefusesToRemove`, `AppRemovesAgain`, `AppGetsStuck` |
| `shutdown`, `quit` | `AppThreadsGone`, `AppShutdown` |
| `stop` | `StopBegins`, `StopAsksForWorker`, `StopReadsType`, `StopTerminates`, `StopAsksIfStarted`, `StopQuits`, `StopPunts`, `StopReadsDeleting`, `StopJoins`, `StopNextType`, and the reads that fail: `StopReadsStaleSlot`, `StopReadsNullWorker` |
| signals, Close from outside | `Outside` |

Undefined behaviour (a deleted thread or a null worker is dereferenced) ends the
behaviour and is recorded in `fault`, so that a property can say which of them
are possible. `OnlyStartAndSlotsFail` does that: three of them remain in the
simplest kind of program.

Abstractions. An event is its kind; the name of a Notify does not matter. What a
worker does in a handler is one of `Calls`; a worker that does several things does
them in several ticks, and in its `shutdown()` one of them at most. `drumlin::debug` is a set of the values it may have,
because streaming a thread reads its worker. An accessor that finds the `m_mutex`
it needs held by a `quit()` stays "stuck", since that `quit()` waits for the
accessor's mutex. `Restart` is never posted: `ThreadsGone` is made with a null
value. Unlocking a mutex that is not held (`thread.cpp:183`) just unlocks it, as
glibc does.

Not modelled here: the reuse of a deleted Thread's address, exceptions that leave
a tick, interruption (nobody calls `interrupt()`), the logger's and the static mutexes
and a signal handler that interrupts its own thread (those are in Locks), `start()` called by a program directly
instead of by `addThread` or `StartThread`, `wait()` with a time limit (nobody
passes one).

### ThreadRegistry

Each thread is absent, added, leaving or removed; `gone` is the announcement. The
mapping: a thread is leaving once one of its runs has returned; `gone` holds from
the moment `ThreadsGone` or `Shutdown` is queued. `ImplementsRegistry` holds for
self-terminating programs (those whose threads end by `signalTermination()`, like
the one in `tests/test/test.cpp`). It would not with `stop()`, a late `start()` or
`ThreadShutdown`: all three can remove a Thread twice or during its run. The registry
is a safety property: that `gone` comes at all it does not say, and it need not, since the
distance in `removeThread()` counts leftovers (the hazard at `application.cpp:47`).

### HeapBlocks

One `heap_t` from the moment `registerUse()` returns it. `heap` holds the five
numbers that `registerUse()` computes (`Init` takes every shape of heap for which
`std::align` does not fail); `blocks` and `allocated` are the members of that name,
`ret` is what the last `alloc()` returned.

| code | actions |
|---|---|
| `alloc` | `Reuse` (the first freed block), `Carve` (a new one), `AllocFails` (no room; the count has gone up) |
| `free` | `Free`; without a block to free it only logs |
| `freeAll` | `FreeAll`; the count stays as it is |

Addresses are natural numbers and `std::align` is arithmetic on them. The first
member of a pair is kept as null or not (its comment says that it is `==second`
when first allocated; the code stores the address before alignment there, and
nothing reads it). The very first `alloc()` reads `blocks.back()` of an empty list.
That is undefined behaviour; with libstdc++ it is the word after the `heap_t`, which
is malloc's size of the next chunk. `WordsAfter` is the set of its values, assumed
to lie below every address. A `heap_t` has no mutex; the model has one caller at a
time, as `access::allocator` provides for `alloc()` and `free()`. `freeAll()` would
come under the cache's mutex instead, but `clearAllocated()` never reaches it (its
filter is a sliced copy that equals nothing); the two mutexes are in Buffers.

`RoomForTotal` is about the 8 bytes per block that `registerUse()` adds: they cover
the gaps up to an alignment of 8. With 16 and blocks of one byte TLC finds a heap
that is full before `total` blocks are in use, hence the condition.

Not modelled here: wrap-around of `(sz + 8) * n`, blocks of size 0, who holds a block.

### UseIdents and Buffers

An identifier is a record of source, tick and attributes; an item of a `string_list`
is a sequence of tokens, so that an item without `=` and a name that comes twice are
told apart as the code does. A filter is a record of its kind and its parts. `Sliced`
is what a filter becomes when it is passed by value as a `UseIdentFilter`
(`buffer_cache.h`, and inside `LogicalAnd` and the others): the base class, which matches
nothing. `RelevantCleared` states what the comments of `clearAllocated()` and of the allocator
promise, that the entries of a heap's user leave the cache before the heap is freed: run
`clears_relevant` violates it, and `CacheMatchesNothing` is the theorem that the code clears
nothing in any state. `Token[u]` is a set, because `UsesAllocator::operator=` changes a token that
identifiers have copied: two of them may be equal, by address, and have different names. An
identifier that was made without a source has whatever is in that memory (`Unset`).

`stack` is the calls each thread is inside, with their parameters as they were bound
when the call was built; a continuation may call again with the mutex held, so that
the recursive mutex of the allocator is entered twice and the plain one of the cache is
waited for by its own thread. An exception leaves `stack` and not the mutex (`thrown`
counts them). A heap is its memory and its number of blocks; what happens in the
memory is HeapBlocks. `Settle` runs `~heap_t` for every heap that a step leaves without a
`shared_ptr`. Faults (`doubleFree`, `badFree`, `useAfterFree`, `erasedEntry`) end a behaviour
and have the causes that `FaultsHaveCauses` names.

| code | actions |
|---|---|
| `access::allocator`, `access::cache`, `CPS_call` | `Begin`, `TryLock`, `Continue`, `Return`; `Throw` in a step |
| `registerUse`, `getHeap`, the reports | `RegisterUse`, `GetHeap`, `AllocatorStatus`, `CacheStatus`, `FindRelevant` |
| `unregisterUse`, `unregisterAll`, `do_unregisterHeap` | `UnregisterNothing`, `DoUnregister`, `DoFree` |
| `addAllocated`, `clearAllocated`, `subscribe`, `unsubscribe`, `publish` | the actions of that name |
| the owner of a heap | `Alloc`, `Drop` |

`UsesAllocator::alloc()` and `free()` build a call that nothing invokes, so that the
pointer they return stays null; they have no action.

### Sockets, ByteStream, Servers

A buffer is a number and a length; the bytes on the wire are pairs of that number and a
position. `sends` and `recvs` are what is in flight, `handlers` what has completed and
waits for the io thread. `causes` records what the client or the network did that the code
does not cope with (a buffer prepended in flight, `writing()` called twice, a short
write, two reads that share `m_recv_buf`, `Flush` without `Coalesce`, a Socket destroyed
with its handlers pending): the properties hold up to these, and each of them is there
because the run shows that the property fails without it. `ImplementsStream` maps a
Socket to ByteStream.

In Servers each connection is pending, started or deleted; `accepts` and `handlers` are
what is in flight; `io` is the thread that runs `io_service::run()`, which returns at once
when the service was stopped before.

### The stores

JsonConfigs: files are absent, unparsable or their keys, and change under the program;
`reload()` is one step that empties the cache (or part of it, when `exists()` throws:
`ReloadStops`) and one for each file. `setKey()` does not
replace a value, since it inserts. WorkStore: `setWork()` and `getWork()` are one step each
under the mutex, for a token of any part, as its constructors and `clone()` make it;
`addDescriptor()` is two, since it has none. Registries: two names and two
objects, so that an object has two names. ByteArrays: a pointer is the number of a memory
block, null, or `Elsewhere` for a C string; of the bytes only the length and whether a NUL is
among them matter. Each `operator=` and `operator+=` does what it does, so that a move leaves two
arrays with one memory, and then returns by value: the copy constructor calls `operator=`, which
copies again, without end. That is the fault `recursion`, with which a behaviour ends and
`MemoryHasOneOwner` promises nothing more. A negative length passes the test of `truncate()`
(`underrun`).

Accessors: a name or a type is the set of threads that have it (`Names`, `Types`). The vector
is as `addThread()` and `removeThread()` leave it, duplicates and deleted threads included.
`gone` is the threads that were deleted before the accessor was made. `clear()` leaves
`namedThreads` and `typedThreads` alone, and `selectBoth()` intersects with an empty range of types,
or, with one flag, with a range that ends in another vector (`mixedIterators`).

### Locks and Tracers

An operation of Locks is the sequence of the mutexes it takes and gives back, with the
calls it makes spliced in; `todo` is what is left of it for each thread, and what a thread
holds follows from it. A mutex that is taken and given back with nothing in between is
one step (`touch`). Operations are cut where nothing is held, and the pieces may come
in any order: more behaviours than the code has, never fewer. A run of log lines or
getters is one of them. Giving back is part of the step before. `quit()`,
`signalTermination()` and the handler of a signal are marked in `by`. A signal interrupts a
thread between two steps or in the middle of a `touch`, with the signals that the
constructor installs for `SignalMask`.

`DeadlocksHaveCulprits` is what the code achieves: it does deadlock, in three ways.
`quit()` holds `m_mutex` and takes the Application's mutex; `signalTermination()` holds the
static mutex of ThreadWorker and takes the Application's and the logger's, while `stop()`
(through the worker's `getType()`), `getStatus()` and every log line that streams a Thread take them the other
way round; a handler takes the logger's mutex on the stack of a thread that may hold it. Every
other pair of operations agrees on the order, `Thread::getType()` included, which asks its worker
while it holds `m_mutex`.

Tracers is a build with `DRUMLIN_TRACE`; a frame is the function it names, or one whose line the regular
expression does not match. Nothing locks the roll: `PlacesNameFunctions` holds while threads
do not overlap (`overlapped`), and TLC finds the wrong places when they do.

## Runs

Threads are model values, bounded by `MaxRuns` (starts of one Thread that create a
boost::thread) and `MaxCalls` (sends, starts and outside events in a behaviour;
`signalTermination()` needs no bound).

| run | instance | what it asks |
|---|---|---|
| `all_calls` | 2 symmetric threads of type 1, `stop()` also going round for the empty type 2, every call, 2 starts each, 2 calls, debug on or off | `TypeOK`; `HandlerHasWorker`; `StopHoldsItsThreads` |
| `self_terminating` | 3 threads, symmetric, terminate and send, 1 call | `LiveThreadsListed`, `GoneMeansNoneLeft`, `RunOwnsItsThread`, `RemovedOnce`, `OnlyStartAndSlotsFail`, `ImplementsRegistry` |
| `stop_returns` | 2 threads of 2 types, fair, one Close | `StopReturns`, `TerminatedIsRemoved` |
| `buffers` | 2 threads, 2 users of memory with a token in common, one of which had another, 5 identifiers, 4 filters, 3 calls of the 12, 2 heaps of 1 block, continuations that ask for a status | `TypeOK`, `ListedHeapsIntact`, `FaultsHaveCauses`, `MutexesGivenBack`, `CallsReturn` |
| `sockets` | 3 buffers of 2 bytes, 2 chunks of input, 3 other calls; 4 connections, 2 starts of the io thread | `TypeOK`, `SentIsFront`, `InputKept`, `FaultsHaveCauses`, `ImplementsStream`, `Drains`, `ConnectionsAccounted`, `StopReleases` |
| `stores` | 2 files, 3 configurations, 2 reloads; 2 workers, 1 target of 2 parts, 2 descriptors; 2 names and 2 objects; 2 arrays, 3 memory blocks; 3 threads with 2 names and 2 types; a heap in pages of 16 bytes, blocks of 1, 5, 20, queues of 0, 1, 3, 6, alignments 1, 4, 8, 16, 2 addresses | `CacheIsLive`, `QueueMatchesMap`, `DescriptorsKept`, `EntriesLive`, `MemoryHasOneOwner`, `SelectionsHold`; of the heap `TypeOK`, `BlocksApart`, `BlocksInMemory`, `CountCovers`, `FreshBlock`, `RoomForTotal` |
| `locks` | 2 symmetric threads and the Application's, 1 signal of a mask with one that is installed; 2 threads in the tracer, 2 functions, 2 frames, 2 blocks, 2 tracers | `DeadlocksHaveCulprits`, `PlacesNameFunctions` |
| `slots_kept` | violated | `RemovedThreadsForgotten`: the deleted thread is still in `m_threads` |
| `stop_waits` | violated | `StopWaitedForAll`: `wait()` does not join a thread that has set `m_deleting` |
| `lock_cycle` | violated | `InternalIsBrief`: `quit()` and `signalTermination()` wait for each other |
| `clears_relevant` | violated | `RelevantCleared`: `clearAllocated()` leaves the entries of the heap that is freed |
| `remove_all` | violated | `RemoveAllDeletes`: `removeAll()` of a Registry deletes nothing |

Why the bounds suffice: two threads are needed for one to touch another, a third
only so that `std::remove` moves kept elements across a gap (`self_terminating`);
two types make `stop()` go round its loop twice, with a thread in each in `stop_returns`; two starts are what it takes to
run a Thread whose worker is gone, and a third start finds the same state as the
second; two calls allow a Close and a start, or a Close and a shutdown, to race.
A heap of `stores` holds at most 6 blocks' worth of pages and the count is
bounded by 8 (`MaxAllocated` stands for the largest int), enough to fill each heap,
fail, free and fill it again; small pages make the rounding matter.
In `buffers` the interesting cases need two calls that overlap and one before them;
one heap is registered over another and two of a kind are in the cache. In `sockets` three
buffers give a front, a middle and an end; two chunks overwrite `m_recv_buf` once; four
connections are a server that is stopped with one waiting, one started and one aborted. In
`stores` two of each kind alias, and three threads make `std::remove` leave a thread twice
and a deleted one. In `locks` a cycle of two or three mutexes needs as many threads, and two
worker threads and the Application's have all the kinds of operation; one signal is
enough to interrupt, since the handler of another waits for the same mutexes.
`CHECK_DEADLOCK FALSE` for the threads, because the program does stop: `exec()` returns,
a fault ends it, and the lock cycle is a real standstill that `InternalIsBrief`
reports; for the others because a fault, a bound on the calls or a deadlock that the property
allows ends a behaviour.

Fairness. `FairSpec` of ThreadLifecycle has weak fairness for each run, for the end of each `start()`
and for the Application's thread: the operating system schedules them, and every
loop in the code polls (it sleeps 1 ms and tries again). Nothing is assumed of
`addThread`, of signals or of Close. A worker's handler that may do several things
is one action, so fairness does not force it to terminate; the liveness
properties start from a thread that was told to. A step that waits for a mutex is
not continuously enabled when the mutex is taken again and again; weak fairness
is enough for the two properties, as the run shows, because nobody in that
instance takes the same mutex for ever. Both properties stop promising anything
once the mutexes are in a cycle (`LockCycle`) or a fault has ended the program. They hold as
far as the mutexes of ThreadLifecycle go, which are the Application's and `m_mutex`: the
cycles through the worker's static mutex and the logger's, in which a stop or a
termination can end too, are in Locks.

`FairSpec` of Buffers lets a thread inside a call go on, because `try_lock()` is tried again after
a `yield()`; nobody need call anything. `Fairness` of Sockets: what was handed to asio completes,
and the io thread runs what has. No receive need complete, nor need anybody write.
`Fairness` of Servers is the accept handlers only; `StopReleases` gives up when the io thread has
stopped.

## Proofs

Everything is proved for sets of any size and bounds of any value. What is assumed of the
constants is named in the module that declares them: `ConstantsAssumption` (threads),
`HeapAssumption` (the shape of a heap), `BuffersAssumption`, `SocketsAssumption`, `JsonConfigsAssumption`, `WorkStoreAssumption`, `ByteArraysAssumption`, `TracersAssumption`,
`LocksAssumption` and `MutexAssumption` (the mutex of a Thread is none of the static ones); most of
these say that a bound is a natural number.

Threads:

* `TypeCorrect`: `TypeOK` is inductive with its bounds on the positions of `stop()`.
* `LiveThreadsStayListed`: from `StdRemoveKeeps` (every kept element of the vector is
  still somewhere after `std::remove`, by counting the kept positions up to it) and
  the fact that only two actions touch the vector.
* `GoneIsTrue`: a distance of 0 means that every element was the removed thread
  (`DistanceZero`); with the previous theorem no added thread is left.
* `StopHolds`: deletion and `stop()` are both the Application's thread; the
  invariant `StopInv` covers the thread whose type is being asked for.
* `WorkerPresent`: `HandlerHasWorker` is not inductive. `WorkerInv` adds that at most
  one run of a Thread is before `m_ready = false`, that `m_ready` holds meanwhile,
  and that a worker is only reset once `m_deleting` or `m_terminated` keeps every
  later run out of the loop.
* `RemovalIsUnique`, `NoRunOnDeletedThread`, `SelfTerminationIsClean`: for programs
  without Close, late starts and ThreadShutdown (`SelfTerminating`, an assumption on
  the constant `Calls`). `SelfInv` says that a ThreadRemove in the queue belongs to a
  live Thread whose only run has ended and that there is one at most; a deleted
  Thread's run has ended.
* `LifecycleImplementsRegistry`: under `LeftToItself`, which is `SelfTerminating` and no
  signal (a signal posts `Shutdown` while threads are left, which the registry never
  does). Each step maps to one of the registry's or to a stutter: `AddIsAdd`,
  `PuntIsLeave` (the only step of a run to "end"), `RemoveIsRemove` (the event in the
  queue belongs to a Thread whose run has ended, by `SelfInv`; with a distance of 0
  nobody else is left), `RunStutters` and `AppStutters` for the rest.

Heaps and the buffer cache:

* `HeapTypeCorrect`, `BlocksStayApart`, `BlocksStayInside`, `CountIsEnough`: from
  `HeapInv`. `BlocksInMemory` alone is not inductive: that the room left is not
  negative needs the last block to lie inside, and that the next block goes behind
  it needs `allocated` not to be zero, which needs `CountCovers` and the fact that
  the first `alloc()` succeeds (`CountMeansBlocks`, `CarveFacts`).
* `AllocIsFresh`: no two positions have one address (`DistinctAddresses`) and a new
  block lies behind all others.
* `RoomIsEnough`: each block ends at most `size + 7` bytes behind the one before it
  (`Strided`), so that a failed `alloc()` means that many blocks (`GapsFit`).
* Buffers: its five theorems follow from `BufInv`. `StackInv` gives the shape of the calls a thread is
  in: only the innermost runs, and at most one of them frees a heap. `MutexInv` says of each mutex that
  its count is the calls inside of its owner and the exceptions that left it; from it and the shape
  follows `MutexesCountCalls`, and that a count does not exceed the calls issued (`IssueInv`), which
  `BufferTypeCorrect` needs. `HeapInv` adds to `ListedHeapsIntact` that what a thread holds stays and that
  only unregistering frees. `FreeInv` is where the two meet: a call that frees a heap finds it
  listed, because it has owned the allocator's mutex since it looked. `CacheInv` says that every
  filter in the cache is a sliced one; these match nothing, so that no step takes an entry out of the
  cache (`CacheMatchesNothing`).

Sockets:

* `FrontIsSent` and `SocketFaultsHaveCauses` from `WriteSide`: one write is in flight or its handler waits,
  not both, and the queue is not empty meanwhile. `NoInputLost` from `ReadSide`, the same of reads.
  Both need `SocketType`, which counts the receives.
* `SocketImplementsStream`: client, network and io thread each make a step of `ByteStream` or none
  (`StreamMoves`, `QueueStays`). The step of the handler needs `AckFits`, that what is acknowledged
  is no more than the front; the concatenation of the queued buffers is treated by equations for
  `FlattenSeq`.
* `OneConnectionWaits`: by `OneWaits` there are three situations: no connection is neither started nor
  deleted, or one is, and either the pending accept has it or the handler that is yet to run.

The stores:

* `RegisteredAreLive`: `EntriesLive` needs `AliasesKnown`, that an object under two names
  is in `aliased`; otherwise removing one name could delete the other's object.
* `CachedAreLive`: `CacheIsLive` with the range of the cache (`JsonType`): a configuration
  that is made has an index that the cache does not hold yet.
* `QueueHoldsTheMap`: the queue has no token twice because its length is the number of known
  tokens, which are finitely many (`WorkType`); whatever parts are set, and in whatever order.
* `ListsAreWhole`: `ListsInv` says of a worker inside `addDescriptor()`, as long as the token
  is not in `overlapped`, that it is alone and has the list of all calls.
* `OwnedOnce`: `BytesInv` adds that only arrays whose constructor has run own memory, and
  that what they own was allocated. It holds up to the first assignment, which recurses.
* `SelectedThreadsHold`: `AccessInv` says that nothing is deleted while an accessor exists (`GoneIsDeleted`)
  and that until a first removal the vector has each thread once (`EachOnce`); what is selected of it
  is a subsequence, which has it once, too (`ElementsInKeeps`).

Mutexes and the tracer:

* `OthersAgreeOnTheOrder`: outside of the culprits every operation takes its mutexes in the order event,
  Application's, logger's, Thread's static one, `m_mutex`, worker's. `Good` says so of a sequence of steps; it is
  kept by concatenation (`GoodConcat`) and by holding a mutex of lower rank around it (`GoodHolding`), so
  that each operation is good as it is written (`OperationsAreGood`). `LockInv` says that what each thread
  has left is in order, also behind a signal's handler, and that a mutex has one owner. Of the
  threads of a deadlock the one that waits for the mutex of highest rank would then have to find its
  owner waiting for a higher one (`CulpritsFollow`).
* `OperationsKeepTheOrder` states what `Good` gives for every operation and every thread: each mutex is given
  back as often as it is taken, and asked for in order. `MutexesHaveOneOwner` states the last part of
  `LockInv` in the terms of the model: what a thread holds, read off what it still has to give back, nobody
  else holds, wherever a signal interrupts it.
* `PlacesStayRight`: `TracerInv` says that as long as `overlapped` is false one thread at most is inside the
  tracer, that its copy of the roll is the roll, and that the block it fills names functions on
  that roll.

The library's induction theorems take an operator, which the provers cannot instantiate; `SetInduction` is
induction over the natural numbers with a set in its place, and gives the equations of the
functions on sequences that the models use. `SelectSeq` takes an operator, too, hence `ElementsIn`.

Only checked by TLC: the liveness properties `StopReturns`, `TerminatedIsRemoved`, `CallsReturn`, `Drains` and
`StopReleases`, which are outside the reach of the prover. `OnlyStartAndSlotsFail`, `RemovedOnce`,
`RunOwnsItsThread` and the refinement of ThreadRegistry are proved under their assumptions on the calls
only, because they are false without; what the violated runs check is false, as they show.

## Not modelled

* `queuePromise()`: one insert under one mutex. The promise under a name that is taken is
  dropped without a word, where `Promises::queuePromise()` (`work.cpp:90`) would throw; nothing in the
  repository fulfils a promise. `Store::next()` and `resolveDescriptors()` are declared only.
* The synchronous modes of a Socket, its UDP part and the resolving of AsioClient.
* The payload of a Buffer and its JSON; `UsesAllocator::alloc()` and `free()` as said above.
* Status, a base class that only declares.
* Text handling (`regexen`, the rest of `string_list`, the text of log lines and reports),
  hashing (`crypto`), the metatype tables and the JSON, asio and PEGTL libraries carry no state
  of drumlin.
* The test programs; their calls are the model's inputs.
