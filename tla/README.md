# A TLA+ verification of the Curica runtime

Curica is a JavaScript runtime in C: a compiler to register bytecode, an
interpreter, a generational collector, a process-wide thread pool, one event loop
per JS thread, and native modules that keep sockets, processes, files, messages
and statements alive between callbacks. This project models those parts, checks
them with TLC, and proves with TLAPS, for every size of the system, the safety of
the parts whose models have no recursive operators: the pool, the loop, the task
queues, Atomics, workers and ports, addons, sockets, requests, datagrams,
pipelines and statements.

Contents: 1 the parts, 2 the modules, 3 what is checked, 4 what is proved,
5 what is only model-checked, 6 disagreements, 7 abstractions, 8 not modelled,
9 what comes next. `PROJECT.json` lists every part, run, mutant and hazard, and
for each definition the lines it models.

## 1. The system and its parts

| Part | State | Interacts with | What is hard |
|---|---|---|---|
| Thread pool (`thread_pool.c`) | work and done queues, `active_items`, `pending_count`, wakeup pipe | event loops of all JS threads, collector | three mutexes, lossy wakeup bytes, shutdown, a collection while items move |
| Event loop (`event_loop.c`) | timers, immediates, handles, stop flag | pool, task queues, every native module | callbacks change the lists a phase is walking |
| Task queues (`vm.c`, `builtins.c`) | nextTick and microtask queue | interpreter, event loop | drains inside drains, five entry points with different rules |
| Async functions (`vm.c`, `builtins.c`) | promises, coroutines, `vm->error_handler` | task queues | one error chain, many stacks |
| Atomics (`atomics.c`) | wait nodes, shared cells | Web Workers | lost wakeups, reuse of nodes |
| Web Workers (`worker_module.c`) | two queues, two pipes, terminate flag, handle | two event loops | terminate from a callback, full pipes, join |
| Message ports (`worker_threads_module.c`) | shared queues with reference counts | event loop | a batch that outlives its port |
| Native addons (`napi.c`) | works, thread-safe functions, arrays, wraps | pool, collector | what is freed while the pool holds it |
| Sockets, HTTP, WebSocket, datagrams | buffers, event masks, handles | event loop, a peer | partial reads and writes, hang-ups, re-entry from callbacks |
| Child processes (`child_process_module.c`, `stream.js`) | pipes, streams, a wait on the pool | event loop, pool | everyone waiting on everyone, end against last bytes |
| Memory (`alloc.c`) | old space, nursery, remembered set, roots | everything | a collection between any two steps |
| Compiler and interpreter (`compiler.c`, `vm.c`) | tokens, tree, scopes, code; frames, registers, handlers | each other | back-patching, overlaid registers, exceptions across frames |
| Modules (`builtins.c`) | cache of exports | interpreter, file system | cycles, errors, several keys for one file |
| Files (`fs_module.c`, `vfs_module.c`) | tables of files and descriptors, `errno` | pool | three threads in tables without a lock |
| Key-value store (`kv_store.c`) | index in memory, log on disk | file system | crash between any two writes |
| SQLite (`sqlite_module.c`) | connection, prepared statements | the library | statements used in any order |

## 2. Modules

| Module | Models | State and actions |
|---|---|---|
| `AsyncOps` | what the pool promises | an operation is submitted, its `after()` is called once, then it is settled; the count covers it from submission to return |
| `ThreadPool`, `MCThreadPool` | `thread_pool.c` | one action per critical section; `wpc` is the place of a pool thread in `worker_main`, `lpc` that of a JS thread in its loop; `stage` and `owner` are history |
| `EventLoop` | `event_loop.c`, timers and immediates of `builtins.c` | one action per `el_` function, enabled while a callback runs; one per step of a phase; the pool is an instance of `AsyncOps` |
| `TaskQueues` | queues and drains of `vm.c`, their callers | `cstack` is the C stack, one entry per activation of a drain or a function |
| `AsyncFunctions` | coroutines and error handlers of `vm.c`, promises of `builtins.c` | `running` is the nesting of `vm_coro_resume`; `chain` is `vm->error_handler` with its `prev` pointers; `open` records which handler each try block should meet |
| `Atomics` | `atomics.c` | what is under `atomics_mutex` is one step; waiting on a condition variable is two |
| `Worker` | `worker_module.c` | every access to a queue, a pipe or the flag is a step; `nextUp` says that Phase 2 of main's loop holds the listener as its next handle |
| `MessageChannel` | `worker_threads_module.c` | post, listen, close; the callback takes a batch and delivers it message by message, each of which may post or close; `nextUp` as in `Worker` |
| `Napi` | `napi.c` over pool threads | works and calls with their states, the addon that creates, queues, deletes and releases, the function perhaps too early (`early`); arrays with capacity |
| `Net` | `net_module.c` | a socket record with descriptor, event mask, buffer and link; `ready` is what `poll()` reported and the walk has not delivered, `cb` the place in the callback on the stack; a socket is made by `connect` or accepted by the server |
| `WebSocket` | `websocket_module.c` | `pc` walks the callback through TLS, upgrade, read, frames, flush; `wire` is what the server has sent, cut anywhere |
| `Http` | `http_module.c`, `fetch.js` | a request from creation to release, with its promise, or one that is refused or cannot be set up; redirects create the next one from the callback |
| `ChildProcess` | `child_process_module.c`, `stream.js` | two children, `src` and `cat`, and the parent that pipes one into the other with blocking writes |
| `Dgram` | `dgram_module.c`, `dgram.js` | sockets, the kernel's buffers, the walk over the ready descriptors |
| `Arena` | the old space of `alloc.c` | `hdr` is the array of headers by address; an allocation that the nursery cannot take is `NurseryFull`, some `Promote`, `MinorEnds` (with the sweep of a major collection, if one is due) and, for a large block, `AllocLarge`; allocation in the old space searches and splits, the sweep merges |
| `Heap` | collections, roots, barrier, weak references, finalizers of `alloc.c` and the constructors that allocate | `h` is the heap of blocks; a collection may come at every allocation of an operation, and each store has the barrier the code gives it, or none |
| `Syntax` | `ast.h` | the trees, and a printer that is the reference for the parser |
| `Parser` | scanner and parser of `compiler.c` | one operator per parse function on a record of tokens, position and error flag; one step per top-level statement |
| `Compiler` | scopes and code generation of `compiler.c` | operators from a tree to code: `Resolve`, `Compile…`, registers and patching as in the C functions |
| `Machine` | `vm_run`, `vm_throw_error`, `vm_call_function` | one action per group of instructions; `want` is what the program should print, computed from the tree by a denotational reference |
| `Modules` | `require` and resolution in `builtins.c` | the stack of modules being evaluated, the cache by key; `SampleProject` is the directory |
| `KVStore` | `kv_store.c` | the log is a sequence of pieces; `Replay` is the reader of `kv_open`; `store` is what the callers were promised |
| `FileSystem` | `fs_module.c`, `vfs_module.c` | a call is a walk of a thread through open, read, write, close; slots of `files` and `fds`; `errno` per thread |
| `Sqlite` | `sqlite_module.c` | `stmt` as the wrapper sees it, cursor and bindings as the library keeps them |
| `SamplePrograms`, `SampleSources`, `SampleProject` | | the programs, texts and directory the runs use |
| `Messaging`, `Turns`, `Addons`, `Transport`, `Streams`, `Storage` | | two components each (`Turns` and `Addons` one): their constants, variables and instances, and the property each promises. The MC module and the module of proofs both extend them, so TLC checks the formula that is proved |
| `MCConcurrency`, `MCChannels`, `MCState`, `MCMachine` | | instances |
| `QueueFacts` | | lemmas on sequences as queues |
| `ThreadPoolProofs`, `EventLoopProofs`, `ThreadProofs`, `MessageProofs`, `CallbackProofs`, `StreamProofs`, `StoreProofs` | | the proofs: pool; loop; Atomics and addons; ports and workers; task queues, requests and datagrams; sockets and pipelines; statements |

`MCConcurrency`, `MCChannels` and `MCState` each check several components in one
run: the variable `part`, chosen in the initial state, says which of them moves,
and the others stay as they began. Each is checked in all its behaviours; they
are not interleaved with each other, because they share no state.

Definitions whose comment begins with "Mutant:" are faulty variants of the
definition that follows them. They are not part of a specification: each is
substituted for its original to see that a property notices.

How the parts fit together. `EventLoop` uses the pool through `AsyncOps`, and
`ThreadPool` is shown to implement `AsyncOps`, so what `EventLoop` checks holds
with the real pool; `Napi`, `FileSystem` and `ChildProcess` use the pool in the
same way (a queue, threads that take items, completion on the JS thread).
`TaskQueues` starts from what `EventLoop` calls a callback and looks inside it;
`AsyncFunctions` starts from what `TaskQueues` calls a task. The modules with
handles use the loop through one promise: a callback is made while its descriptor
is ready (`ReadyHandlesServed`). `Machine` runs what `Compiler` emits, and
`Compiler` takes the trees that `Parser` is shown to build.

## 3. What is checked

Runs that pass (names of a component's own properties in brackets):

| Run | Properties | What they say |
|---|---|---|
| `ThreadPool_safe` | `PendingCountsInFlight`, `NoStrandedCompletion`, `MarkMissesOnlyFinished`, `MainExitsDrained`, `FreeRunsQueuedWork`, `ImplementsAsyncOps`, `ItemsInOnePlace` | an item is in one place of the pool, once; the count is exact at every step; a completed item always has a byte, a byte to come or a drain in progress; a collection traces all that is queued or active; nothing submitted is dropped at exit or shutdown |
| `ThreadPool_live` | `WorkCompletes`, `FreeReturns` | work completes although one item never returns |
| `EventLoop_timers` | `ExitsOnlyWhenIdle`, `ClearedNeverRuns`, `TimersInExpiryOrder`, `NoExpiredTimerSkipped`, `EverythingScheduledRuns` | timers, immediates and a pool item set and cleared from any callback |
| `EventLoop_io` | `EventsReachTheirHandles`, `ReadyHandlesServed` | which changes of the handle list Phase 2 tolerates |
| `Concurrency` | `CoroutinesSound` | each suspension has one resumption, handlers nest, errors are caught where they should be [`OneResumption`, `HandlersNest`, `ErrorsStayLocal`] |
| | `TurnsDrain`, `SyncTicksFirst` | no task starts on top of other JS code; a turn leaves both queues empty; ticks first |
| | `WaitersSound` | wait nodes agree with their threads, no thread sleeps on a changed cell nobody will notify [`NodesMatchWaiters`, `NoMissedNotify`] |
| | `WorkerSound`, `NothingAfterTerminate` | a queued message has something to wake its receiver, the handle outlives its users [`NoStrandedMessage`, `HandleOutlivesUsers`] |
| | `PortsInOrder` | messages arrive once and in order, queues are freed by the last close |
| | `AddonSound` | no work or call is used after it was freed, the function only after an early release; works and calls complete once, elements are kept [`UsesAreLive`, `CompletedOnce`, `ElementsKept`] |
| | `EveryoneProceeds` | liveness of all six: awaiters resume, tasks run, waiters wake, `terminate()` returns, messages are delivered, works complete |
| `Channels` | `SocketsKeepBytes` | bytes leave in order, FIN behind them, buffered bytes are watched for, one 'close' |
| | `FramesInOrder` | messages in order however reads cut frames, close frame last, onclose last and once |
| | `RequestsCalledBackOnce` | one callback and one settlement for each request that went out, on every path; a refused one is rejected, one that cannot be set up is never called back |
| | `PipelineWhole` | no byte lost or overtaken between two children, 'end' behind the last |
| | `DatagramsOnce` | at most once, never after 'close' |
| | `EveryoneServed` | liveness: bytes are sent, closes complete, fetches that went out settle, blocking writes return, exits are reported |
| `State` | `HeapSound`, `WrapsKept` | references lead to their blocks through any collections, but for the ways to lose one that section 6 lists; the remembered set is complete but for stores without barrier or room; no finalizer for an object in use |
| | `BlocksSound` | live blocks are disjoint, headers tile the space, the count of free bytes is never low |
| | `ParsesAsWritten` | the parser builds the tree a text was printed from, and rejects texts that stop in the middle |
| | `RunsAsWritten` | a compiled program prints and throws what its source says |
| | `LoadsSound` | one load per key, shared exports, nearest package, through cycles and errors |
| | `LogSound` | the log can be replayed after a crash at any moment and the index agrees with it [`Recoverable`, `IndexMatchesLog`] |
| | `FilesSound` | descriptors keep their file, none leaks, appended bytes stay, a host failure is reported unless it is one of the read and write results the code ignores |
| | `StatementsSound` | no finalized statement is used, a query starts at its first row, what is stored is what was bound |

Runs that fail, each a disagreement between the code and what the repository
says of it (quoted in `PROJECT.json`, findings):

| Run | What the code does |
|---|---|
| `EventLoop_revents` | after a callback changed the list ahead of the walk, a handle gets another descriptor's events |
| `AsyncFunctions_throw` | the error handler chain is not switched with the coroutine; an error in a coroutine can end the process |
| `KVStore_torn` | records appended behind a torn record are lost |
| `Machine_breaks` | `break` and `continue` in a loop jump nowhere |
| `Sqlite_integers` | an integer parameter is stored as NULL |

The passing properties exclude these cases, and those of section 6, by name:
`EventsReachTheirHandles` and
`ReadyHandlesServed` by `disturbed`, `HandlersNest` and `ErrorsStayLocal` by
`mixed` and `leaked`, `Recoverable` and `IndexMatchesLog` by `unsound`,
`RunsAsWritten` by `cause`, `BlocksSound` by `stale`, `ReferencesValid` by
`unrooted`, `resumed`, `grown`, `dropped` and the kinds "error" and "opaque",
`BufferedIsWatched` by `stalled`,
`DescriptorsKeepTheirFile` and `AppendsKept` by `undef`, `orphan` and `overlap`
(two threads in one slot of a table), `HostFailuresReported` by `lost`,
`NearestPackage` by `Suffixed`, `UsesAreLive` by `early`,
`ParsesAsWritten` by `TakenAsComplete`. Where the code reads freed memory, the
variable `undefined` (in `Heap` a stale reference) ends the behaviour: the
properties hold up to there. The texts that the parser is known to
refuse or to misread are left out of the sources by `Unreadable` in
`SampleSources`, and the printer does not write the forms that the grammar of
the code lacks.

### Bounds

| Component | Instance | Why it is enough |
|---|---|---|
| Thread pool | 2 threads, 3 items (4 in the live run), 2 JS threads, pipe of 1 byte | a thread that waits or has just finished beside one that works, with an item queued; the proofs cover the rest |
| Event loop | 3 timers over a clock to 2, 2 immediates, 1 pool item; 3 handles | equal, earlier and later expiry; a part behind the walk, a current handle, a part ahead. `IntMax` is the largest timeout |
| Async functions | 3 coroutines, 1 external promise, 3 handlers | a chain of awaits and two awaiters of one promise; a try block around a call that has one of its own |
| Task queues | 2 ticks, 2 microtasks (one of each enqueued by sync code), `MaxTicks` 1, `MaxCalls` 2, `MaxNested` 2 | a drain within a drain |
| Atomics | 3 threads, 3 cells, 2 nodes, `MaxVal` 1 | sharing, reuse and exhaustion of nodes |
| Worker, ports | 2 messages to and 2 from the worker, 3 posts; pipes of 1 byte | the full pipe, in practice 64 KiB, becomes an everyday event |
| Addons | 2 works, 2 calls, 2 pool threads; arrays of capacity 2, indices to 2 | out-of-order completion, an index beyond the capacity |
| Net | one socket, connecting or accepted, 3 bytes, room for 1 in the kernel; a handle table of 9 (`Net`) or of 6 (`Crowded`), too small for all methods | partial writes and a buffer at every moment; methods that could not be bound |
| WebSocket, Http | 2 frames and 1 message with room for 1; 2 requests | a frame cut by a read, a redirect while another request is out |
| Child processes | 8 bytes, pipes of 3, reads of 1 | both pipes full at once |
| Datagrams | 2 sockets, 2 sends, buffers of 2 | one socket closed by the other's callback |
| Arena | 10 words, nursery of 4, sizes 2, 3, 5; 5 allocations | split, exact fit, failure, merging on both sides |
| Heap | nursery of 2, 5 blocks, remembered set of 1; seven scenarios, each with objects and stores and one or two of: sets, errors, blocks that are not traced, promises, stores by the inline cache, wraps and callbacks, coroutines, strings | a collection inside every operation, a full remembered set |
| Parser | about 9,600 texts: every expression form inside every expression and statement form, every statement inside every enclosing one, with full and with omitted optional punctuation, and every prefix of the simple ones | each pair of parse functions that call each other |
| Compiler, machine | about 2,400 programs of nested control statements and calls; 60 registers, 400 steps | each pair of statement forms nested, calls within arguments, callbacks |
| Modules | a project of files, packages, a cycle, a throwing module, one that does not compile, an addon that may not open, an ES module, a directory whose name ends in `node_modules`; 7 loads | every branch of the resolution |
| KVStore | 2 keys (one begins with a blank), 2 values, 3 writes, 1 compaction | a write before and after a compaction, with a crash in each |
| Files | 3 paths (host, tmpfs, generated), 2 pool threads and the JS thread, 1 file slot, 2 descriptor slots, 2 calls | full tables, two threads in one table |
| SQLite | 2 statements, 2 rows | interleaved use of two statements |

Deadlock is not checked where the program may end or all threads may be idle.

### Fairness

Weak fairness of a thread's own steps says that the operating system schedules
it; weak fairness of a loop's steps says that a callback returns (the loop is not
expected to progress inside an endless script). Beyond that: `work()` of items
outside `Stuck` returns; a collection ends, and there are not infinitely many
within one callback (strong fairness of `TickDrain` and `AfterReturn`); an item
that stays pending is found by some drain (strong fairness of `DrainItem` in
`EventLoop`, which is what `WorkCompletes` gives); a loop whose pipe stays
readable reaches its callback although timers keep running (strong fairness of
`WorkerCallback`: `poll()` reports all ready descriptors in each tick); a running
coroutine comes to its end or to an await, though it may go on awaiting for ever;
a program that changes a cell it waits on calls `Atomics.notify` afterwards. Of
the outside world, `EveryoneServed` assumes what the code waits for without a
timeout: the peer of a socket reads what it was sent and a connection under way
is established or refused, an HTTP server ends its answer or hangs up, a
WebSocket server reads, a child reads its input and exits when that has ended.
It does not assume that a TLS handshake completes.

## 4. What is proved

The theorems hold for every value of the constants that satisfies the named
assumption of the module: any number of threads, items, timers, handles, messages,
bytes, requests, statements and rows. Each follows from an inductive invariant,
shown to hold initially and to be kept by each action; the sentence with the
theorem says what the invariant adds to the property.

`ThreadPoolProofs` (`PoolAssumption`; from `Ownership` on also `WorkersAssumption`):

| Theorem | Statement | Invariant |
|---|---|---|
| `Invariance` | `Spec => []IInv` | `TypeOK`, `PcInv`, `PlaceInv`, `OnceInv`, `CountInv` |
| `ItemsStayApart` | `Spec => []ItemsInOnePlace` | `IInv` |
| `PendingExact` | `Spec => []PendingCountsInFlight` | `IInv` |
| `Implementation` | `Spec => ImplementsAsyncOps` | `IInv` |
| `NoLostWakeup` | `Spec => []NoStrandedCompletion` | `WakeInv` on top of `IInv` |
| `Ownership` | `Spec => []OwnerInv` | `OwnInv`, `MarkInv`, `MainInv` |
| `CollectionsTraceWork` | `Spec => []MarkMissesOnlyFinished` | `OwnerInv` |
| `MainLosesNothing`, `FreeLosesNothing` | `Spec => []MainExitsDrained`, `Spec => []FreeRunsQueuedWork` | `OwnerInv` |

`PendingCountsInFlight` compares a counter with the size of a union of places,
which is not inductive: an item in two places would be counted once. So `PcInv`
says at which program points a thread has an item in its slot, `PlaceInv` that the
history `stage` of an item names the one place it is in, `OnceInv` that it is there
once, and `CountInv` that `pending` is the number of items whose stage is between
"counted" and "after". Each action moves one item to the next place, so it changes
one stage and a cardinality by one (`QueueFacts`). `Implementation` uses the same
invariant: submission, pop and return change `opState`, all other actions stutter.
`OwnInv` ties an item to the JS thread that submitted it, `MarkInv` says what a
collection under way has traced, `MainInv` that a pool thread leaves only after it
saw an empty queue.

`EventLoopProofs` (`LoopAssumption`), all from `LoopInv`, proved in
`LoopStaysConsistent`:

| Theorem | Statement |
|---|---|
| `LoopExitsIdle` | `Spec => []ExitsOnlyWhenIdle` |
| `ClearedStayCleared` | `Spec => []ClearedNeverRuns` |
| `EventsFindTheirHandles` | `Spec => []EventsReachTheirHandles` |
| `TimersKeepOrder`, `ExpiredTimersRun` | `Spec => TimersInExpiryOrder`, `Spec => NoExpiredTimerSkipped` |

`LoopInv` has a part for each structure: the sorted list of timers (`TimerInv`),
the queue of immediates (`CheckInv`), the operations in the pool (`PoolInv`), the
phase (`ControlInv`), and the list of handles. `WalkInv` is the part that
`EventsReachTheirHandles` needs: while no timer has added a handle and no callback has
removed one that the walk has still to visit (`disturbed`), the list still ends with the handles of the slots of
`poll()` that the walk has not passed.

The other modules; the properties are those of section 3:

| Module, theorem | Shows | Invariant, and what it adds |
|---|---|---|
| `ThreadProofs`, `WaitersStaySound` | `WaitersSound` | `IInv`; `HoldInv`: a thread holds a node exactly while it waits |
| `ThreadProofs`, `AddonsStaySound` | `AddonSound` | `AddonInv`: an item is waiting, taken, finished or completed, and its object is in the state of that place; `ReleaseInv`: after a release that was not early no call is left to deliver |
| `MessageProofs`, `PortsStayInOrder` | `PortsInOrder` | `ChannelInv`: delivered, batch and queue are consecutive numbers, a reference for each open port; `PortWalk`: what the loop holds as next handle |
| `MessageProofs`, `WorkersStaySound`, `TerminateIsFinal` | `WorkerSound`, `NothingAfterTerminate` | `WorkerInv`; `StageInv` and `HandleInv`: where the two threads can be when the handle is live, to be freed, or freed |
| `CallbackProofs`, `DrainsKeepPromises`, `EveryTurnDrains`, `SyncTicksComeFirst` | `TurnsDrain`, `SyncTicksFirst` | `DrainInv`: while a task of a sync turn is queued, a drain is on the stack or to come |
| `CallbackProofs`, `RequestsSettleOnce` | `RequestsCalledBackOnce` | `HttpInv`: the state of a request determines that of its promise |
| `CallbackProofs`, `DatagramsArriveOnce` | `DatagramsOnce` | `SocketInv`, `NumberInv`, `CountInv`: a number is under way, in a buffer or delivered, and one of these only |
| `StreamProofs`, `SocketsStaySound` | `SocketsKeepBytes` | `NetInv`: the buffer continues what was sent; a callback that may still emit 'close' has not done so |
| `StreamProofs`, `PipelineStaysWhole` | `PipelineWhole` | `ChildInv`; `BytesInv`: the seven places a byte can be in, one behind the other |
| `StoreProofs`, `StatementsStaySound` | `StatementsSound` | `SqliteInv`: a native statement keeps its connection open |

Assumptions: `AtomicsAssumption`, `AddonsAssumption`, `MessagingAssumption`,
`TurnsAssumption`, `TransportAssumption`, `StreamsAssumption` and
`StorageAssumption`. They say that sets counted are finite, that bounds are
natural numbers, that pipes hold a byte, and for pipelines that one read of a
child's output fits in a pipe (4,096 bytes and 65,536).

The theorems about modules with an `undefined` variable, like the runs, speak of
behaviours up to the step that reads freed memory, and say which calls alone lead
there. For `Worker` and `MessageChannel` this is a `terminate()` or `close()` that
is not made in the callback of the handle itself.

## 5. What is only model-checked

* Liveness (`WorkCompletes`, `FreeReturns`, `EverythingScheduledRuns`,
  `ReadyHandlesServed`, `EveryoneProceeds`, `EveryoneServed`): it needs fairness
  and `ENABLED`, which the prover does not handle.
* `HeapSound`, `WrapsKept`, `BlocksSound`, `ParsesAsWritten`, `RunsAsWritten`:
  their modules are built on recursive operators, for which the prover has no
  induction.
* `FramesInOrder`, `CoroutinesSound`, `LogSound` and `LoadsSound`: `WebSocket`,
  `AsyncFunctions`, `KVStore` and `Modules` filter, flatten and fold sequences
  (`SelectSeq`, `FlattenSeq`, `FoldLeft`), and what these compute for every input
  needs the same induction.
* `FilesSound`: no obstacle is known beyond the size of `FileSystem`; it is not
  proved.

## 6. Disagreements for which no run is kept

Met while modelling; each is the reason for an exclusion named in section 3 or
for a line in a module's header. Where a document says otherwise it is named.

Pool, loop and queues:

* `MarkMissesOnlyFinished` leaves out the completion queue: an item that a pool
  thread completes between the second and the third pass of `tp_mark_gc_roots`
  is traced by neither (`thread_pool.h:61` says all pending items are).
* `AsyncOps` does not say which JS thread runs `after()`: with a Web Worker it
  need not be the main thread (`thread_pool.h:14` says it is).
* Timers of equal expiry run last-in first-out (`event_loop.c:60`).
* An immediate set by an immediate runs in the same Check phase
  (`event_loop.h:98` says in the next).
* `clearImmediate` misses a handle whose address does not fit 32 bits
  (`builtins.c:2115`; `Fits32`).
* A delay beyond `IntMax` can make the timeout of `poll()` negative
  (`event_loop.c:179`).
* What a resumed coroutine enqueues with `process.nextTick` can be overtaken by
  microtasks, left over at the end of a tick, and lost at exit
  (`event_loop.h:14` says both queues are drained after each tick).
* `Atomics.notify` counts again the threads that an earlier call woke and that
  have not left their node yet (`atomics.c:185`); a worker blocked in
  `Atomics.wait` does not see `terminate()`.

Messages and addons:

* Phase 2 of the loop keeps the next handle while a callback runs. `terminate()`
  or the `close()` of a port, called in the callback before, frees that handle and
  the loop goes on at freed memory (`undefined` in `Worker` and
  `MessageChannel`).
* The port object that `worker_threads_module.c:149` keeps is not a root of the
  collector.
* `napi_release_threadsafe_function` frees the function under calls still queued
  (`early` in `Napi`) and runs the finalizer on the releasing thread (`docs/05`,
  line 30); calls are
  delivered in the order in which pool threads finish; the JS function is not a
  root; `napi_set_element` beyond the capacity stores nothing and returns ok.

Sockets and processes:

* `on_connect` takes the `POLLOUT` of bytes that were written before the
  connection was made; they wait until the next write (`net_module.c:125`).
* `destroy()` inside `on_connect` or `on_data` unlinks the handle that the
  callback below still uses.
* WebSocket continuation frames are dropped (`docs/07`, line 15), only one text
  frame is taken from each read, and a constructor that fails closes descriptor 0.
* A request whose connection cannot be set up never calls back; a redirect
  fulfils the promise with a promise. `fetch` rejects
  protocols other than http and https.

Memory:

* A sweep merges the block that the next-fit pointer leads to; the next search
  begins inside a block (`Arena!LiveBlocksDisjoint`; `docs/02`, line 23).
* References are lost in a full remembered set, in the registers of a suspended
  coroutine, and in C variables of `create_set` and `create_error`
  (`Heap!NoDanglingReference`; `docs/02`, line 22).
* A minor collection traces neither the name of an error nor what a symbol, a
  regular expression, a `Float16Array` or a `Buffer` refers to
  (`alloc.c:1430-1537`; kinds "error" and "opaque" of `Heap`), and some stores have
  no barrier (the inline cache, `vm.c:1977`; array elements, `vm.c:2013`; `set_add`; the settling of a promise,
  `builtins.c:2019` and `:2046`; `napi.c:394`; `vm.c:758`).
* Other functions hold an address across an allocation as `create_set` does and
  are not in the model: the growth of an object in `do_store_prop`
  (`vm.c:2000-2010`), `set_resize`, `js_promise_then`, `create_iterator_helper`.

Parser (texts it refuses or reads in another way than the language):

* `new A().m()`, a trailing comma in arrow parameters, `{get: 1}`, unary plus,
  `for (x of xs)` without a declaration, a bare `return` before `case`, a bare
  `yield` before `:` are refused; `get`, `set`, `of`, `from`, `as`, `async`,
  `static` and `using` are not identifiers.
* `a ? b : c = d` assigns to the conditional; `let a = 1, b = 2` initialises `a`
  with a sequence (the comment at `compiler.c:2020` says only the first is
  handled); after a `break` without semicolon the rest of a case is skipped.
* A keyword used as a property name makes a following `/` begin a regular
  expression; after `typeof`, `void`, `delete`, `new` and `yield` it is a division.
* `async x => e` as a statement loses `async`; `import * as n` binds the default
  export; `export * from` is dropped; `export {a} from 'm'` exports the local
  name; `export const {a} = o` exports nothing.
* `()` alone, a spread in parentheses, a name missing after `new a.` or `a?.`,
  and an unterminated template are accepted; `export` at the end of the text
  reads a null node (status "crashed").
* `const` is not enforced and `var` is `let`.

Compiler and interpreter (`cause` in `Machine`):

* A `break` in a `switch` leads to the end of its own case.
* `alloc_register` has no limit (`compiler.c:2636`); the offset of a jump is cut
  to 16 bits (`compiler.c:3261`).
* A throw neither pops the roots of calls of `new` nor restores `this`; a
  `return` in a try block leaves its handler behind.
* `for`-`in` does not iterate; a captured `for`-`of` variable is never stored;
  `===` takes null for undefined; `instanceof` ignores its right side.

Modules, files and stores:

* Keys of the module cache are not normalised, so one file can be loaded under
  two names (`docs/06`, line 10); a module that throws stays in the cache; the
  first `require` of an ES module returns a promise; `/node_modules` is not tried
  (`docs/06`, line 7).
* The search for packages takes a directory whose name ends in the characters
  `node_modules` for one of that name (`builtins.c:2471`); a file that does not
  compile gives `undefined`, uncached (`builtins.c:2728-2737`); an addon that
  cannot be opened gives empty exports (`builtins.c:2356-2368`).
* Reads that fail give an empty file and results of writes are ignored, and the
  call is reported as a success (`fs_module.c:103`, `:142`, `:170`, `:529`, `:612`,
  `:705`; `lost` in `FileSystem`).
* The virtual file system fails without setting `errno`: the call is reported
  with the status of an earlier one (`FileSystem!FailuresReported`;
  `vfs_module.c:62`, `:490`). Its tables have no lock.
* Keys that begin with white space are not read back (`kv_store.c:98`); a failed
  compaction leaves a closed `FILE` (`kv_store.c:209`); two contexts on one file
  overwrite each other.
* `close()` ignores the result of `sqlite3_close` (`sqlite_module.c:118`) and
  `run()` that of the step.

## 7. Abstractions

* JavaScript is whatever calls a callback may make: any operation, in any order.
* Payloads (messages, results, bytes, values of promises) are names or numbers.
* `malloc` and thread creation do not fail, except where the code handles it.
* Output to the log of `KVStore` does not fail (`kv_store.c:141-145`, `:218-225`
  ignore the results); a crash in the middle of it is modelled.
* Each critical section is a step; a read or write of a pipe is a step; a call of
  the host's file system is a step.
* The kernel, peers, children, SQLite and the loader of addons are external:
  they may do what their interface allows.
* A closed `FILE` that is written to (`KVStore`, "dangling") may write or not; a
  data race, a write through a null pointer or a `longjmp` to a handler of
  another stack is an outcome of its own, and the model says nothing of what
  follows.
* A token of `Parser` is a kind and a value; the characters of numbers, strings
  and regular expressions are not modelled. The ten functions from
  `parse_logical_or` to `parse_multiplicative`, which differ in their operators
  only, are one loop over the levels.
* `Compiler` and `Machine` take a smaller language than `Parser`: variables,
  operators, calls, functions, control statements and exceptions.
* `MaxCode`, 2^16 instructions, bounds a compiled program; no sample comes near it.
* Addresses and sizes in `Arena` count words; in `Heap` an object is a block with
  one block of data.

## 8. Not modelled

| Part | Why |
|---|---|
| Code for objects, classes, destructuring, iterators, generators, modules in the compiler and the interpreter | sequential and data-dependent: what they do is a matter of values, best tested by input and output |
| Built-in library (`builtins.c`: strings, arrays, maps, JSON, dates, typed arrays, console), regular expressions (`slre.c`) | the same |
| Promise combinators | sequential bookkeeping over `then` and `settle`, which are modelled |
| Property access, hidden classes, conversions of N-API | the same |
| `spawnSync`, `exec`, `kill`; `readdir`, `access`, `watch`, `realpath` | one blocking system call each |
| Crypto, zlib, WASM, WASI, FFI, webview | bindings to foreign code; their asynchronous forms are pool items |
| Sandbox flag, command line, REPL, formatter, TypeScript stripper, bootstrapper, package manager, test runner, the remaining JavaScript wrappers | sequential drivers and text processing |

The definitions stand for about 10,200 of the 25,000 lines of the implementation.
Nearly all of the code whose order of steps matters is among them; what is left
is mostly the library of values.

## 9. What comes next

Proofs: `FilesSound`; then `OneResumption` of `AsyncFunctions`, whose statement,
unlike that of `HandlersNest`, does not use `FlattenSeq`.

Models: two contexts of `KVStore` on one file; `Worker` with `Atomics`
(`terminate()` against a worker that waits).
