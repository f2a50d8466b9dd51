----------------------------- MODULE ThreadPool -----------------------------
(***************************************************************************)
(* src/src/thread_pool.c: the pool of worker threads that runs blocking    *)
(* work for the JS threads.  Each critical section of work_mutex,          *)
(* done_mutex or pending_mutex is one action; between two of them any      *)
(* other thread may run.  The pool is global to the process, while every   *)
(* JS thread (the main thread and each Web Worker) runs its own event loop *)
(* and drains the one shared completion queue: Loops is the set of those   *)
(* threads.  Phases of el_run that do not touch the pool are the program   *)
(* counter value "js".                                                     *)
(***************************************************************************)
EXTENDS Integers, Sequences, FiniteSets, Functions

CONSTANTS
    Workers,     \* the TP_NUM_WORKERS pool threads
    Items,       \* the work items
    Stuck,       \* items whose work() never returns (waitpid on a live child)
    Loops,       \* the JS threads that run el_run
    MainLoop,    \* the main thread
    PipeCap,     \* bytes the wakeup pipe holds before write() fails
    MayFree,     \* whether tp_free is called
    NULL

ASSUME PoolAssumption ==
    /\ IsFiniteSet(Items)
    /\ NULL \notin Items \cup Loops
    /\ Stuck \subseteq Items
    /\ MainLoop \in Loops
    /\ PipeCap \in Nat \ {0}
    /\ MayFree \in BOOLEAN

\* TP_NUM_WORKERS is not zero.
ASSUME WorkersAssumption == Workers # {}

VARIABLES
    workQueue,    \* work_head .. work_tail
    doneQueue,    \* done_head .. done_tail
    activeItem,   \* active_items[worker_id]
    poolActive,   \* pool_active
    pipe,         \* bytes in the wakeup pipe
    pending,      \* pending_count
    wpc,          \* where each pool thread is in worker_main
    lpc,          \* where each JS thread is in its loop
    submitting,   \* item between the two critical sections of tp_submit
    after,        \* item whose after() runs on the JS thread
    marking,      \* progress of tp_mark_gc_roots on the JS thread
    marked,       \* items that tp_mark_gc_roots has traced
    stage,        \* history: how far each item has come
    owner         \* history: the JS thread that submitted each item

poolVars == <<workQueue, activeItem, poolActive, wpc>>
loopVars == <<lpc, submitting, after, owner>>
gcVars   == <<marking, marked>>
vars == <<workQueue, doneQueue, activeItem, poolActive, pipe, pending, wpc,
          lpc, submitting, after, marking, marked, stage, owner>>

Stages == {"new", "counted", "queued", "active", "done", "after", "finished"}

TypeOK ==
    /\ workQueue \in Seq(Items)
    /\ doneQueue \in Seq(Items)
    /\ activeItem \in [Workers -> Items \cup {NULL}]
    /\ poolActive \in BOOLEAN
    /\ pipe \in 0..PipeCap
    /\ pending \in Int
    /\ wpc \in [Workers -> {"lock", "waiting", "work", "wake", "exited"}]
    /\ lpc \in [Loops -> {"js", "drain", "pop", "after", "join", "exited"}]
    /\ submitting \in [Loops -> Items \cup {NULL}]
    /\ after \in [Loops -> Items \cup {NULL}]
    /\ marking \in [Loops -> {"idle", "work", "done", "all"}]
    /\ marked \in [Loops -> SUBSET Items]
    /\ stage \in [Items -> Stages]
    /\ owner \in [Items -> Loops \cup {NULL}]

\* tp_init
Init ==
    /\ workQueue = <<>>
    /\ doneQueue = <<>>
    /\ activeItem = [w \in Workers |-> NULL]
    /\ poolActive = TRUE
    /\ pipe = 0
    /\ pending = 0
    /\ wpc = [w \in Workers |-> "lock"]
    /\ lpc = [l \in Loops |-> "js"]
    /\ submitting = [l \in Loops |-> NULL]
    /\ after = [l \in Loops |-> NULL]
    /\ marking = [l \in Loops |-> "idle"]
    /\ marked = [l \in Loops |-> {}]
    /\ stage = [i \in Items |-> "new"]
    /\ owner = [i \in Items |-> NULL]

-----------------------------------------------------------------------------
(* worker_main *)

\* The queue is empty: block on work_cond.
WorkerWait(w) ==
    /\ wpc[w] = "lock"
    /\ workQueue = <<>>
    /\ poolActive
    /\ wpc' = [wpc EXCEPT ![w] = "waiting"]
    /\ UNCHANGED <<workQueue, doneQueue, activeItem, poolActive, pipe, pending,
                   loopVars, gcVars, stage>>

\* POSIX lets pthread_cond_wait return without a signal; the while loop
\* around it then looks at the queue again.
SpuriousWakeup(w) ==
    /\ wpc[w] = "waiting"
    /\ wpc' = [wpc EXCEPT ![w] = "lock"]
    /\ UNCHANGED <<workQueue, doneQueue, activeItem, poolActive, pipe, pending,
                   loopVars, gcVars, stage>>

\* Mutant: a worker leaves on shutdown without looking at the queue.
WorkerExitAtOnce(w) ==
    /\ wpc[w] = "lock"
    /\ ~poolActive
    /\ wpc' = [wpc EXCEPT ![w] = "exited"]
    /\ UNCHANGED <<workQueue, doneQueue, activeItem, poolActive, pipe, pending,
                   loopVars, gcVars, stage>>

WorkerExit(w) ==
    /\ wpc[w] = "lock"
    /\ workQueue = <<>>
    /\ ~poolActive
    /\ wpc' = [wpc EXCEPT ![w] = "exited"]
    /\ UNCHANGED <<workQueue, doneQueue, activeItem, poolActive, pipe, pending,
                   loopVars, gcVars, stage>>

\* Take the head of the queue and register it for the garbage collector.
WorkerDequeue(w) ==
    /\ wpc[w] = "lock"
    /\ workQueue # <<>>
    /\ workQueue' = Tail(workQueue)
    /\ activeItem' = [activeItem EXCEPT ![w] = Head(workQueue)]
    /\ stage' = [stage EXCEPT ![Head(workQueue)] = "active"]
    /\ wpc' = [wpc EXCEPT ![w] = "work"]
    /\ UNCHANGED <<doneQueue, poolActive, pipe, pending, loopVars, gcVars>>

\* Mutant: the item stays registered when it is published.
WorkerPushRegistered(w) ==
    /\ wpc[w] = "work"
    /\ doneQueue' = Append(doneQueue, activeItem[w])
    /\ stage' = [stage EXCEPT ![activeItem[w]] = "done"]
    /\ wpc' = [wpc EXCEPT ![w] = "wake"]
    /\ UNCHANGED <<workQueue, activeItem, poolActive, pipe, pending, loopVars, gcVars>>

\* work() has returned: publish the item and unregister it.
WorkerPush(w) ==
    /\ wpc[w] = "work"
    /\ doneQueue' = Append(doneQueue, activeItem[w])
    /\ stage' = [stage EXCEPT ![activeItem[w]] = "done"]
    /\ activeItem' = [activeItem EXCEPT ![w] = NULL]
    /\ wpc' = [wpc EXCEPT ![w] = "wake"]
    /\ UNCHANGED <<workQueue, poolActive, pipe, pending, loopVars, gcVars>>

\* Mutant: the byte is not written.
WorkerWakeSilent(w) ==
    /\ wpc[w] = "wake"
    /\ wpc' = [wpc EXCEPT ![w] = "lock"]
    /\ UNCHANGED <<workQueue, doneQueue, activeItem, poolActive, pipe, pending,
                   loopVars, gcVars, stage>>

\* The non-blocking write to the wakeup pipe; a full pipe drops the byte.
WorkerWake(w) ==
    /\ wpc[w] = "wake"
    /\ pipe' = IF pipe < PipeCap THEN pipe + 1 ELSE pipe
    /\ wpc' = [wpc EXCEPT ![w] = "lock"]
    /\ UNCHANGED <<workQueue, doneQueue, activeItem, poolActive, pending,
                   loopVars, gcVars, stage>>

-----------------------------------------------------------------------------
(* The JS threads *)

\* The thread executes JavaScript (or native code called from it), inside
\* after() or in another phase of its loop.
InJS(l) ==
    /\ lpc[l] \in {"js", "after"}
    /\ submitting[l] = NULL
    /\ marking[l] = "idle"

\* Mutant: tp_submit does not count the item.
SubmitUncounted(l, i) ==
    /\ InJS(l)
    /\ stage[i] = "new"
    /\ submitting' = [submitting EXCEPT ![l] = i]
    /\ stage' = [stage EXCEPT ![i] = "counted"]
    /\ owner' = [owner EXCEPT ![i] = l]
    /\ UNCHANGED <<poolVars, doneQueue, pipe, pending, lpc, after, gcVars>>

\* tp_submit, first critical section.
SubmitCount(l, i) ==
    /\ InJS(l)
    /\ stage[i] = "new"
    /\ pending' = pending + 1
    /\ submitting' = [submitting EXCEPT ![l] = i]
    /\ stage' = [stage EXCEPT ![i] = "counted"]
    /\ owner' = [owner EXCEPT ![i] = l]
    /\ UNCHANGED <<poolVars, doneQueue, pipe, lpc, after, gcVars>>

\* Mutant: tp_submit forgets pthread_cond_signal.
NoSignal == wpc' = wpc

\* pthread_cond_signal: one waiting thread, if there is one, is woken.
CondSignal ==
    LET waiting == {w \in Workers : wpc[w] = "waiting"}
    IN  IF waiting = {}
        THEN wpc' = wpc
        ELSE \E w \in waiting : wpc' = [wpc EXCEPT ![w] = "lock"]

\* tp_submit, second critical section.
SubmitEnqueue(l) ==
    /\ submitting[l] # NULL
    /\ workQueue' = Append(workQueue, submitting[l])
    /\ stage' = [stage EXCEPT ![submitting[l]] = "queued"]
    /\ submitting' = [submitting EXCEPT ![l] = NULL]
    /\ CondSignal
    /\ UNCHANGED <<doneQueue, activeItem, poolActive, pipe, pending, lpc,
                   after, owner, gcVars>>

\* el_run decides to drain: work is in flight, or poll() saw the wakeup pipe.
\* With work in flight poll() is called with a finite timeout.
TickDrain(l) ==
    /\ lpc[l] = "js" /\ InJS(l)
    /\ pending > 0 \/ pipe > 0
    /\ lpc' = [lpc EXCEPT ![l] = "drain"]
    /\ UNCHANGED <<poolVars, doneQueue, pipe, pending, submitting, after,
                   owner, gcVars, stage>>

\* Mutant: has_work ignores the items in flight.
TickExitEarly(l) ==
    /\ lpc[l] = "js" /\ InJS(l)
    /\ workQueue = <<>> /\ doneQueue = <<>>
    /\ lpc' = [lpc EXCEPT ![l] = "exited"]
    /\ UNCHANGED <<poolVars, doneQueue, pipe, pending, submitting, after,
                   owner, gcVars, stage>>

\* el_run leaves its loop: no pool work, and nothing else to wait for.
TickExit(l) ==
    /\ lpc[l] = "js" /\ InJS(l)
    /\ pending = 0
    /\ lpc' = [lpc EXCEPT ![l] = "exited"]
    /\ UNCHANGED <<poolVars, doneQueue, pipe, pending, submitting, after,
                   owner, gcVars, stage>>

\* A terminated Web Worker leaves its loop through stop_flag.
TickStop(l) ==
    /\ l # MainLoop
    /\ lpc[l] = "js" /\ InJS(l)
    /\ lpc' = [lpc EXCEPT ![l] = "exited"]
    /\ UNCHANGED <<poolVars, doneQueue, pipe, pending, submitting, after,
                   owner, gcVars, stage>>

\* tp_drain_completions empties the pipe first ...
DrainPipe(l) ==
    /\ lpc[l] = "drain"
    /\ pipe' = 0
    /\ lpc' = [lpc EXCEPT ![l] = "pop"]
    /\ UNCHANGED <<poolVars, doneQueue, pending, submitting, after, owner,
                   gcVars, stage>>

\* ... then takes completed items one at a time and calls after() ...
DrainPop(l) ==
    /\ lpc[l] = "pop"
    /\ doneQueue # <<>>
    /\ doneQueue' = Tail(doneQueue)
    /\ after' = [after EXCEPT ![l] = Head(doneQueue)]
    /\ stage' = [stage EXCEPT ![Head(doneQueue)] = "after"]
    /\ lpc' = [lpc EXCEPT ![l] = "after"]
    /\ UNCHANGED <<poolVars, pipe, pending, submitting, owner, gcVars>>

\* Mutant: an item whose after() has run is queued again.
AfterReturnAgain(l) ==
    /\ lpc[l] = "after" /\ InJS(l)
    /\ doneQueue' = Append(doneQueue, after[l])
    /\ stage' = [stage EXCEPT ![after[l]] = "done"]
    /\ after' = [after EXCEPT ![l] = NULL]
    /\ lpc' = [lpc EXCEPT ![l] = "pop"]
    /\ UNCHANGED <<poolVars, pending, pipe, submitting, owner, gcVars>>

\* ... and counts the item out when after() has returned ...
AfterReturn(l) ==
    /\ lpc[l] = "after" /\ InJS(l)
    /\ pending' = pending - 1
    /\ stage' = [stage EXCEPT ![after[l]] = "finished"]
    /\ after' = [after EXCEPT ![l] = NULL]
    /\ lpc' = [lpc EXCEPT ![l] = "pop"]
    /\ UNCHANGED <<poolVars, doneQueue, pipe, submitting, owner, gcVars>>

\* ... until the completion queue is empty.
DrainEnd(l) ==
    /\ lpc[l] = "pop"
    /\ doneQueue = <<>>
    /\ lpc' = [lpc EXCEPT ![l] = "js"]
    /\ UNCHANGED <<poolVars, doneQueue, pipe, pending, submitting, after,
                   owner, gcVars, stage>>

-----------------------------------------------------------------------------
(* tp_mark_gc_roots, called by a collection on a JS thread *)

GcMarkWork(l) ==
    /\ InJS(l)
    /\ marked' = [marked EXCEPT ![l] = Range(workQueue)]
    /\ marking' = [marking EXCEPT ![l] = "work"]
    /\ UNCHANGED <<poolVars, doneQueue, pipe, pending, loopVars, stage>>

GcMarkDone(l) ==
    /\ marking[l] = "work"
    /\ marked' = [marked EXCEPT ![l] = @ \cup Range(doneQueue)]
    /\ marking' = [marking EXCEPT ![l] = "done"]
    /\ UNCHANGED <<poolVars, doneQueue, pipe, pending, loopVars, stage>>

\* Mutant: the items being worked on are not traced.
GcMarkActiveNone(l) ==
    /\ marking[l] = "done"
    /\ marking' = [marking EXCEPT ![l] = "all"]
    /\ UNCHANGED <<poolVars, doneQueue, pipe, pending, loopVars, marked, stage>>

GcMarkActive(l) ==
    /\ marking[l] = "done"
    /\ marked' = [marked EXCEPT ![l] =
                     @ \cup {activeItem[w] : w \in {v \in Workers : activeItem[v] # NULL}}]
    /\ marking' = [marking EXCEPT ![l] = "all"]
    /\ UNCHANGED <<poolVars, doneQueue, pipe, pending, loopVars, stage>>

\* The collection ends; what it did not trace has been reclaimed.
GcEnd(l) ==
    /\ marking[l] = "all"
    /\ marked' = [marked EXCEPT ![l] = {}]
    /\ marking' = [marking EXCEPT ![l] = "idle"]
    /\ UNCHANGED <<poolVars, doneQueue, pipe, pending, loopVars, stage>>

-----------------------------------------------------------------------------
(* tp_free *)

\* Mutant: tp_free signals one worker instead of all.
FreeSignal ==
    /\ MayFree
    /\ poolActive
    /\ lpc[MainLoop] \in {"js", "exited"}
    /\ submitting[MainLoop] = NULL /\ marking[MainLoop] = "idle"
    /\ poolActive' = FALSE
    /\ CondSignal
    /\ lpc' = [lpc EXCEPT ![MainLoop] = "join"]
    /\ UNCHANGED <<workQueue, doneQueue, activeItem, pipe, pending, submitting,
                   after, owner, gcVars, stage>>

FreeBroadcast ==
    /\ MayFree
    /\ poolActive
    /\ lpc[MainLoop] \in {"js", "exited"}
    /\ submitting[MainLoop] = NULL /\ marking[MainLoop] = "idle"
    /\ poolActive' = FALSE
    /\ wpc' = [w \in Workers |-> IF wpc[w] = "waiting" THEN "lock" ELSE wpc[w]]
    /\ lpc' = [lpc EXCEPT ![MainLoop] = "join"]
    /\ UNCHANGED <<workQueue, doneQueue, activeItem, pipe, pending, submitting,
                   after, owner, gcVars, stage>>

\* Every pthread_join has returned; the pipe is closed.
FreeJoin ==
    /\ lpc[MainLoop] = "join"
    /\ \A w \in Workers : wpc[w] = "exited"
    /\ pipe' = 0
    /\ lpc' = [lpc EXCEPT ![MainLoop] = "exited"]
    /\ UNCHANGED <<poolVars, doneQueue, pending, submitting, after, owner,
                   gcVars, stage>>

-----------------------------------------------------------------------------
WorkerNext(w) ==
    \/ WorkerWait(w)
    \/ SpuriousWakeup(w)
    \/ WorkerExit(w)
    \/ WorkerDequeue(w)
    \/ WorkerPush(w) /\ activeItem[w] \notin Stuck
    \/ WorkerWake(w)

LoopNext(l) ==
    \/ \E i \in Items : SubmitCount(l, i)
    \/ SubmitEnqueue(l)
    \/ TickDrain(l)
    \/ TickExit(l)
    \/ TickStop(l)
    \/ DrainPipe(l)
    \/ DrainPop(l)
    \/ AfterReturn(l)
    \/ DrainEnd(l)
    \/ GcMarkWork(l)
    \/ GcMarkDone(l)
    \/ GcMarkActive(l)
    \/ GcEnd(l)

Next ==
    \/ \E w \in Workers : WorkerNext(w)
    \/ \E l \in Loops : LoopNext(l)
    \/ FreeBroadcast
    \/ FreeJoin

Spec == Init /\ [][Next]_vars

\* The operating system schedules every runnable thread; work() of an item
\* outside Stuck returns; JavaScript returns to the loop after finitely many
\* collections (strong fairness: a collection interrupts the step).
Fairness ==
    /\ \A w \in Workers :
          /\ WF_vars(WorkerExit(w))
          /\ WF_vars(WorkerDequeue(w))
          /\ WF_vars(WorkerPush(w) /\ activeItem[w] \notin Stuck)
          /\ WF_vars(WorkerWake(w))
    /\ \A l \in Loops :
          /\ WF_vars(SubmitEnqueue(l))
          /\ SF_vars(TickDrain(l))
          /\ WF_vars(DrainPipe(l))
          /\ WF_vars(DrainPop(l))
          /\ WF_vars(DrainEnd(l))
          /\ SF_vars(AfterReturn(l))
          /\ WF_vars(GcMarkDone(l) \/ GcMarkActive(l) \/ GcEnd(l))
    /\ WF_vars(FreeJoin)

FairSpec == Spec /\ Fairness

-----------------------------------------------------------------------------
(* Properties *)

InFlight ==
    {submitting[l] : l \in Loops} \cup Range(workQueue)
        \cup {activeItem[w] : w \in Workers} \cup Range(doneQueue)
        \cup {after[l] : l \in Loops}

\* An item is in at most one of the two queues and the slots of the threads, and
\* there only once: no two threads execute it, complete it or free it, although
\* three mutexes guard the places it passes through.
ItemsInOnePlace ==
    LET Working == {activeItem[w] : w \in Workers} \ {NULL}
        Submitting == {submitting[l] : l \in Loops} \ {NULL}
        InAfter == {after[l] : l \in Loops} \ {NULL}
    IN  /\ TypeOK
        /\ IsInjective(workQueue) /\ IsInjective(doneQueue)
        /\ \A v, w \in Workers : activeItem[v] = activeItem[w] /\ activeItem[v] # NULL => v = w
        /\ \A k, l \in Loops : after[k] = after[l] /\ after[k] # NULL => k = l
        /\ Range(workQueue) \cap Range(doneQueue) = {}
        /\ (Range(workQueue) \cup Range(doneQueue)) \cap (Working \cup InAfter) = {}
        /\ Working \cap InAfter = {}
        /\ Submitting \cap (Range(workQueue) \cup Range(doneQueue) \cup Working \cup InAfter) = {}

\* pending_count is exactly the number of items that are between the first
\* line of tp_submit and the return of their after(), wherever they are: it
\* never runs ahead of or behind the queues, whatever interleaving of
\* submitters, pool threads and drainers occurred, so el_run's test
\* tp_pending_count() > 0 neither stops early nor waits for nothing.
PendingCountsInFlight == pending = Cardinality(InFlight \ {NULL})

\* A completed item is never left in the completion queue with nobody told
\* of it: the wakeup pipe is readable, or a pool thread is about to write to
\* it, or a JS thread has not finished the drain that will find the item.
\* This is why a byte dropped by a full pipe is harmless.
NoStrandedCompletion ==
    (doneQueue # <<>> /\ ~(~poolActive /\ lpc[MainLoop] = "exited")) =>
        \/ pipe > 0
        \/ \E w \in Workers : wpc[w] = "wake"
        \/ \E l \in Loops : lpc[l] \in {"pop", "after"}

\* A collection that has run tp_mark_gc_roots has traced every item of its JS
\* thread that is still queued or being worked on; the only ones it can have
\* missed have reached the completion queue.
MarkMissesOnlyFinished ==
    \A l \in Loops : marking[l] = "all" =>
        {i \in Range(workQueue) \cup {activeItem[w] : w \in Workers} :
            i # NULL /\ owner[i] = l} \subseteq marked[l]

\* Once main's event loop has ended by itself, nothing main submitted is
\* still in flight: no callback of the program is silently lost.
MainExitsDrained ==
    (poolActive /\ lpc[MainLoop] = "exited") =>
        \A i \in Items : owner[i] = MainLoop => stage[i] = "finished"

\* When tp_free returns, every item main had submitted has been executed:
\* workers leave only when the queue is empty (worker_main tests work_head
\* together with pool_active).
FreeRunsQueuedWork ==
    (~poolActive /\ lpc[MainLoop] = "exited") =>
        \A i \in Items : owner[i] = MainLoop =>
            stage[i] \in {"done", "after", "finished"}

\* Every item main has queued and that can finish is finished, unless the pool
\* is shut down, as long as fewer items block for ever than there are pool
\* threads: the signal of tp_submit and the re-check in worker_main lose no
\* work.
WorkCompletes ==
    \A i \in Items \ Stuck :
        (stage[i] = "queued" /\ owner[i] = MainLoop)
            ~> (stage[i] = "finished" \/ ~poolActive)

\* tp_free's joins return unless some work() never does: the broadcast reaches
\* every blocked worker and none blocks again.
FreeReturns ==
    (lpc[MainLoop] = "join")
        ~> (lpc[MainLoop] = "exited" \/ \E w \in Workers : activeItem[w] \in Stuck)

\* The pool keeps the promise of AsyncOps: one after() per item, counted
\* from submission to return.
opState ==
    [i \in Items |-> CASE stage[i] = "new" -> "idle"
                       [] stage[i] = "after" -> "calling"
                       [] stage[i] = "finished" -> "settled"
                       [] OTHER -> "pending"]

Ops == INSTANCE AsyncOps WITH calling <- after, inFlight <- pending

ImplementsAsyncOps == Ops!Spec

=============================================================================
