--------------------------- MODULE MCConcurrency ---------------------------
(***************************************************************************)
(* The components whose steps interleave: coroutines, the task queues,     *)
(* Atomics, Web Workers, message ports, and the asynchronous work of       *)
(* native addons.  They share no state, so a behaviour runs the one that   *)
(* "part" names and leaves the others as they begin.  Atomics is extended, *)
(* the others are instantiated here, in Messaging, Turns or Addons.        *)
(***************************************************************************)
EXTENDS Atomics, Messaging, Turns, Addons

VARIABLES
    part,
    pstate, thens, micro, cstate, running, raising, chain, saved, blocks, made,
    outcome, thrower, mixed, leaked

Async == INSTANCE AsyncFunctions WITH
    Main <- "main", Coros <- {"c1", "c2", "c3"}, Ext <- {"e"}, MaxHandlers <- 3, NULL <- "null",
    open <- blocks

ASSUME Bounds ==
    /\ Async!AsyncAssumption
    /\ AtomicsAssumption

asyncVars == <<pstate, thens, micro, cstate, running, raising, chain, saved, blocks, made,
               outcome, thrower, mixed, leaked>>
taskVars == <<nextTick, microtask, cstack, phase, ticks, calls, nested, started, bySync>>
atomicsVars == <<cell, addr, waiting, state, node, on, expected, owes>>
workerVars == <<workerQueue, mainQueue, workerPipe, mainPipe, terminateRequested,
                inCallback, needsFree, handle, mainIo, nextUp, undefined, mpc, wpc,
                mainPosting, workerPosting, pushed, received>>
portVars == <<queue, pipe, refs, open, io, newest, nextPort, portsUndefined, port, batch,
              posted, delivered>>
addonVars == <<items, taken, done, current, work, call, tsfn, array, length,
               tsfnUndefined, early, useAfterFree, executed, completed>>
allVars == <<part, asyncVars, taskVars, atomicsVars, workerVars, portVars, addonVars>>

AnyInit ==
    /\ part \in {"async", "tasks", "atomics", "worker", "ports", "addon"}
    /\ Async!Init /\ Tasks!Init /\ Init /\ Worker!Init /\ Channel!Init /\ Addon!Init

AsyncNext ==
    /\ part = "async" /\ Async!Next
    /\ UNCHANGED <<part, taskVars, atomicsVars, workerVars, portVars, addonVars>>
TasksNext ==
    /\ part = "tasks" /\ Tasks!Next
    /\ UNCHANGED <<part, asyncVars, atomicsVars, workerVars, portVars, addonVars>>
AtomicsNext ==
    /\ part = "atomics" /\ Next
    /\ UNCHANGED <<part, asyncVars, taskVars, workerVars, portVars, addonVars>>
WorkerNext ==
    /\ part = "worker" /\ Worker!Next
    /\ UNCHANGED <<part, asyncVars, taskVars, atomicsVars, portVars, addonVars>>
PortsNext ==
    /\ part = "ports" /\ Channel!Next
    /\ UNCHANGED <<part, asyncVars, taskVars, atomicsVars, workerVars, addonVars>>
AddonNext ==
    /\ part = "addon" /\ Addon!Next
    /\ UNCHANGED <<part, asyncVars, taskVars, atomicsVars, workerVars, portVars>>

AnyNext == AsyncNext \/ TasksNext \/ AtomicsNext \/ WorkerNext \/ PortsNext \/ AddonNext

\* The fairness of each component, see its module.
AllFairness ==
    /\ WF_asyncVars(part = "async" /\ Async!Leave)
    /\ WF_asyncVars(part = "async" /\ running = <<"main">> /\ Async!TryEnd)
    /\ WF_asyncVars(part = "async" /\ raising /\ Async!Throw)
    /\ WF_asyncVars(part = "async" /\ Async!Resume)
    /\ WF_taskVars(part = "tasks" /\ Tasks!Return)
    /\ WF_taskVars(part = "tasks" /\ Tasks!Drain)
    /\ WF_taskVars(part = "tasks" /\ Tasks!PhaseFive)
    /\ WF_taskVars(part = "tasks" /\ Tasks!LoopTop)
    /\ \A t \in {"t1", "t2", "t3"} :
          /\ WF_atomicsVars(part = "atomics" /\ Return(t))
          /\ WF_atomicsVars(part = "atomics" /\ NotifyOwed(t))
    /\ WF_workerVars(part = "worker" /\ ~undefined /\ Worker!MainStep)
    /\ WF_workerVars(part = "worker" /\ ~undefined /\ Worker!MainCallback)
    /\ WF_workerVars(part = "worker" /\ ~undefined /\ Worker!WorkerStep)
    /\ WF_workerVars(part = "worker" /\ ~undefined /\ Worker!WorkerJSReturn)
    /\ SF_workerVars(part = "worker" /\ ~undefined /\ Worker!WorkerCallback)
    /\ WF_portVars(part = "ports" /\ ~portsUndefined /\ Channel!Deliver)
    /\ WF_portVars(part = "ports" /\ ~portsUndefined /\ Channel!WalkOn)
    /\ \A p \in 1..2 : SF_portVars(part = "ports" /\ ~portsUndefined /\ Channel!PipeCallback(p))
    /\ \A t \in {"p1", "p2"} :
          WF_addonVars(part = "addon" /\ ~tsfnUndefined /\ (Addon!Take(t) \/ Addon!Execute(t)))
    /\ WF_addonVars(part = "addon" /\ ~tsfnUndefined /\ (Addon!After \/ Addon!AfterReturns))

AnySpec == AnyInit /\ [][AnyNext]_allVars /\ AllFairness

-----------------------------------------------------------------------------
(* Properties *)

\* Every suspended coroutine is waited for in exactly one place.  As long as a
\* coroutine awaits only when it is the only one under way, nobody uses the
\* chain of error handlers until it is resumed and no function returns from
\* inside a try block, the chain is that of the running contexts and an error
\* is caught where it should be, also by a try block around the await.
CoroutinesSound ==
    Async!TypeOK /\ Async!OneResumption /\ Async!HandlersNest /\ Async!ErrorsStayLocal

\* What must go on, at most six things in each component, and where it gets: a
\* coroutine whose promise is settled, a task in a queue, a thread whose cell
\* has changed, terminate() and the messages of a worker, the messages to a
\* listening port, the work and the calls of an addon.
Waiting(i) ==
    CASE part = "async" ->
            i <= 3 /\ \E n \in DOMAIN micro : micro[n].coro = <<"c1", "c2", "c3">>[i]
      [] part = "tasks" ->
            /\ i <= 4
            /\ LET t == <<"t1", "t2", "m1", "m2">>[i] IN t \in Tasks!Enqueued /\ (i > 2 \/ t \in bySync)
      [] part = "atomics" ->
            /\ i <= 3
            /\ LET t == <<"t1", "t2", "t3">>[i]
               IN  \E a \in 1..3 : t \in Sleepers(a) /\ cell[a] # expected[t]
      [] part = "worker" ->
            IF i >= 5 THEN mpc = "flag" ELSE <<"m1", "m2", "r1", "r2">>[i] \in pushed
      [] part = "ports" -> LET p == (i % 2) + 1 IN posted[p] >= (i + 1) \div 2 /\ io[p]
      [] part = "addon" -> IF i <= 2 THEN work[i] = "queued" ELSE i <= 4 /\ call[i - 2] = "queued"

Served(i) ==
    CASE part = "async" -> i <= 3 => cstate[<<"c1", "c2", "c3">>[i]] # "suspended" \/ outcome # "ok"
      [] part = "tasks" -> i <= 4 => <<"t1", "t2", "m1", "m2">>[i] \in started
      [] part = "atomics" -> i <= 3 => state[<<"t1", "t2", "t3">>[i]] = "run"
      [] part = "worker" ->
            IF i >= 5 THEN mpc \in {"loop", "handler"}
            ELSE \/ <<"m1", "m2", "r1", "r2">>[i] \in received
                 \/ terminateRequested \/ (i <= 2 /\ wpc = "exited")
      [] part = "ports" ->
            LET p == (i % 2) + 1
            IN  Len(delivered[p]) >= (i + 1) \div 2 \/ ~open[p] \/ portsUndefined
      [] part = "addon" ->
            \/ early
            \/ IF i <= 2 THEN work[i] \in {"completed", "freed"} ELSE i <= 4 => call[i - 2] = "freed"

\* A settled promise resumes its awaiters, a queued task runs, a thread that
\* waits for a value its cell has moved on from wakes, terminate() returns,
\* messages are delivered unless their receiver goes away, and what an addon
\* queues is completed.  Nothing is said once the loop has met a freed handle,
\* or of an addon that released its thread-safe function too early.
EveryoneProceeds == \A i \in 1..6 : Waiting(i) ~> Served(i)
=============================================================================
