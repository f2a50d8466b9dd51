------------------------------ MODULE AsyncOps ------------------------------
(***************************************************************************)
(* What the thread pool promises to the modules that submit work to it     *)
(* (fs, zlib, child_process, napi): every operation handed to tp_submit is *)
(* counted as in flight until its after() callback has returned, after()   *)
(* runs at most once per operation, and a JS thread runs one after() at a  *)
(* time.  Worker threads, queues, mutexes and the wakeup pipe are absent:  *)
(* ThreadPool.tla implements this specification.                           *)
(***************************************************************************)
EXTENDS Integers

CONSTANTS
    Items,   \* the work items (struct WorkItem)
    Loops,   \* the JS threads that run an event loop
    NULL

VARIABLES
    opState,   \* life of an operation, from the submitter's point of view
    calling,   \* the operation whose after() a JS thread is executing
    inFlight   \* what tp_pending_count() answers

vars == <<opState, calling, inFlight>>

Init ==
    /\ opState = [i \in Items |-> "idle"]
    /\ calling = [l \in Loops |-> NULL]
    /\ inFlight = 0

Submit(i) ==
    /\ opState[i] = "idle"
    /\ opState' = [opState EXCEPT ![i] = "pending"]
    /\ inFlight' = inFlight + 1
    /\ UNCHANGED calling

CallAfter(l, i) ==
    /\ opState[i] = "pending"
    /\ calling[l] = NULL
    /\ opState' = [opState EXCEPT ![i] = "calling"]
    /\ calling' = [calling EXCEPT ![l] = i]
    /\ UNCHANGED inFlight

Settle(l) ==
    /\ calling[l] # NULL
    /\ opState' = [opState EXCEPT ![calling[l]] = "settled"]
    /\ calling' = [calling EXCEPT ![l] = NULL]
    /\ inFlight' = inFlight - 1

Next ==
    \/ \E i \in Items : Submit(i)
    \/ \E l \in Loops, i \in Items : CallAfter(l, i)
    \/ \E l \in Loops : Settle(l)

Spec == Init /\ [][Next]_vars

=============================================================================
