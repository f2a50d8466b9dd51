------------------------------ MODULE Atomics ------------------------------
(***************************************************************************)
(* src/src/atomics.c: Atomics.wait and Atomics.notify on shared memory.    *)
(* A wait node of the fixed table wait_queue stands for an address; the    *)
(* threads that wait there share its condition variable and are counted in *)
(* waiting.  Everything between the lock and the unlock of atomics_mutex   *)
(* is one step; pthread_cond_wait is two, with the mutex free in between.  *)
(***************************************************************************)
EXTENDS Integers, FiniteSets, FiniteSetsExt

CONSTANTS
    Threads,    \* the main thread and the Web Workers
    Addrs,      \* cells of shared buffers
    Nodes,      \* MAX_WAITERS: the number of wait nodes
    MaxVal,     \* bound of the cells
    NULL

AtomicsAssumption ==
    /\ IsFiniteSet(Threads)
    /\ Nodes \in Nat \ {0} /\ MaxVal \in Nat
    /\ NULL \notin Addrs \cup (1..Nodes)

VARIABLES
    cell,       \* the shared memory
    addr,       \* wait_queue[n].addr, NULL when the node is free
    waiting,    \* wait_queue[n].waiting
    state,      \* "run"; "blocked" in pthread_cond_wait; "woken": has left the
                \* condition variable, not yet reacquired the mutex
    node,       \* the node a thread waits on
    on,         \* history: the address a thread waits for
    expected,   \* history: the value it expected there
    owes        \* the cell a thread has changed and will notify, or NULL

nodeVars == <<addr, waiting>>
vars == <<cell, addr, waiting, state, node, on, expected, owes>>

Blocked(n) == {t \in Threads : state[t] = "blocked" /\ node[t] = n}
Sleepers(a) == {t \in Threads : state[t] = "blocked" /\ on[t] = a}

TypeOK ==
    /\ cell \in [Addrs -> 0..MaxVal]
    /\ addr \in [1..Nodes -> Addrs \cup {NULL}]
    /\ waiting \in [1..Nodes -> 0..Cardinality(Threads)]
    /\ state \in [Threads -> {"run", "blocked", "woken"}]
    /\ node \in [Threads -> (1..Nodes) \cup {NULL}]
    /\ on \in [Threads -> Addrs \cup {NULL}]
    /\ expected \in [Threads -> 0..MaxVal]
    /\ owes \in [Threads -> Addrs \cup {NULL}]

Init ==
    /\ cell = [a \in Addrs |-> 0]
    /\ addr = [n \in 1..Nodes |-> NULL]
    /\ waiting = [n \in 1..Nodes |-> 0]
    /\ state = [t \in Threads |-> "run"]
    /\ node = [t \in Threads |-> NULL]
    /\ on = [t \in Threads |-> NULL]
    /\ expected = [t \in Threads |-> 0]
    /\ owes = [t \in Threads |-> NULL]

-----------------------------------------------------------------------------
\* Atomics.add takes no mutex.  A program that uses the cell to wait on tells
\* the others after it has changed it.
Add(t, a) ==
    /\ state[t] = "run" /\ owes[t] = NULL
    /\ cell[a] < MaxVal
    /\ cell' = [cell EXCEPT ![a] = @ + 1]
    /\ owes' = [owes EXCEPT ![t] = a]
    /\ UNCHANGED <<nodeVars, state, node, on, expected>>

\* get_or_create_wait_node: the node of the address, or the first free one.
NodeFor(a) ==
    LET same == {n \in 1..Nodes : addr[n] = a}
        free == {n \in 1..Nodes : addr[n] = NULL}
    IN  CASE same # {} -> Min(same)
          [] same = {} /\ free # {} -> Min(free)
          [] OTHER -> NULL

\* Mutant: the value is not compared under the mutex.
WaitUnchecked(t, a, v) ==
    /\ state[t] = "run" /\ owes[t] = NULL
    /\ NodeFor(a) # NULL
    /\ LET n == NodeFor(a)
       IN  /\ addr' = [addr EXCEPT ![n] = a]
           /\ waiting' = [waiting EXCEPT ![n] = IF addr[n] = NULL THEN 1 ELSE @ + 1]
           /\ node' = [node EXCEPT ![t] = n]
    /\ state' = [state EXCEPT ![t] = "blocked"]
    /\ on' = [on EXCEPT ![t] = a]
    /\ expected' = [expected EXCEPT ![t] = v]
    /\ UNCHANGED <<cell, owes>>

\* Atomics.wait up to the release of the mutex in pthread_cond_wait.  When the
\* value differs, or no node is left, it returns at once: no step here.
Wait(t, a, v) ==
    /\ state[t] = "run" /\ owes[t] = NULL
    /\ cell[a] = v
    /\ NodeFor(a) # NULL
    /\ LET n == NodeFor(a)
       IN  /\ addr' = [addr EXCEPT ![n] = a]
           /\ waiting' = [waiting EXCEPT ![n] = IF addr[n] = NULL THEN 1 ELSE @ + 1]
           /\ node' = [node EXCEPT ![t] = n]
    /\ state' = [state EXCEPT ![t] = "blocked"]
    /\ on' = [on EXCEPT ![t] = a]
    /\ expected' = [expected EXCEPT ![t] = v]
    /\ UNCHANGED <<cell, owes>>

\* The timeout expires, or the condition variable wakes a thread for no reason.
LeaveCond(t) ==
    /\ state[t] = "blocked"
    /\ state' = [state EXCEPT ![t] = "woken"]
    /\ UNCHANGED <<cell, nodeVars, node, on, expected, owes>>

\* The rest of Atomics.wait, with release_wait_node.
Return(t) ==
    /\ state[t] = "woken"
    /\ waiting' = [waiting EXCEPT ![node[t]] = @ - 1]
    /\ addr' = [addr EXCEPT ![node[t]] = IF waiting[node[t]] = 1 THEN NULL ELSE @]
    /\ state' = [state EXCEPT ![t] = "run"]
    /\ node' = [node EXCEPT ![t] = NULL]
    /\ on' = [on EXCEPT ![t] = NULL]
    /\ UNCHANGED <<cell, expected, owes>>

\* The node Atomics.notify finds.
FindNode(a) ==
    LET same == {n \in 1..Nodes : addr[n] = a}
    IN  IF same = {} THEN NULL ELSE Min(same)

\* Broadcast if count covers all that are counted, else count signals (none if
\* it is negative), each of which wakes one thread that is still in the
\* condition variable.
Signalled(n, count) ==
    IF count = -1 \/ count >= waiting[n]
    THEN {Blocked(n)}
    ELSE kSubset(Min({Max({count, 0}), Cardinality(Blocked(n))}), Blocked(n))

Notify(t, a, count) ==
    /\ state[t] = "run"
    /\ IF FindNode(a) # NULL /\ waiting[FindNode(a)] > 0
       THEN \E woken \in Signalled(FindNode(a), count) :
               state' = [u \in Threads |-> IF u \in woken THEN "woken" ELSE state[u]]
       ELSE UNCHANGED state
    /\ owes' = IF owes[t] = a /\ count = -1 THEN [owes EXCEPT ![t] = NULL] ELSE owes
    /\ UNCHANGED <<cell, nodeVars, node, on, expected>>

Counts == -2..Cardinality(Threads)

Next ==
    \E t \in Threads :
        \/ \E a \in Addrs : Add(t, a)
        \/ \E a \in Addrs, v \in 0..MaxVal : Wait(t, a, v)
        \/ LeaveCond(t)
        \/ Return(t)
        \/ \E a \in Addrs, c \in Counts : Notify(t, a, c)

Spec == Init /\ [][Next]_vars

NotifyOwed(t) == \E a \in Addrs : owes[t] = a /\ Notify(t, a, -1)

\* Threads return from the condition variable once woken, and a program that
\* changed a cell goes on to notify everyone.
Fairness ==
    \A t \in Threads :
        /\ WF_vars(Return(t))
        /\ WF_vars(NotifyOwed(t))

FairSpec == Spec /\ Fairness

-----------------------------------------------------------------------------
(* Properties *)

\* The table of wait nodes is consistent with the threads that use it: a thread
\* in Atomics.wait, also one that was woken and has not resumed, holds a node
\* that stands for its address and is counted there; no address has two nodes.
NodesMatchWaiters ==
    /\ \A t \in Threads : state[t] # "run" => addr[node[t]] = on[t]
    /\ \A n \in 1..Nodes :
          /\ waiting[n] = Cardinality({t \in Threads : node[t] = n})
          /\ addr[n] = NULL <=> waiting[n] = 0
    /\ \A n, m \in 1..Nodes : addr[n] = addr[m] /\ addr[n] # NULL => n = m

\* No notification is missed: a thread sleeps on a cell that no longer has the
\* value it expected only while the thread that changed the cell has yet to
\* call notify.  This is what comparing the value under the mutex is for.
NoMissedNotify ==
    \A a \in Addrs : \A t \in Sleepers(a) :
        cell[a] # expected[t] => \E u \in Threads : owes[u] = a

\* Both together: the wait table is right whoever waits, is woken or returns in
\* whatever order, and no thread sleeps past the change it waits for.
WaitersSound == TypeOK /\ NodesMatchWaiters /\ NoMissedNotify

=============================================================================
