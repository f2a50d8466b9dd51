---------------------------- MODULE ThreadProofs ----------------------------
(***************************************************************************)
(* Proofs about code that threads share with JavaScript: Atomics.tla for   *)
(* any finite set of threads, any cells, any size of the table of wait     *)
(* nodes and any range of values, and the work of an addon (Napi.tla) for  *)
(* any works, calls and pool threads.                                      *)
(***************************************************************************)
EXTENDS Atomics, Addons, QueueFacts, FiniteSetTheorems

\* A thread holds a node and waits for an address exactly while it is in
\* Atomics.wait.
HoldInv ==
    \A t \in Threads :
        /\ state[t] = "run" => node[t] = NULL /\ on[t] = NULL
        /\ state[t] # "run" => node[t] \in 1..Nodes /\ on[t] \in Addrs

IInv == TypeOK /\ HoldInv /\ NodesMatchWaiters /\ NoMissedNotify

Users(n) == {t \in Threads : node[t] = n}

-----------------------------------------------------------------------------
\* A nonempty set of natural numbers has a least member, so Min finds one.
LEMMA MinIsMember ==
    ASSUME NEW S \in SUBSET Nat, S # {} PROVE Min(S) \in S
<1> DEFINE R == {p \in Nat \X Nat : p[1] < p[2]}
<1>1. IsWellFoundedOn(R, Nat)
  BY NatLessThanWellFounded, Zenon DEF OpToRel
<1>2. PICK x \in S : \A y \in S : ~(<<y, x>> \in R)
  BY <1>1, WFMin, Zenon
<1>3. \A y \in S : x <= y
  <2>1. ASSUME NEW y \in S, y < x PROVE <<y, x>> \in R
    BY <2>1
  <2>2. \A y \in S : ~(y < x)
    BY <1>2, <2>1, Zenon
  <2>3. QED
    BY <2>2
<1>4. QED
  BY <1>3 DEF Min

\* get_or_create_wait_node returns the node of the address or, when there is
\* none, a free one.
LEMMA NodeForFinds ==
    ASSUME AtomicsAssumption, TypeOK, NEW a \in Addrs, NodeFor(a) # NULL
    PROVE  /\ NodeFor(a) \in 1..Nodes
           /\ \/ addr[NodeFor(a)] = a
              \/ addr[NodeFor(a)] = NULL /\ \A m \in 1..Nodes : addr[m] # a
<1> DEFINE same == {n \in 1..Nodes : addr[n] = a}
           free == {n \in 1..Nodes : addr[n] = NULL}
<1>1. same \in SUBSET Nat /\ free \in SUBSET Nat
  OBVIOUS
<1>2. CASE same # {}
  <2>1. NodeFor(a) = Min(same)
    BY <1>2 DEF NodeFor
  <2>2. QED
    BY <1>1, <1>2, <2>1, MinIsMember
<1>3. CASE same = {} /\ free # {}
  <2>1. NodeFor(a) = Min(free)
    BY <1>3 DEF NodeFor
  <2>2. QED
    BY <1>1, <1>3, <2>1, MinIsMember
<1>4. CASE same = {} /\ free = {}
  BY <1>4 DEF NodeFor
<1>5. QED
  BY <1>2, <1>3, <1>4

\* Atomics.notify finds the node of the address if there is one.
LEMMA FindNodeFinds ==
    ASSUME AtomicsAssumption, IInv, NEW a \in Addrs, NEW n \in 1..Nodes, addr[n] = a
    PROVE  FindNode(a) = n
<1> DEFINE same == {m \in 1..Nodes : addr[m] = a}
<1>1. n \in same /\ same \in SUBSET Nat
  OBVIOUS
<1>2. Min(same) \in same
  BY <1>1, MinIsMember
<1>3. FindNode(a) = Min(same)
  BY <1>1 DEF FindNode
<1>4. a # NULL
  BY DEF AtomicsAssumption
<1>5. QED
  BY <1>2, <1>3, <1>4 DEF IInv, NodesMatchWaiters

\* The signals of Atomics.notify reach only threads in the condition variable.
LEMMA SignalledBlocked ==
    ASSUME NEW n, NEW c, NEW woken \in Signalled(n, c)
    PROVE  woken \subseteq Blocked(n)
  BY DEF Signalled, kSubset

\* A set of threads is finite; adding or removing one changes its size by one.
LEMMA UsersCount ==
    ASSUME AtomicsAssumption, NEW S \in SUBSET Threads, NEW t \in Threads
    PROVE  /\ Cardinality(S) \in 0..Cardinality(Threads)
           /\ Cardinality(S) = 0 <=> S = {}
           /\ t \notin S => Cardinality(S \cup {t}) = Cardinality(S) + 1
           /\ t \in S => Cardinality(S \ {t}) = Cardinality(S) - 1
<1>1. IsFiniteSet(Threads) /\ IsFiniteSet(S)
  BY FS_Subset DEF AtomicsAssumption
<1>2. Cardinality(Threads) \in Nat /\ Cardinality(S) \in Nat
  BY <1>1, FS_CardinalityType
<1>3. Cardinality(S) <= Cardinality(Threads)
  BY <1>1, FS_Subset
<1>4. Cardinality(S) = 0 <=> S = {}
  BY <1>1, FS_EmptySet
<1>5. t \notin S => Cardinality(S \cup {t}) = Cardinality(S) + 1
  BY <1>1, FS_AddElement
<1>6. t \in S => Cardinality(S \ {t}) = Cardinality(S) - 1
  BY <1>1, FS_RemoveElement
<1>7. QED
  BY <1>2, <1>3, <1>4, <1>5, <1>6

-----------------------------------------------------------------------------
\* Before the first call the table is empty.
LEMMA InitIInv == ASSUME AtomicsAssumption, Init PROVE IInv
<1>1. Cardinality({}) = 0 /\ Cardinality(Threads) \in Nat
  BY FS_EmptySet, FS_CardinalityType DEF AtomicsAssumption
<1>2. TypeOK
  BY <1>1 DEF Init, TypeOK, AtomicsAssumption
<1>3. HoldInv
  BY DEF Init, HoldInv
<1>4. NodesMatchWaiters
  <2>1. \A n \in 1..Nodes : {t \in Threads : node[t] = n} = {}
    BY DEF Init, AtomicsAssumption
  <2>2. QED
    BY <1>1, <2>1 DEF Init, NodesMatchWaiters
<1>5. NoMissedNotify
  BY DEF Init, NoMissedNotify, Sleepers
<1>6. QED
  BY <1>2, <1>3, <1>4, <1>5 DEF IInv

\* Changing a cell without the mutex keeps the invariant: the thread owes the
\* notification from that moment on.
LEMMA AddStep ==
    ASSUME AtomicsAssumption, IInv, NEW t \in Threads, NEW a \in Addrs, Add(t, a)
    PROVE  IInv'
<1>1. TypeOK'
  BY DEF IInv, TypeOK, Add, nodeVars, AtomicsAssumption
<1>2. HoldInv' /\ NodesMatchWaiters'
  BY DEF IInv, HoldInv, NodesMatchWaiters, Add, nodeVars
<1>3. NoMissedNotify'
  BY DEF IInv, TypeOK, NoMissedNotify, Sleepers, Add, AtomicsAssumption
<1>4. QED
  BY <1>1, <1>2, <1>3 DEF IInv

\* Going to sleep keeps the invariant: the value was compared under the mutex,
\* and the node found stands for the address and counts the thread.
LEMMA WaitStep ==
    ASSUME AtomicsAssumption, IInv, NEW t \in Threads, NEW a \in Addrs,
           NEW v \in 0..MaxVal, Wait(t, a, v)
    PROVE  IInv'
<1>t. /\ addr \in [1..Nodes -> Addrs \cup {NULL}]
      /\ waiting \in [1..Nodes -> 0..Cardinality(Threads)]
      /\ state \in [Threads -> {"run", "blocked", "woken"}]
      /\ node \in [Threads -> (1..Nodes) \cup {NULL}]
      /\ on \in [Threads -> Addrs \cup {NULL}]
      /\ expected \in [Threads -> 0..MaxVal]
      /\ NULL \notin Addrs \cup (1..Nodes)
  BY DEF IInv, TypeOK, AtomicsAssumption
<1>1. PICK n \in 1..Nodes :
        /\ n = NodeFor(a)
        /\ addr[n] = a \/ (addr[n] = NULL /\ \A m \in 1..Nodes : addr[m] # a)
  BY NodeForFinds DEF IInv, Wait
<1>2. node[t] = NULL /\ state[t] = "run"
  BY DEF IInv, HoldInv, Wait
<1>3. /\ node' = [node EXCEPT ![t] = n]
      /\ addr' = [addr EXCEPT ![n] = a]
      /\ waiting' = [waiting EXCEPT ![n] = IF addr[n] = NULL THEN 1 ELSE waiting[n] + 1]
      /\ state' = [state EXCEPT ![t] = "blocked"]
      /\ on' = [on EXCEPT ![t] = a]
      /\ expected' = [expected EXCEPT ![t] = v]
      /\ cell[a] = v /\ UNCHANGED <<cell, owes>>
  BY <1>1 DEF Wait
<1>4. \A m \in 1..Nodes : /\ waiting[m] = Cardinality(Users(m))
                          /\ addr[m] = NULL <=> waiting[m] = 0
  BY DEF IInv, NodesMatchWaiters, Users
<1>5. \A m \in 1..Nodes : waiting'[m] = IF m = n THEN waiting[n] + 1 ELSE waiting[m]
  BY <1>t, <1>3, <1>4
<1>6. \A m \in 1..Nodes : Users(m)' = IF m = n THEN Users(n) \cup {t} ELSE Users(m)
  BY <1>t, <1>2, <1>3 DEF Users
<1>7. \A m \in 1..Nodes : waiting'[m] = Cardinality(Users(m)')
  <2>1. t \notin Users(n) /\ Users(n) \in SUBSET Threads
    BY <1>t, <1>2 DEF Users
  <2>2. Cardinality(Users(n) \cup {t}) = Cardinality(Users(n)) + 1
    BY <2>1, UsersCount
  <2>3. QED
    BY <1>4, <1>5, <1>6, <2>2
<1>8. waiting' \in [1..Nodes -> 0..Cardinality(Threads)]
  <2>1. \A m \in 1..Nodes : Users(m)' \in SUBSET Threads
    BY DEF Users
  <2>2. \A m \in 1..Nodes : waiting'[m] \in 0..Cardinality(Threads)
    BY <1>7, <2>1, UsersCount
  <2>3. QED
    BY <1>t, <1>3, <2>2
<1>9. TypeOK'
  BY <1>t, <1>3, <1>8 DEF IInv, TypeOK
<1>10. HoldInv'
  BY <1>t, <1>3 DEF IInv, HoldInv
<1>11. NodesMatchWaiters'
  <2>1. \A u \in Threads : state'[u] # "run" => addr'[node'[u]] = on'[u]
    <3>1. ASSUME NEW u \in Threads, u # t, state[u] # "run"
          PROVE  node[u] \in 1..Nodes /\ addr[node[u]] = on[u] /\ on[u] # NULL
      BY <1>t, <3>1 DEF IInv, HoldInv, NodesMatchWaiters
    <3>2. ASSUME NEW u \in Threads, u # t, state[u] # "run", node[u] = n PROVE addr[n] = a
      BY <1>1, <3>1, <3>2
    <3>3. QED
      BY <1>t, <1>3, <3>1, <3>2
  <2>2. \A m \in 1..Nodes : addr'[m] = NULL <=> waiting'[m] = 0
    BY <1>t, <1>3, <1>4, <1>5
  <2>3. \A k, m \in 1..Nodes : addr[k] = addr[m] /\ addr[k] # NULL => k = m
    BY DEF IInv, NodesMatchWaiters
  <2>4. \A k, m \in 1..Nodes : addr'[k] = addr'[m] /\ addr'[k] # NULL => k = m
    BY <1>t, <1>1, <1>3, <2>3
  <2>5. QED
    BY <1>7, <2>1, <2>2, <2>4 DEF NodesMatchWaiters, Users
<1>12. NoMissedNotify'
  BY <1>t, <1>3 DEF IInv, NoMissedNotify, Sleepers
<1>13. QED
  BY <1>9, <1>10, <1>11, <1>12 DEF IInv

\* A timeout or a spurious wakeup keeps the invariant: the thread still holds
\* its node.
LEMMA LeaveCondStep ==
    ASSUME IInv, NEW t \in Threads, LeaveCond(t) PROVE IInv'
<1>1. TypeOK' /\ HoldInv'
  BY DEF IInv, TypeOK, HoldInv, LeaveCond, nodeVars
<1>2. NodesMatchWaiters'
  BY DEF IInv, TypeOK, NodesMatchWaiters, LeaveCond, nodeVars
<1>3. NoMissedNotify'
  BY DEF IInv, TypeOK, NoMissedNotify, Sleepers, LeaveCond
<1>4. QED
  BY <1>1, <1>2, <1>3 DEF IInv

\* release_wait_node keeps the invariant: the node is freed by the last of the
\* threads it counts, and by no other.
LEMMA ReturnStep ==
    ASSUME AtomicsAssumption, IInv, NEW t \in Threads, Return(t) PROVE IInv'
<1>t. /\ addr \in [1..Nodes -> Addrs \cup {NULL}]
      /\ waiting \in [1..Nodes -> 0..Cardinality(Threads)]
      /\ state \in [Threads -> {"run", "blocked", "woken"}]
      /\ node \in [Threads -> (1..Nodes) \cup {NULL}]
      /\ on \in [Threads -> Addrs \cup {NULL}]
      /\ NULL \notin Addrs \cup (1..Nodes)
  BY DEF IInv, TypeOK, AtomicsAssumption
<1>1. PICK n \in 1..Nodes : node[t] = n
  BY DEF IInv, HoldInv, Return
<1>2. /\ node' = [node EXCEPT ![t] = NULL]
      /\ addr' = [addr EXCEPT ![n] = IF waiting[n] = 1 THEN NULL ELSE addr[n]]
      /\ waiting' = [waiting EXCEPT ![n] = waiting[n] - 1]
      /\ state' = [state EXCEPT ![t] = "run"]
      /\ on' = [on EXCEPT ![t] = NULL]
      /\ state[t] = "woken"
      /\ UNCHANGED <<cell, expected, owes>>
  BY <1>1 DEF Return
<1>3. \A m \in 1..Nodes : /\ waiting[m] = Cardinality(Users(m))
                          /\ addr[m] = NULL <=> waiting[m] = 0
  BY DEF IInv, NodesMatchWaiters, Users
<1>4. \A m \in 1..Nodes : Users(m)' = IF m = n THEN Users(n) \ {t} ELSE Users(m)
  BY <1>t, <1>1, <1>2 DEF Users
<1>5. t \in Users(n) /\ Users(n) \in SUBSET Threads
  BY <1>1 DEF Users
<1>6. \A m \in 1..Nodes : waiting'[m] = Cardinality(Users(m)')
  <2>1. Cardinality(Users(n) \ {t}) = Cardinality(Users(n)) - 1
    BY <1>5, UsersCount
  <2>2. QED
    BY <1>t, <1>2, <1>3, <1>4, <2>1
<1>7. waiting' \in [1..Nodes -> 0..Cardinality(Threads)]
  <2>1. \A m \in 1..Nodes : Users(m)' \in SUBSET Threads
    BY DEF Users
  <2>2. \A m \in 1..Nodes : Cardinality(Users(m)') \in 0..Cardinality(Threads)
    BY <2>1, UsersCount
  <2>3. \A m \in 1..Nodes : waiting'[m] \in 0..Cardinality(Threads)
    BY <1>6, <2>2
  <2>4. QED
    BY <1>t, <1>2, <2>3
<1>8. TypeOK'
  BY <1>t, <1>2, <1>7 DEF IInv, TypeOK
<1>9. HoldInv'
  BY <1>t, <1>2 DEF IInv, HoldInv
<1>10. NodesMatchWaiters'
  <2>1. ASSUME NEW u \in Threads, state'[u] # "run" PROVE addr'[node'[u]] = on'[u]
    <3>1. u # t /\ state[u] # "run" /\ node'[u] = node[u] /\ on'[u] = on[u]
      BY <1>t, <1>2, <2>1
    <3>2. node[u] \in 1..Nodes /\ addr[node[u]] = on[u]
      BY <3>1 DEF IInv, HoldInv, NodesMatchWaiters
    <3>3. CASE node[u] # n
      BY <1>t, <1>2, <3>1, <3>2, <3>3
    <3>4. CASE node[u] = n
      <4>1. u \in Users(n) \ {t} /\ Users(n) \ {t} \in SUBSET Threads
        BY <1>5, <3>1, <3>4 DEF Users
      <4>2. Cardinality(Users(n) \ {t}) # 0
        BY <4>1, UsersCount
      <4>3. waiting[n] # 1
        BY <1>3, <1>5, <4>2, UsersCount
      <4>4. QED
        BY <1>t, <1>2, <3>1, <3>2, <3>4, <4>3
    <3>5. QED
      BY <3>3, <3>4
  <2>2. \A m \in 1..Nodes : addr'[m] = NULL <=> waiting'[m] = 0
    <3>1. waiting[n] # 0
      BY <1>3, <1>5, UsersCount
    <3>2. QED
      BY <1>t, <1>2, <1>3, <3>1
  <2>3. \A k, m \in 1..Nodes : addr[k] = addr[m] /\ addr[k] # NULL => k = m
    BY DEF IInv, NodesMatchWaiters
  <2>4. \A k, m \in 1..Nodes : addr'[k] = addr'[m] /\ addr'[k] # NULL => k = m
    BY <1>t, <1>2, <2>3
  <2>5. QED
    BY <1>6, <2>1, <2>2, <2>4 DEF NodesMatchWaiters, Users
<1>11. NoMissedNotify'
  BY <1>t, <1>2 DEF IInv, NoMissedNotify, Sleepers
<1>12. QED
  BY <1>8, <1>9, <1>10, <1>11 DEF IInv

\* Atomics.notify keeps the invariant: whoever it wakes still holds its node,
\* and a thread stops owing a notification only when nobody sleeps there.
LEMMA NotifyStep ==
    ASSUME AtomicsAssumption, IInv, NEW t \in Threads, NEW a \in Addrs,
           NEW c \in Counts, Notify(t, a, c)
    PROVE  IInv'
<1>t. /\ state \in [Threads -> {"run", "blocked", "woken"}]
      /\ node \in [Threads -> (1..Nodes) \cup {NULL}]
      /\ on \in [Threads -> Addrs \cup {NULL}]
      /\ owes \in [Threads -> Addrs \cup {NULL}]
      /\ NULL \notin Addrs \cup (1..Nodes)
  BY DEF IInv, TypeOK, AtomicsAssumption
<1>1. PICK woken \in SUBSET Threads :
        /\ state' = [u \in Threads |-> IF u \in woken THEN "woken" ELSE state[u]]
        /\ \A u \in woken : state[u] = "blocked"
        /\ c = -1 => Sleepers(a) \subseteq woken
  <2>1. CASE FindNode(a) # NULL /\ waiting[FindNode(a)] > 0
    <3>1. PICK woken \in Signalled(FindNode(a), c) :
            state' = [u \in Threads |-> IF u \in woken THEN "woken" ELSE state[u]]
      BY <2>1 DEF Notify
    <3>2. woken \subseteq Blocked(FindNode(a))
      BY SignalledBlocked
    <3>3. c = -1 => woken = Blocked(FindNode(a))
      BY DEF Signalled
    <3>4. Sleepers(a) \subseteq Blocked(FindNode(a))
      <4>1. SUFFICES ASSUME NEW u \in Sleepers(a) PROVE u \in Blocked(FindNode(a))
        OBVIOUS
      <4>2. node[u] \in 1..Nodes /\ addr[node[u]] = a
        BY DEF Sleepers, IInv, HoldInv, NodesMatchWaiters
      <4>3. FindNode(a) = node[u]
        BY <4>2, FindNodeFinds
      <4>4. QED
        BY <4>3 DEF Sleepers, Blocked
    <3>5. QED
      BY <3>1, <3>2, <3>3, <3>4 DEF Blocked
  <2>2. CASE ~(FindNode(a) # NULL /\ waiting[FindNode(a)] > 0)
    <3>1. Sleepers(a) = {}
      <4>1. SUFFICES ASSUME NEW u \in Sleepers(a) PROVE FALSE
        OBVIOUS
      <4>2. node[u] \in 1..Nodes /\ addr[node[u]] = a
        BY DEF Sleepers, IInv, HoldInv, NodesMatchWaiters
      <4>3. FindNode(a) = node[u]
        BY <4>2, FindNodeFinds
      <4>4. waiting[node[u]] \in Nat /\ waiting[node[u]] # 0
        <5>1. Cardinality(Threads) \in Nat
          BY FS_CardinalityType DEF AtomicsAssumption
        <5>2. waiting[node[u]] \in 0..Cardinality(Threads)
          BY <4>2 DEF IInv, TypeOK
        <5>3. waiting[node[u]] # 0
          BY <1>t, <4>2 DEF IInv, NodesMatchWaiters
        <5>4. QED
          BY <5>1, <5>2, <5>3
      <4>5. QED
        BY <1>t, <2>2, <4>2, <4>3, <4>4
    <3>2. state' = state
      BY <2>2 DEF Notify
    <3>3. state' = [u \in Threads |-> IF u \in {} THEN "woken" ELSE state[u]]
      BY <1>t, <3>2
    <3>4. QED
      BY <3>1, <3>3
  <2>3. QED
    BY <2>1, <2>2
<1>2. /\ owes' = IF owes[t] = a /\ c = -1 THEN [owes EXCEPT ![t] = NULL] ELSE owes
      /\ UNCHANGED <<cell, addr, waiting, node, on, expected>>
  BY DEF Notify, nodeVars
<1>3. TypeOK'
  BY <1>t, <1>1, <1>2 DEF IInv, TypeOK
<1>4. \A u \in Threads : state'[u] = "run" <=> state[u] = "run"
  BY <1>1
<1>5. HoldInv'
  BY <1>2, <1>4 DEF IInv, HoldInv
<1>6. NodesMatchWaiters'
  BY <1>2, <1>4 DEF IInv, NodesMatchWaiters
<1>7. NoMissedNotify'
  <2>1. \A b \in Addrs : Sleepers(b)' \subseteq Sleepers(b)
    BY <1>1, <1>2 DEF Sleepers
  <2>2. c = -1 => Sleepers(a)' = {}
    BY <1>1, <1>2 DEF Sleepers
  <2>3. \A b \in Addrs, u \in Threads : owes[u] = b => owes'[u] = b \/ (b = a /\ c = -1)
    BY <1>t, <1>2
  <2>4. QED
    BY <1>2, <2>1, <2>2, <2>3 DEF IInv, NoMissedNotify
<1>8. QED
  BY <1>3, <1>5, <1>6, <1>7 DEF IInv

\* The invariant is inductive: one case per action of Atomics.
LEMMA NextIInv == ASSUME AtomicsAssumption, IInv, [Next]_vars PROVE IInv'
<1>1. ASSUME NEW t \in Threads,
             \/ \E a \in Addrs : Add(t, a)
             \/ \E a \in Addrs, v \in 0..MaxVal : Wait(t, a, v)
             \/ LeaveCond(t)
             \/ Return(t)
             \/ \E a \in Addrs, c \in Counts : Notify(t, a, c)
      PROVE  IInv'
  BY <1>1, AddStep, WaitStep, LeaveCondStep, ReturnStep, NotifyStep
<1>2. CASE UNCHANGED vars
  <2>1. TypeOK' /\ HoldInv'
    BY <1>2 DEF vars, IInv, TypeOK, HoldInv
  <2>2. NodesMatchWaiters' /\ NoMissedNotify'
    BY <1>2 DEF vars, IInv, NodesMatchWaiters, NoMissedNotify, Sleepers
  <2>3. QED
    BY <2>1, <2>2 DEF IInv
<1>3. QED
  BY <1>1, <1>2 DEF Next

\* For any number of threads, cells and wait nodes: a thread in Atomics.wait
\* holds the one node of its address, a node is free exactly when no thread is
\* counted there, and no thread sleeps on a changed cell that nobody is going
\* to notify.
THEOREM WaitersStaySound == ASSUME AtomicsAssumption PROVE Spec => []WaitersSound
<1>1. Init => IInv
  BY InitIInv
<1>2. IInv /\ [Next]_vars => IInv'
  BY NextIInv
<1>3. IInv => WaitersSound
  BY DEF IInv, WaitersSound
<1>4. QED
  BY <1>1, <1>2, <1>3, PTL DEF Spec

-----------------------------------------------------------------------------
(* Addons *)

W(w) == Addon!Item("work", w)
C(n) == Addon!Item("call", n)
AnItem == {W(w) : w \in Works} \cup {C(n) : n \in Addon!Calls}

AddonTypes ==
    /\ items \in Seq(AnItem) /\ done \in Seq(AnItem) /\ completed \in Seq(AnItem)
    /\ taken \in [Pool -> AnItem \cup {Addon!NoItem}] /\ current \in AnItem \cup {Addon!NoItem}
    /\ work \in [Works -> Addon!States] /\ call \in [Addon!Calls -> Addon!States]
    /\ tsfn \in Addon!States /\ executed \in [Works -> 0..1] /\ useAfterFree = FALSE

\* The items the pool's threads have taken.
Held(tk) == {x \in AnItem : \E t \in Pool : tk[t] = x}

\* An item is waiting, taken, finished or completed, and only one of these ...
Apart(q, h, d, c) ==
    q \cap h = {} /\ q \cap d = {} /\ h \cap d = {} /\ (q \cup h \cup d) \cap c = {}

\* ... and its object is in the state that belongs to that place.
Works1(q, h, d, c, wk, ex) ==
    \A w \in Works :
        /\ W(w) \in q \cup h => wk[w] = "queued" /\ ex[w] = 0
        /\ W(w) \in d => wk[w] = "executed" /\ ex[w] = 1
        /\ W(w) \in c => wk[w] \in {"completed", "freed"} /\ ex[w] = 1
        /\ wk[w] \in {"none", "made"} => ex[w] = 0

Calls1(q, h, d, c, cur, cl, ts) ==
    /\ \A n \in Addon!Calls :
        /\ C(n) \in q \cup h \cup d => cl[n] = "queued"
        /\ C(n) \in c => cl[n] # "none"
        /\ ts = "none" => cl[n] = "none"
        /\ cl[n] \in {"none", "queued", "freed"}
        /\ cur = C(n) => cl[n] = "queued"
    /\ cur # Addon!NoItem => cur \in c

PlaceInv ==
    /\ IsInjective(items) /\ IsInjective(done) /\ IsInjective(completed)
    /\ \A t, u \in Pool : taken[t] = taken[u] /\ taken[t] # Addon!NoItem => t = u
    /\ Apart(Range(items), Held(taken), Range(done), Range(completed))
    /\ Works1(Range(items), Held(taken), Range(done), Range(completed), work, executed)
    /\ Calls1(Range(items), Held(taken), Range(done), Range(completed), current, call, tsfn)

ArrayInv ==
    /\ array \in [0..(Capacity - 1) -> Nat] /\ length \in 0..Capacity
    /\ \A i \in 0..(Capacity - 1) : array[i] # 0 => array[i] = i + 1 /\ i < length

AddonInv == AddonTypes /\ PlaceInv /\ ArrayInv

\* What an item is.
LEMMA ItemFacts ==
    /\ \A w \in Works : W(w) \in AnItem /\ W(w).kind = "work" /\ W(w).id = w /\ W(w) # Addon!NoItem
    /\ \A n \in Addon!Calls : C(n) \in AnItem /\ C(n).kind = "call" /\ C(n).id = n /\ C(n) # Addon!NoItem
    /\ \A w \in Works, n \in Addon!Calls : W(w) # C(n)
    /\ \A v, w \in Works : W(v) = W(w) => v = w
    /\ \A m, n \in Addon!Calls : C(m) = C(n) => m = n
    /\ \A x \in AnItem : (\E w \in Works : x = W(w)) \/ (\E n \in Addon!Calls : x = C(n))
    /\ Addon!NoItem \notin AnItem
BY DEF AnItem, W, C, Addon!Item, Addon!NoItem

\* The steps that leave the pool and the objects alone.
LEMMA SetElementStep ==
    ASSUME AddonInv, NEW i \in 0..MaxIndex, Addon!SetElement(i)
    PROVE  AddonInv'
<1>1. UNCHANGED <<items, taken, done, current, work, call, tsfn, useAfterFree, executed, completed>>
    BY DEF Addon!SetElement, Addon!poolVars, Addon!history
<1>2. AddonTypes' /\ PlaceInv'
    BY <1>1 DEF AddonInv, AddonTypes, PlaceInv
<1>3. Capacity \in Nat /\ MaxIndex \in Nat /\ i \in Nat
    BY AddonsAssumption DEF Addon!NapiAssumption
<1>4. /\ array \in [0..(Capacity - 1) -> Nat] /\ length \in 0..Capacity
      /\ \A j \in 0..(Capacity - 1) : array[j] # 0 => array[j] = j + 1 /\ j < length
    BY DEF AddonInv, ArrayInv
<1>5. CASE i < Capacity
  <2>1. array' = [array EXCEPT ![i] = i + 1] /\ length' = IF i >= length THEN i + 1 ELSE length
    BY <1>5 DEF Addon!SetElement
  <2>2. length' \in 0..Capacity /\ length' >= length /\ i < length'
    BY <1>3, <1>4, <1>5, <2>1
  <2>3. array' \in [0..(Capacity - 1) -> Nat]
    <3>1. i + 1 \in Nat
        BY <1>3
    <3> QED
        BY <1>4, <2>1, <3>1
  <2>4. ASSUME NEW j \in 0..(Capacity - 1), array'[j] # 0
        PROVE  array'[j] = j + 1 /\ j < length'
    <3>1. CASE j = i
        BY <1>4, <2>1, <2>2, <3>1
    <3>2. CASE j # i
      <4>1. array'[j] = array[j]
        BY <1>4, <2>1, <3>2
      <4> QED
        BY <1>3, <1>4, <2>2, <2>4, <4>1
    <3> QED
        BY <3>1, <3>2
  <2> QED
    BY <1>2, <2>2, <2>3, <2>4 DEF AddonInv, ArrayInv
<1>6. CASE ~(i < Capacity)
  <2>1. array' = array /\ length' = length
    BY <1>6 DEF Addon!SetElement
  <2>2. ArrayInv'
    BY <2>1 DEF AddonInv, ArrayInv
  <2> QED
    BY <1>2, <2>2 DEF AddonInv
<1> QED
    BY <1>5, <1>6

\* Creating and deleting objects, which moves no item.
LEMMA ObjectStep ==
    ASSUME AddonInv,
           \/ Addon!CreateTsfn \/ Addon!ReleaseTsfn
           \/ \E w \in Works : Addon!CreateWork(w) \/ Addon!DeleteWork(w)
    PROVE  AddonInv'
<1>1. UNCHANGED <<items, taken, done, current, call, array, length, useAfterFree, executed, completed>>
    BY DEF Addon!CreateTsfn, Addon!ReleaseTsfn, Addon!CreateWork, Addon!DeleteWork,
           Addon!poolVars, Addon!history, Addon!arrayVars
<1>2. ArrayInv'
    BY <1>1 DEF AddonInv, ArrayInv
<1>3. PICK q, h, d, c : q = Range(items) /\ h = Held(taken) /\ d = Range(done) /\ c = Range(completed)
    OBVIOUS
<1>4. /\ Works1(q, h, d, c, work, executed) /\ Calls1(q, h, d, c, current, call, tsfn)
      /\ work \in [Works -> Addon!States] /\ tsfn \in Addon!States
    BY <1>3 DEF AddonInv, PlaceInv, AddonTypes
<1>5. SUFFICES /\ Works1(q, h, d, c, work', executed) /\ Calls1(q, h, d, c, current, call, tsfn')
               /\ work' \in [Works -> Addon!States] /\ tsfn' \in Addon!States
    BY <1>1, <1>2, <1>3 DEF AddonInv, AddonTypes, PlaceInv
<1>6. CASE Addon!CreateTsfn
  <2>1. work' = work /\ tsfn' = "made"
    BY <1>6 DEF Addon!CreateTsfn
  <2> QED
    BY <1>4, <2>1 DEF Calls1, Addon!States
<1>7. CASE Addon!ReleaseTsfn
  <2>1. work' = work /\ tsfn' = "freed"
    BY <1>7 DEF Addon!ReleaseTsfn
  <2> QED
    BY <1>4, <2>1 DEF Calls1, Addon!States
<1>8. ASSUME NEW w \in Works, Addon!CreateWork(w) \/ Addon!DeleteWork(w)
      PROVE  /\ Works1(q, h, d, c, work', executed) /\ Calls1(q, h, d, c, current, call, tsfn')
             /\ work' \in [Works -> Addon!States] /\ tsfn' \in Addon!States
  <2>1. /\ tsfn' = tsfn
        /\ \/ work[w] = "none" /\ work' = [work EXCEPT ![w] = "made"]
           \/ work[w] \in {"made", "completed"} /\ work' = [work EXCEPT ![w] = "freed"]
    BY <1>8 DEF Addon!CreateWork, Addon!DeleteWork
  <2>2. work' \in [Works -> Addon!States] /\ \A v \in Works : v # w => work'[v] = work[v]
    BY <1>4, <2>1 DEF Addon!States
  <2>3. \/ work[w] = "none" /\ work'[w] = "made"
        \/ work[w] \in {"made", "completed"} /\ work'[w] = "freed"
    BY <1>4, <2>1
  <2>4. Works1(q, h, d, c, work', executed)
    BY <1>4, <2>2, <2>3 DEF Works1
  <2> QED
    BY <1>4, <2>1, <2>2, <2>4
<1> QED
    BY <1>6, <1>7, <1>8

\* napi_queue_async_work and napi_call_threadsafe_function.
LEMMA QueueStep ==
    ASSUME AddonInv,
           \/ \E w \in Works : Addon!QueueWork(w)
           \/ \E n \in Addon!Calls : Addon!CallTsfn(n)
    PROVE  AddonInv'
<1>1. UNCHANGED <<taken, done, current, tsfn, array, length, useAfterFree, executed, completed>>
    BY DEF Addon!QueueWork, Addon!CallTsfn, Addon!history, Addon!arrayVars
<1>2. ArrayInv'
    BY <1>1 DEF AddonInv, ArrayInv
<1>3. PICK q, h, d, c : q = Range(items) /\ h = Held(taken) /\ d = Range(done) /\ c = Range(completed)
    OBVIOUS
<1>4. /\ Works1(q, h, d, c, work, executed) /\ Calls1(q, h, d, c, current, call, tsfn)
      /\ Apart(q, h, d, c) /\ IsInjective(items) /\ items \in Seq(AnItem)
      /\ work \in [Works -> Addon!States] /\ call \in [Addon!Calls -> Addon!States]
    BY <1>3 DEF AddonInv, PlaceInv, AddonTypes
<1>5. ASSUME NEW x \in AnItem, items' = Append(items, x), x \notin q \cup h \cup d \cup c,
             work' \in [Works -> Addon!States], call' \in [Addon!Calls -> Addon!States],
             Works1(q \cup {x}, h, d, c, work', executed), Calls1(q \cup {x}, h, d, c, current, call', tsfn)
      PROVE  AddonInv'
  <2>1. items' \in Seq(AnItem) /\ Range(items') = q \cup {x} /\ IsInjective(items')
    BY <1>3, <1>4, <1>5, Enqueue
  <2>2. Apart(q \cup {x}, h, d, c)
    BY <1>4, <1>5 DEF Apart
  <2>3. AddonTypes'
    BY <1>1, <1>5, <2>1 DEF AddonInv, AddonTypes
  <2>4. PlaceInv'
    BY <1>1, <1>3, <1>5, <2>1, <2>2 DEF AddonInv, PlaceInv
  <2> QED
    BY <1>2, <2>3, <2>4 DEF AddonInv
<1>6. ASSUME NEW w \in Works, Addon!QueueWork(w) PROVE AddonInv'
  <2>1. /\ work[w] = "made" /\ work' = [work EXCEPT ![w] = "queued"] /\ call' = call
        /\ items' = Append(items, W(w))
    BY <1>6 DEF Addon!QueueWork, W
  <2>2. /\ work' \in [Works -> Addon!States] /\ work'[w] = "queued"
        /\ \A v \in Works : v # w => work'[v] = work[v]
    BY <1>4, <2>1 DEF Addon!States
  <2>3. W(w) \notin q \cup h \cup d \cup c /\ executed[w] = 0
    BY <1>4, <2>1 DEF Works1
  <2>4. Works1(q \cup {W(w)}, h, d, c, work', executed)
    BY <1>4, <2>2, <2>3, ItemFacts DEF Works1
  <2>5. Calls1(q \cup {W(w)}, h, d, c, current, call', tsfn)
    BY <1>4, <2>1, ItemFacts DEF Calls1
  <2> QED
    BY <1>4, <1>5, <2>1, <2>2, <2>3, <2>4, <2>5, ItemFacts
<1>7. ASSUME NEW n \in Addon!Calls, Addon!CallTsfn(n) PROVE AddonInv'
  <2>1. /\ call[n] = "none" /\ call' = [call EXCEPT ![n] = "queued"] /\ work' = work
        /\ items' = Append(items, C(n)) /\ tsfn = "made"
    BY <1>7 DEF Addon!CallTsfn, C
  <2>2. /\ call' \in [Addon!Calls -> Addon!States] /\ call'[n] = "queued"
        /\ \A m \in Addon!Calls : m # n => call'[m] = call[m]
    BY <1>4, <2>1 DEF Addon!States
  <2>3. C(n) \notin q \cup h \cup d \cup c
    BY <1>4, <2>1 DEF Calls1
  <2>4. Works1(q \cup {C(n)}, h, d, c, work', executed)
    BY <1>4, <2>1, ItemFacts DEF Works1
  <2>5. Calls1(q \cup {C(n)}, h, d, c, current, call', tsfn)
    BY <1>4, <2>1, <2>2, <2>3, ItemFacts DEF Calls1
  <2> QED
    BY <1>4, <1>5, <2>1, <2>2, <2>3, <2>4, <2>5, ItemFacts
<1> QED
    BY <1>6, <1>7

\* What the threads hold when one of them takes or gives up an item.
LEMMA HeldChanges ==
    ASSUME NEW tk \in [Pool -> AnItem \cup {Addon!NoItem}], NEW t \in Pool,
           \A u, v \in Pool : tk[u] = tk[v] /\ tk[u] # Addon!NoItem => u = v
    PROVE  /\ \A x \in AnItem : tk[t] = Addon!NoItem =>
                 Held([tk EXCEPT ![t] = x]) = Held(tk) \cup {x}
           /\ tk[t] # Addon!NoItem =>
                 Held([tk EXCEPT ![t] = Addon!NoItem]) = Held(tk) \ {tk[t]} /\ tk[t] \in Held(tk)
<1>1. ASSUME NEW x \in AnItem, tk[t] = Addon!NoItem
      PROVE  Held([tk EXCEPT ![t] = x]) = Held(tk) \cup {x}
  <2>1. PICK n : n = [tk EXCEPT ![t] = x]
    OBVIOUS
  <2>2. n[t] = x /\ \A u \in Pool : u # t => n[u] = tk[u]
    BY <2>1
  <2>3. ASSUME NEW y \in AnItem PROVE y \in Held(n) <=> y \in Held(tk) \cup {x}
    <3>1. ASSUME NEW u \in Pool, n[u] = y PROVE y \in Held(tk) \cup {x}
        BY <2>2, <3>1 DEF Held
    <3>2. ASSUME NEW u \in Pool, tk[u] = y PROVE y \in Held(n)
      <4>1. u # t
        BY <1>1, <3>2, ItemFacts
      <4> QED
        BY <2>2, <3>2, <4>1 DEF Held
    <3>3. x \in Held(n)
        BY <2>2 DEF Held
    <3> QED
        BY <3>1, <3>2, <3>3 DEF Held
  <2> QED
    BY <2>1, <2>3 DEF Held
<1>2. ASSUME tk[t] # Addon!NoItem
      PROVE  Held([tk EXCEPT ![t] = Addon!NoItem]) = Held(tk) \ {tk[t]} /\ tk[t] \in Held(tk)
  <2>1. PICK n : n = [tk EXCEPT ![t] = Addon!NoItem]
    OBVIOUS
  <2>2. n[t] = Addon!NoItem /\ \A u \in Pool : u # t => n[u] = tk[u]
    BY <2>1
  <2>3. ASSUME NEW y \in AnItem PROVE y \in Held(n) <=> y \in Held(tk) \ {tk[t]}
    <3>1. ASSUME NEW u \in Pool, n[u] = y PROVE y \in Held(tk) \ {tk[t]}
      <4>1. u # t
        BY <2>2, <3>1, ItemFacts
      <4>2. tk[u] = y /\ y # Addon!NoItem
        BY <2>2, <3>1, <4>1, ItemFacts
      <4> QED
        BY <4>1, <4>2 DEF Held
    <3>2. ASSUME NEW u \in Pool, tk[u] = y, y # tk[t] PROVE y \in Held(n)
        BY <2>2, <3>2 DEF Held
    <3> QED
        BY <3>1, <3>2 DEF Held
  <2>4. tk[t] \in Held(tk)
    BY <1>2 DEF Held
  <2> QED
    BY <2>1, <2>3, <2>4 DEF Held
<1> QED
    BY <1>1, <1>2

\* The pool takes the oldest item.
LEMMA TakeStep ==
    ASSUME AddonInv, NEW t \in Pool, Addon!Take(t)
    PROVE  AddonInv'
<1>1. /\ UNCHANGED <<done, current, work, call, tsfn, array, length, useAfterFree, executed, completed>>
      /\ taken[t] = Addon!NoItem /\ items # <<>>
      /\ taken' = [taken EXCEPT ![t] = Head(items)] /\ items' = Tail(items)
    BY DEF Addon!Take, Addon!history, Addon!arrayVars
<1>2. ArrayInv'
    BY <1>1 DEF AddonInv, ArrayInv
<1>3. PICK q, h, d, c : q = Range(items) /\ h = Held(taken) /\ d = Range(done) /\ c = Range(completed)
    OBVIOUS
<1>4. /\ Works1(q, h, d, c, work, executed) /\ Calls1(q, h, d, c, current, call, tsfn)
      /\ Apart(q, h, d, c) /\ IsInjective(items) /\ items \in Seq(AnItem)
      /\ taken \in [Pool -> AnItem \cup {Addon!NoItem}]
      /\ \A u, v \in Pool : taken[u] = taken[v] /\ taken[u] # Addon!NoItem => u = v
    BY <1>3 DEF AddonInv, PlaceInv, AddonTypes
<1>5. PICK x : x = Head(items)
    OBVIOUS
<1>6. /\ x \in AnItem /\ x \in q /\ items' \in Seq(AnItem) /\ Range(items') = q \ {x}
      /\ IsInjective(items')
    BY <1>1, <1>3, <1>4, <1>5, Dequeue
<1>7. Held(taken') = h \cup {x}
  <2>1. taken' = [taken EXCEPT ![t] = x]
    BY <1>1, <1>5
  <2>2. taken[t] = Addon!NoItem => Held([taken EXCEPT ![t] = x]) = Held(taken) \cup {x}
    BY <1>4, <1>6, HeldChanges
  <2> QED
    BY <1>1, <1>3, <2>1, <2>2
<1>8. x \notin h /\ x \notin d /\ x \notin c /\ x # Addon!NoItem
    BY <1>4, <1>6, ItemFacts DEF Apart
<1>9. /\ taken' \in [Pool -> AnItem \cup {Addon!NoItem}] /\ taken'[t] = x
      /\ \A u \in Pool : u # t => taken'[u] = taken[u] /\ taken[u] # x
  <2>1. \A u \in Pool : taken[u] # x
    BY <1>3, <1>6, <1>8 DEF Held
  <2> QED
    BY <1>1, <1>4, <1>5, <1>6, <2>1
<1>10. \A u, v \in Pool : taken'[u] = taken'[v] /\ taken'[u] # Addon!NoItem => u = v
    BY <1>4, <1>9
<1>11. Apart(q \ {x}, h \cup {x}, d, c)
    BY <1>4, <1>6, <1>8 DEF Apart
<1>12. Works1(q \ {x}, h \cup {x}, d, c, work, executed)
    BY <1>4, <1>6 DEF Works1
<1>13. Calls1(q \ {x}, h \cup {x}, d, c, current, call, tsfn)
    BY <1>4, <1>6 DEF Calls1
<1>14. AddonTypes'
    BY <1>1, <1>6, <1>9 DEF AddonInv, AddonTypes
<1>15. PlaceInv'
    BY <1>1, <1>3, <1>6, <1>7, <1>10, <1>11, <1>12, <1>13 DEF AddonInv, PlaceInv
<1> QED
    BY <1>2, <1>14, <1>15 DEF AddonInv

\* A pool thread runs execute, or nothing for a thread-safe function.
LEMMA ExecuteStep ==
    ASSUME AddonInv, NEW t \in Pool, Addon!Execute(t)
    PROVE  AddonInv'
<1>1. /\ UNCHANGED <<items, current, call, tsfn, array, length, completed>>
      /\ taken[t] # Addon!NoItem /\ taken' = [taken EXCEPT ![t] = Addon!NoItem]
      /\ done' = Append(done, taken[t])
    BY DEF Addon!Execute, Addon!arrayVars
<1>2. ArrayInv'
    BY <1>1 DEF AddonInv, ArrayInv
<1>3. PICK q, h, d, c : q = Range(items) /\ h = Held(taken) /\ d = Range(done) /\ c = Range(completed)
    OBVIOUS
<1>4. /\ Works1(q, h, d, c, work, executed) /\ Calls1(q, h, d, c, current, call, tsfn)
      /\ Apart(q, h, d, c) /\ IsInjective(done) /\ done \in Seq(AnItem)
      /\ taken \in [Pool -> AnItem \cup {Addon!NoItem}] /\ useAfterFree = FALSE
      /\ \A u, v \in Pool : taken[u] = taken[v] /\ taken[u] # Addon!NoItem => u = v
      /\ work \in [Works -> Addon!States] /\ executed \in [Works -> 0..1]
    BY <1>3 DEF AddonInv, PlaceInv, AddonTypes
<1>5. PICK x : x = taken[t]
    OBVIOUS
<1>6. x \in AnItem /\ x \in h /\ Held(taken') = h \ {x}
    BY <1>1, <1>3, <1>4, <1>5, HeldChanges
<1>7. x \notin q /\ x \notin d /\ x \notin c
    BY <1>4, <1>6 DEF Apart
<1>8. /\ done' \in Seq(AnItem) /\ Range(done') = d \cup {x} /\ IsInjective(done')
    BY <1>1, <1>3, <1>4, <1>5, <1>6, <1>7, Enqueue
<1>9. taken' \in [Pool -> AnItem \cup {Addon!NoItem}]
    BY <1>1, <1>4
<1>10. \A u, v \in Pool : taken'[u] = taken'[v] /\ taken'[u] # Addon!NoItem => u = v
    BY <1>1, <1>4
<1>11. Apart(q, h \ {x}, d \cup {x}, c)
    BY <1>4, <1>6, <1>7 DEF Apart
<1>12. SUFFICES /\ Works1(q, h \ {x}, d \cup {x}, c, work', executed')
                /\ Calls1(q, h \ {x}, d \cup {x}, c, current, call, tsfn)
                /\ work' \in [Works -> Addon!States] /\ executed' \in [Works -> 0..1]
                /\ useAfterFree' = FALSE
  <2>1. AddonTypes'
    BY <1>1, <1>8, <1>9, <1>12 DEF AddonInv, AddonTypes
  <2>2. PlaceInv'
    BY <1>1, <1>3, <1>6, <1>8, <1>10, <1>11, <1>12 DEF AddonInv, PlaceInv
  <2> QED
    BY <1>2, <2>1, <2>2 DEF AddonInv
<1>13. Calls1(q, h \ {x}, d \cup {x}, c, current, call, tsfn)
    BY <1>4, <1>6 DEF Calls1
<1>14. CASE \E n \in Addon!Calls : x = C(n)
  <2>1. PICK n \in Addon!Calls : x = C(n)
    BY <1>14
  <2>2. x.kind = "call" /\ x.id = n /\ call[n] = "queued"
    BY <1>4, <1>6, <2>1, ItemFacts DEF Calls1
  <2>3. Addon!Live(x)
    BY <2>2 DEF Addon!Live
  <2>4. work' = work /\ executed' = executed /\ useAfterFree' = FALSE
    BY <1>4, <1>5, <2>2, <2>3 DEF Addon!Execute
  <2>5. Works1(q, h \ {x}, d \cup {x}, c, work, executed)
    BY <1>4, <2>1, ItemFacts DEF Works1
  <2> QED
    BY <1>4, <1>13, <2>4, <2>5
<1>15. CASE \E w \in Works : x = W(w)
  <2>1. PICK w \in Works : x = W(w)
    BY <1>15
  <2>2. x.kind = "work" /\ x.id = w /\ work[w] = "queued" /\ executed[w] = 0
    BY <1>4, <1>6, <2>1, ItemFacts DEF Works1
  <2>3. Addon!Live(x)
    BY <2>2 DEF Addon!Live
  <2>4. /\ work' = [work EXCEPT ![w] = "executed"] /\ useAfterFree' = FALSE
        /\ executed' = [executed EXCEPT ![w] = executed[w] + 1]
    BY <1>4, <1>5, <2>2, <2>3 DEF Addon!Execute
  <2>5. /\ work' \in [Works -> Addon!States] /\ executed' \in [Works -> 0..1]
        /\ work'[w] = "executed" /\ executed'[w] = 1
        /\ \A v \in Works : v # w => work'[v] = work[v] /\ executed'[v] = executed[v]
    BY <1>4, <2>2, <2>4 DEF Addon!States
  <2>6. Works1(q, h \ {x}, d \cup {x}, c, work', executed')
    BY <1>4, <1>7, <2>1, <2>5, ItemFacts DEF Works1
  <2> QED
    BY <1>13, <2>4, <2>5, <2>6
<1> QED
    BY <1>6, <1>14, <1>15, ItemFacts

\* The loop calls the addon with the oldest result.
LEMMA AfterStep ==
    ASSUME AddonInv, Addon!After
    PROVE  AddonInv'
<1>1. /\ UNCHANGED <<items, taken, call, tsfn, array, length, executed>>
      /\ current = Addon!NoItem /\ done # <<>>
      /\ done' = Tail(done) /\ current' = Head(done) /\ completed' = Append(completed, Head(done))
    BY DEF Addon!After, Addon!arrayVars
<1>2. ArrayInv'
    BY <1>1 DEF AddonInv, ArrayInv
<1>3. PICK q, h, d, c : q = Range(items) /\ h = Held(taken) /\ d = Range(done) /\ c = Range(completed)
    OBVIOUS
<1>4. /\ Works1(q, h, d, c, work, executed) /\ Calls1(q, h, d, c, current, call, tsfn)
      /\ Apart(q, h, d, c) /\ IsInjective(done) /\ done \in Seq(AnItem)
      /\ IsInjective(completed) /\ completed \in Seq(AnItem) /\ useAfterFree = FALSE
      /\ work \in [Works -> Addon!States]
    BY <1>3 DEF AddonInv, PlaceInv, AddonTypes
<1>5. PICK x : x = Head(done)
    OBVIOUS
<1>6. /\ x \in AnItem /\ x \in d /\ done' \in Seq(AnItem) /\ Range(done') = d \ {x}
      /\ IsInjective(done')
    BY <1>1, <1>3, <1>4, <1>5, Dequeue
<1>7. x \notin q /\ x \notin h /\ x \notin c
    BY <1>4, <1>6 DEF Apart
<1>8. /\ completed' \in Seq(AnItem) /\ Range(completed') = c \cup {x} /\ IsInjective(completed')
    BY <1>1, <1>3, <1>4, <1>5, <1>6, <1>7, Enqueue
<1>9. Apart(q, h, d \ {x}, c \cup {x})
    BY <1>4, <1>6, <1>7 DEF Apart
<1>10. SUFFICES /\ Works1(q, h, d \ {x}, c \cup {x}, work', executed)
                /\ Calls1(q, h, d \ {x}, c \cup {x}, x, call, tsfn)
                /\ work' \in [Works -> Addon!States] /\ useAfterFree' = FALSE
  <2>1. AddonTypes'
    BY <1>1, <1>5, <1>6, <1>8, <1>10 DEF AddonInv, AddonTypes
  <2>2. PlaceInv'
    BY <1>1, <1>3, <1>5, <1>6, <1>8, <1>9, <1>10 DEF AddonInv, PlaceInv
  <2> QED
    BY <1>2, <2>1, <2>2 DEF AddonInv
<1>11. Calls1(q, h, d \ {x}, c \cup {x}, x, call, tsfn)
    BY <1>4, <1>6, ItemFacts DEF Calls1
<1>12. CASE \E n \in Addon!Calls : x = C(n)
  <2>1. PICK n \in Addon!Calls : x = C(n)
    BY <1>12
  <2>2. x.kind = "call" /\ x.id = n /\ call[n] = "queued"
    BY <1>4, <1>6, <2>1, ItemFacts DEF Calls1
  <2>3. Addon!Live(x)
    BY <2>2 DEF Addon!Live
  <2>4. work' = work /\ useAfterFree' = FALSE
    BY <1>4, <1>5, <2>2, <2>3 DEF Addon!After
  <2>5. Works1(q, h, d \ {x}, c \cup {x}, work, executed)
    BY <1>4, <2>1, ItemFacts DEF Works1
  <2> QED
    BY <1>4, <1>11, <2>4, <2>5
<1>13. CASE \E w \in Works : x = W(w)
  <2>1. PICK w \in Works : x = W(w)
    BY <1>13
  <2>2. x.kind = "work" /\ x.id = w /\ work[w] = "executed" /\ executed[w] = 1
    BY <1>4, <1>6, <2>1, ItemFacts DEF Works1
  <2>3. Addon!Live(x)
    BY <2>2 DEF Addon!Live
  <2>4. work' = [work EXCEPT ![w] = "completed"] /\ useAfterFree' = FALSE
    BY <1>4, <1>5, <2>2, <2>3 DEF Addon!After
  <2>5. /\ work' \in [Works -> Addon!States] /\ work'[w] = "completed"
        /\ \A v \in Works : v # w => work'[v] = work[v]
    BY <1>4, <2>4 DEF Addon!States
  <2>6. Works1(q, h, d \ {x}, c \cup {x}, work', executed)
    <3>1. ASSUME NEW v \in Works, v # w
          PROVE  W(v) # x /\ work'[v] = work[v]
        BY <2>1, <2>5, <3>1, ItemFacts
    <3>2. W(w) \notin q \cup h
        BY <1>7, <2>1
    <3> QED
        BY <1>4, <2>1, <2>2, <2>5, <3>1, <3>2 DEF Works1
  <2> QED
    BY <1>11, <2>4, <2>5, <2>6
<1> QED
    BY <1>6, <1>12, <1>13, ItemFacts

\* The callback returns, and tsfn_after_work frees the call.
LEMMA AfterReturnsStep ==
    ASSUME AddonInv, Addon!AfterReturns
    PROVE  AddonInv'
<1>1. /\ UNCHANGED <<items, taken, done, work, tsfn, array, length, executed, completed>>
      /\ current # Addon!NoItem /\ current' = Addon!NoItem
    BY DEF Addon!AfterReturns, Addon!arrayVars
<1>2. ArrayInv'
    BY <1>1 DEF AddonInv, ArrayInv
<1>3. PICK q, h, d, c : q = Range(items) /\ h = Held(taken) /\ d = Range(done) /\ c = Range(completed)
    OBVIOUS
<1>4. /\ Calls1(q, h, d, c, current, call, tsfn) /\ Apart(q, h, d, c) /\ useAfterFree = FALSE
      /\ call \in [Addon!Calls -> Addon!States] /\ current \in AnItem
    BY <1>1, <1>3 DEF AddonInv, PlaceInv, AddonTypes
<1>5. SUFFICES /\ Calls1(q, h, d, c, Addon!NoItem, call', tsfn)
               /\ call' \in [Addon!Calls -> Addon!States] /\ useAfterFree' = FALSE
    BY <1>1, <1>2, <1>3 DEF AddonInv, AddonTypes, PlaceInv
<1>6. CASE \E n \in Addon!Calls : current = C(n)
  <2>1. PICK n \in Addon!Calls : current = C(n)
    BY <1>6
  <2>2. current.kind = "call" /\ current.id = n /\ call[n] = "queued" /\ C(n) \in c
    BY <1>1, <1>4, <2>1, ItemFacts DEF Calls1
  <2>3. Addon!Live(current)
    BY <2>2 DEF Addon!Live
  <2>4. call' = [call EXCEPT ![n] = "freed"] /\ useAfterFree' = FALSE
    BY <1>4, <2>2, <2>3 DEF Addon!AfterReturns
  <2>5. /\ call' \in [Addon!Calls -> Addon!States] /\ call'[n] = "freed"
        /\ \A m \in Addon!Calls : m # n => call'[m] = call[m]
    BY <1>4, <2>4 DEF Addon!States
  <2>6. C(n) \notin q \cup h \cup d
    BY <1>4, <2>2 DEF Apart
  <2>7. Calls1(q, h, d, c, Addon!NoItem, call', tsfn)
    <3>1. \A m \in Addon!Calls : Addon!NoItem # C(m)
        BY ItemFacts
    <3>2. tsfn # "none"
        BY <1>4, <2>2 DEF Calls1
    <3> QED
        BY <1>4, <2>5, <2>6, <3>1, <3>2 DEF Calls1
  <2> QED
    BY <2>4, <2>5, <2>7
<1>7. CASE \E w \in Works : current = W(w)
  <2>1. current.kind = "work"
    BY <1>7, ItemFacts
  <2>2. call' = call /\ useAfterFree' = FALSE
    BY <1>4, <2>1 DEF Addon!AfterReturns
  <2>3. Calls1(q, h, d, c, Addon!NoItem, call, tsfn)
    BY <1>4, ItemFacts DEF Calls1
  <2> QED
    BY <1>4, <2>2, <2>3
<1> QED
    BY <1>4, <1>6, <1>7, ItemFacts

\* An addon that has done nothing yet.
LEMMA AddonInit ==
    ASSUME Addon!Init
    PROVE  AddonInv
<1>1. Capacity \in Nat /\ MaxIndex \in Nat
    BY AddonsAssumption DEF Addon!NapiAssumption
<1>2. /\ items = <<>> /\ done = <<>> /\ completed = <<>> /\ current = Addon!NoItem
      /\ taken = [t \in Pool |-> Addon!NoItem] /\ work = [w \in Works |-> "none"]
      /\ call = [n \in Addon!Calls |-> "none"] /\ tsfn = "none" /\ useAfterFree = FALSE
      /\ executed = [w \in Works |-> 0]
      /\ array = [i \in 0..(Capacity - 1) |-> 0] /\ length = 0
    BY DEF Addon!Init
<1>3. ArrayInv
    BY <1>1, <1>2 DEF ArrayInv
<1>4. Range(items) = {} /\ Range(done) = {} /\ Range(completed) = {} /\ Held(taken) = {}
  <2>1. Held(taken) = {}
    BY <1>2, ItemFacts DEF Held
  <2> QED
    BY <1>2, <2>1, EmptyQueue
<1>5. IsInjective(items) /\ IsInjective(done) /\ IsInjective(completed)
    BY <1>2, EmptyQueue
<1>6. AddonTypes
  <2>1. items \in Seq(AnItem) /\ done \in Seq(AnItem) /\ completed \in Seq(AnItem)
    BY <1>2
  <2>2. taken \in [Pool -> AnItem \cup {Addon!NoItem}] /\ current \in AnItem \cup {Addon!NoItem}
    BY <1>2
  <2>3. /\ work \in [Works -> Addon!States] /\ call \in [Addon!Calls -> Addon!States]
        /\ tsfn \in Addon!States /\ executed \in [Works -> 0..1]
    BY <1>2 DEF Addon!States
  <2> QED
    BY <1>2, <2>1, <2>2, <2>3 DEF AddonTypes
<1>7. PlaceInv
  <2>1. \A w \in Works : executed[w] = 0
    BY <1>2
  <2>2. \A n \in Addon!Calls : call[n] = "none" /\ current # C(n)
    BY <1>2, ItemFacts
  <2>3. \A t \in Pool : taken[t] = Addon!NoItem
    BY <1>2
  <2>4. Apart({}, {}, {}, {}) /\ Works1({}, {}, {}, {}, work, executed)
    BY <2>1 DEF Apart, Works1
  <2>5. Calls1({}, {}, {}, {}, current, call, tsfn)
    BY <1>2, <2>2 DEF Calls1
  <2> QED
    BY <1>4, <1>5, <2>3, <2>4, <2>5 DEF PlaceInv
<1> QED
    BY <1>3, <1>6, <1>7 DEF AddonInv

\* Every step keeps the invariant.
LEMMA AddonNext ==
    ASSUME AddonInv, [Addon!Next]_(Addon!vars)
    PROVE  AddonInv'
<1>1. ASSUME NEW w \in Works, Addon!CreateWork(w) \/ Addon!QueueWork(w) \/ Addon!DeleteWork(w)
      PROVE  AddonInv'
    BY <1>1, ObjectStep, QueueStep
<1>2. CASE Addon!CreateTsfn \/ Addon!ReleaseTsfn
    BY <1>2, ObjectStep
<1>3. ASSUME NEW n \in Addon!Calls, Addon!CallTsfn(n) PROVE AddonInv'
    BY <1>3, QueueStep
<1>4. ASSUME NEW t \in Pool, Addon!Take(t) \/ Addon!Execute(t) PROVE AddonInv'
    BY <1>4, TakeStep, ExecuteStep
<1>5. CASE Addon!After \/ Addon!AfterReturns
    BY <1>5, AfterStep, AfterReturnsStep
<1>6. ASSUME NEW i \in 0..MaxIndex, Addon!SetElement(i) PROVE AddonInv'
    BY <1>6, SetElementStep
<1>7. CASE UNCHANGED Addon!vars
  <2>1. /\ UNCHANGED <<items, taken, done, current, work, call, tsfn, array, length>>
        /\ UNCHANGED <<useAfterFree, executed, completed>>
    BY <1>7 DEF Addon!vars
  <2>2. AddonTypes' /\ ArrayInv'
    BY <2>1 DEF AddonInv, AddonTypes, ArrayInv
  <2>3. PlaceInv'
    BY <2>1 DEF AddonInv, PlaceInv
  <2> QED
    BY <2>2, <2>3 DEF AddonInv
<1> QED
    BY <1>1, <1>2, <1>3, <1>4, <1>5, <1>6, <1>7 DEF Addon!Next, Addon!Step

\* A function that was released, but not too early, has no call that is still
\* to be delivered.
ReleaseInv ==
    /\ tsfnUndefined \in BOOLEAN /\ early \in BOOLEAN /\ (tsfnUndefined => early)
    /\ tsfn \notin {"none", "made"} /\ ~early =>
          \A n \in Addon!Calls : call[n] = "queued" => C(n) \in Range(completed)

\* Releasing the function and delivering a call; other steps leave tsfn and
\* early alone and make no call of a released function.
LEMMA ReleaseStep ==
    ASSUME AddonInv, ReleaseInv, [Addon!Next]_(Addon!vars)
    PROVE  ReleaseInv'
<1>1. /\ completed \in Seq(AnItem) /\ done \in Seq(AnItem) /\ call \in [Addon!Calls -> Addon!States]
      /\ Calls1(Range(items), Held(taken), Range(done), Range(completed), current, call, tsfn)
      /\ Apart(Range(items), Held(taken), Range(done), Range(completed)) /\ IsInjective(done)
      /\ IsInjective(completed)
    BY DEF AddonInv, AddonTypes, PlaceInv
<1>2. ASSUME UNCHANGED <<tsfn, early, tsfnUndefined, completed>>,
             tsfn \in {"none", "made"} \/
                 \A n \in Addon!Calls : call'[n] = "queued" => call[n] = "queued"
      PROVE  ReleaseInv'
    BY <1>2 DEF ReleaseInv
<1>3. CASE Addon!CreateTsfn
    BY <1>3 DEF ReleaseInv, Addon!CreateTsfn, Addon!history
<1>4. CASE ~tsfnUndefined /\ Addon!ReleaseTsfn
  <2>1. /\ UNCHANGED <<tsfnUndefined, completed, call>> /\ tsfn = "made" /\ tsfn' = "freed"
        /\ early' = \E n \in Addon!Calls : call[n] = "queued" /\ ~Addon!Delivered(n)
    BY <1>4 DEF Addon!ReleaseTsfn
  <2>2. ASSUME NEW n \in Addon!Calls, Addon!Delivered(n) PROVE C(n) \in Range(completed)
    <3>1. PICK k \in 1..Len(completed) : completed[k] = C(n)
        BY <2>2 DEF Addon!Delivered, C
    <3>2. DOMAIN completed = 1..Len(completed)
        BY <1>1
    <3> QED
        BY <3>1, <3>2 DEF Range
  <2> QED
    BY <1>4, <2>1, <2>2 DEF ReleaseInv
<1>5. CASE Addon!After
  <2>1. /\ UNCHANGED <<tsfn, early, call>> /\ done # <<>>
        /\ completed' = Append(completed, Head(done))
        /\ tsfnUndefined' = (Head(done).kind = "call" /\ tsfn # "made")
    BY <1>5 DEF Addon!After
  <2>2. PICK x : x = Head(done)
    OBVIOUS
  <2>3. x \in AnItem /\ x \in Range(done) /\ x \notin Range(completed)
    BY <1>1, <2>1, <2>2, Dequeue DEF Apart
  <2>4. Range(completed') = Range(completed) \cup {x}
    BY <1>1, <2>1, <2>2, <2>3, Enqueue
  <2>5. ASSUME x.kind = "call", tsfn # "made" PROVE early
    <3>1. PICK n \in Addon!Calls : x = C(n)
        BY <2>3, <2>5, ItemFacts
    <3>2. call[n] = "queued"
        BY <1>1, <2>3, <3>1 DEF Calls1
    <3>3. tsfn # "none"
        BY <1>1, <3>2 DEF Calls1
    <3> QED
        BY <2>3, <2>5, <3>1, <3>2, <3>3 DEF ReleaseInv
  <2>6. tsfnUndefined' \in BOOLEAN /\ early' \in BOOLEAN /\ (tsfnUndefined' => early')
    BY <2>1, <2>2, <2>5 DEF ReleaseInv
  <2> QED
    BY <2>1, <2>4, <2>6 DEF ReleaseInv
<1>6. CASE Addon!AfterReturns
  <2>1. /\ UNCHANGED <<tsfn, early, tsfnUndefined, completed>>
        /\ \/ call' = [call EXCEPT ![current.id] = "freed"]
           \/ call' = call
    BY <1>6 DEF Addon!AfterReturns
  <2>2. \A n \in Addon!Calls : call'[n] = "queued" => call[n] = "queued"
    BY <1>1, <2>1
  <2> QED
    BY <1>2, <2>1, <2>2
<1>7. ASSUME NEW n \in Addon!Calls, Addon!CallTsfn(n) PROVE ReleaseInv'
    BY <1>2, <1>7 DEF Addon!CallTsfn, Addon!history
<1>8. ASSUME NEW w \in Works, Addon!CreateWork(w) \/ Addon!QueueWork(w) \/ Addon!DeleteWork(w)
      PROVE  ReleaseInv'
    BY <1>2, <1>8 DEF Addon!CreateWork, Addon!QueueWork, Addon!DeleteWork, Addon!history
<1>9. ASSUME NEW t \in Pool, Addon!Take(t) \/ Addon!Execute(t) PROVE ReleaseInv'
    BY <1>2, <1>9 DEF Addon!Take, Addon!Execute, Addon!history
<1>10. ASSUME NEW i \in 0..MaxIndex, Addon!SetElement(i) PROVE ReleaseInv'
    BY <1>2, <1>10 DEF Addon!SetElement, Addon!history
<1>11. CASE UNCHANGED Addon!vars
    BY <1>2, <1>11 DEF Addon!vars
<1> QED
    BY <1>3, <1>4, <1>5, <1>6, <1>7, <1>8, <1>9, <1>10, <1>11 DEF Addon!Next, Addon!Step

\* A queue without duplicates is not longer than the set of its items.
LEMMA NoLonger ==
    ASSUME NEW S, IsFiniteSet(S), NEW q \in Seq(S), IsInjective(q)
    PROVE  /\ IsFiniteSet(Range(q)) /\ Range(q) \subseteq S
           /\ Len(q) \in Nat /\ Len(q) <= Cardinality(Range(q))
<1>1. Len(q) \in Nat /\ DOMAIN q = 1..Len(q) /\ q \in [1..Len(q) -> Range(q)] /\ Range(q) \subseteq S
    BY DEF Range
<1>2. IsFiniteSet(Range(q))
    BY <1>1, FS_Subset
<1>3. q \in Injection(1..Len(q), Range(q))
    BY <1>1 DEF Injection, IsInjective
<1>4. Cardinality(1..Len(q)) = Len(q)
    BY <1>1, FS_Interval
<1>5. Cardinality(1..Len(q)) <= Cardinality(Range(q))
    BY <1>2, <1>3, FS_Injection
<1> QED
    BY <1>1, <1>2, <1>4, <1>5

\* The operators on finite sets are the same inside and outside the instance.
LEMMA SameCounts ==
    \A S : Addon!Cardinality(S) = Cardinality(S) /\ (Addon!IsFiniteSet(S) <=> IsFiniteSet(S))
<1>1. \A S : Addon!Cardinality(S) = Cardinality(S)
    BY DEF Addon!Cardinality, Cardinality
<1>2. \A S : Addon!IsFiniteSet(S) <=> IsFiniteSet(S)
    BY DEF Addon!IsFiniteSet, IsFiniteSet
<1> QED
    BY <1>1, <1>2

\* There are as many items as works and calls, at most.
LEMMA ItemCount ==
    IsFiniteSet(AnItem) /\ Cardinality(AnItem) <= Cardinality(Works) + MaxUses
<1>1. IsFiniteSet(Works) /\ MaxUses \in Nat /\ Cardinality(Works) \in Nat
  <2>1. IsFiniteSet(Works) /\ MaxUses \in Nat
    BY AddonsAssumption, SameCounts DEF Addon!NapiAssumption
  <2> QED
    BY <2>1, FS_CardinalityType
<1>2. PICK A, B : A = {W(w) : w \in Works} /\ B = {C(n) : n \in Addon!Calls}
    OBVIOUS
<1>3. IsFiniteSet(A) /\ Cardinality(A) <= Cardinality(Works)
  <2>1. [w \in Works |-> W(w)] \in Surjection(Works, A)
    BY <1>2 DEF Surjection
  <2> QED
    BY <1>1, <2>1, FS_Surjection
<1>4. IsFiniteSet(Addon!Calls) /\ Cardinality(Addon!Calls) = MaxUses
    BY <1>1, FS_Interval DEF Addon!Calls
<1>5. IsFiniteSet(B) /\ Cardinality(B) <= MaxUses
  <2>1. [n \in Addon!Calls |-> C(n)] \in Surjection(Addon!Calls, B)
    BY <1>2 DEF Surjection
  <2> QED
    BY <1>4, <2>1, FS_Surjection
<1>6. /\ IsFiniteSet(A \cup B)
      /\ Cardinality(A \cup B) = Cardinality(A) + Cardinality(B) - Cardinality(A \cap B)
    BY <1>3, <1>5, FS_Union
<1>7. Cardinality(A) \in Nat /\ Cardinality(B) \in Nat /\ Cardinality(A \cap B) \in Nat
  <2>1. IsFiniteSet(A \cap B)
    BY <1>3, FS_Subset
  <2> QED
    BY <1>3, <1>5, <2>1, FS_CardinalityType
<1>8. AnItem = A \cup B
    BY <1>2 DEF AnItem
<1> QED
    BY <1>1, <1>3, <1>5, <1>6, <1>7, <1>8

\* napi.c on thread_pool.c: an addon that keeps to the rules never makes the
\* runtime touch a freed work or call, whatever the pool's threads do in between,
\* nor a freed thread-safe function unless that was released, as the code lets
\* it be, before its last call was delivered; each work is executed once and completed once, each call of the thread-safe
\* function delivered once, and the elements an array has room for are kept.
THEOREM AddonsStaySound == Addon!Spec => []AddonSound
<1>1. Addon!Init => AddonInv /\ ReleaseInv
    BY AddonInit DEF ReleaseInv, Addon!Init
<1>2. AddonInv /\ ReleaseInv /\ [Addon!Next]_(Addon!vars) => AddonInv' /\ ReleaseInv'
    BY AddonNext, ReleaseStep
<1>3. ASSUME AddonInv, ReleaseInv PROVE AddonSound
  <2>1. Len(items) + Len(done) <= Cardinality(Works) + MaxUses
    <3>1. /\ items \in Seq(AnItem) /\ done \in Seq(AnItem) /\ IsInjective(items) /\ IsInjective(done)
          /\ Range(items) \cap Range(done) = {}
        BY <1>3 DEF AddonInv, AddonTypes, PlaceInv, Apart
    <3>2. PICK A, B : A = Range(items) /\ B = Range(done)
        OBVIOUS
    <3>3. IsFiniteSet(A) /\ A \subseteq AnItem /\ Len(items) \in Nat /\ Len(items) <= Cardinality(A)
        BY <3>1, <3>2, ItemCount, NoLonger
    <3>4. IsFiniteSet(B) /\ B \subseteq AnItem /\ Len(done) \in Nat /\ Len(done) <= Cardinality(B)
        BY <3>1, <3>2, ItemCount, NoLonger
    <3>5. Cardinality(A \cup B) = Cardinality(A) + Cardinality(B)
      <4>1. Cardinality(A \cup B) = Cardinality(A) + Cardinality(B) - Cardinality(A \cap B)
        BY <3>3, <3>4, FS_Union
      <4>2. Cardinality(A \cap B) = 0
        BY <3>1, <3>2, FS_EmptySet
      <4> QED
        BY <3>3, <3>4, <4>1, <4>2, FS_CardinalityType
    <3>6. Cardinality(A \cup B) <= Cardinality(AnItem)
        BY <3>3, <3>4, ItemCount, FS_Subset
    <3>7. /\ Cardinality(A) \in Nat /\ Cardinality(B) \in Nat /\ Cardinality(AnItem) \in Nat
          /\ Cardinality(Works) \in Nat /\ MaxUses \in Nat
      <4>1. IsFiniteSet(Works) /\ MaxUses \in Nat
        BY AddonsAssumption, SameCounts DEF Addon!NapiAssumption
      <4> QED
        BY <3>3, <3>4, <4>1, ItemCount, FS_CardinalityType
    <3> QED
        BY <3>3, <3>4, <3>5, <3>6, <3>7, ItemCount
  <2>2. Addon!TypeOK
    BY <1>3, <2>1, SameCounts DEF AddonInv, AddonTypes, ArrayInv, ReleaseInv, Addon!TypeOK
  <2>3. Addon!UsesAreLive
    BY <1>3 DEF AddonInv, AddonTypes, ReleaseInv, Addon!UsesAreLive
  <2>4. Addon!CompletedOnce
    <3>1. /\ completed \in Seq(AnItem) /\ IsInjective(completed) /\ executed \in [Works -> 0..1]
          /\ DOMAIN completed = 1..Len(completed)
        BY <1>3 DEF AddonInv, AddonTypes, PlaceInv
    <3>2. \A k, l \in 1..Len(completed) : completed[k] = completed[l] => k = l
        BY <3>1 DEF IsInjective
    <3>3. ASSUME NEW w \in Works
          PROVE  /\ executed[w] <= 1
                 /\ Cardinality({k \in 1..Len(completed) : completed[k] = Addon!Item("work", w)}) <= executed[w]
      <4>1. executed[w] \in 0..1
        BY <3>1
      <4>2. PICK K : K = {k \in 1..Len(completed) : completed[k] = Addon!Item("work", w)}
        OBVIOUS
      <4>3. CASE K = {}
        <5>1. Cardinality(K) = 0
            BY <4>3, FS_EmptySet
        <5> QED
            BY <4>1, <4>2, <5>1
      <4>4. CASE K # {}
        <5>1. PICK k \in 1..Len(completed) : completed[k] = W(w)
            BY <4>2, <4>4 DEF W
        <5>2. K = {k}
            BY <3>2, <4>2, <5>1 DEF W
        <5>3. W(w) \in Range(completed)
            BY <3>1, <5>1 DEF Range
        <5>4. executed[w] = 1
            BY <1>3, <5>3 DEF AddonInv, PlaceInv, Works1
        <5>5. Cardinality(K) = 1
            BY <5>2, FS_Singleton
        <5> QED
            BY <4>2, <5>4, <5>5
      <4> QED
        BY <4>3, <4>4
    <3> QED
        BY <3>2, <3>3, SameCounts DEF Addon!CompletedOnce
  <2>5. Addon!ElementsKept
    BY <1>3 DEF AddonInv, ArrayInv, Addon!ElementsKept, Addon!GetElement
  <2> QED
    BY <2>2, <2>3, <2>4, <2>5 DEF AddonSound
<1> QED
    BY <1>1, <1>2, <1>3, PTL DEF Addon!Spec
=============================================================================
