-------------------------- MODULE ThreadPoolProofs --------------------------
(***************************************************************************)
(* Proofs about ThreadPool.tla for any number of pool threads, JS threads  *)
(* and items, and any capacity of the wakeup pipe.                         *)
(***************************************************************************)
EXTENDS ThreadPool, QueueFacts, FiniteSetTheorems

\* The program counters agree with the slots they guard.
PcInv ==
    /\ \A w \in Workers : wpc[w] = "work" <=> activeItem[w] # NULL
    /\ \A l \in Loops : lpc[l] = "after" <=> after[l] # NULL

\* The stage of an item says where it is.
PlaceInv ==
    /\ \A i \in Items : stage[i] = "queued" <=> i \in Range(workQueue)
    /\ \A i \in Items : stage[i] = "done" <=> i \in Range(doneQueue)
    /\ \A i \in Items : stage[i] = "active" <=> \E w \in Workers : activeItem[w] = i
    /\ \A i \in Items : stage[i] = "counted" <=> \E l \in Loops : submitting[l] = i
    /\ \A i \in Items : stage[i] = "after" <=> \E l \in Loops : after[l] = i

\* No item is in one place twice.
OnceInv ==
    /\ IsInjective(workQueue)
    /\ IsInjective(doneQueue)
    /\ \A v, w \in Workers :
          (activeItem[v] = activeItem[w] /\ activeItem[v] # NULL) => v = w
    /\ \A k, l \in Loops :
          (submitting[k] = submitting[l] /\ submitting[k] # NULL) => k = l
    /\ \A k, l \in Loops : (after[k] = after[l] /\ after[k] # NULL) => k = l

Counted == {i \in Items : stage[i] \notin {"new", "finished"}}

CountInv == pending = Cardinality(Counted)

IInv == TypeOK /\ PcInv /\ PlaceInv /\ OnceInv /\ CountInv

-----------------------------------------------------------------------------
\* tp_init establishes the inductive invariant.
LEMMA InitIInv == Init => IInv
<1>1. SUFFICES ASSUME Init PROVE IInv
  OBVIOUS
<1>2. <<>> \in Seq(Items) /\ Range(<<>>) = {} /\ IsInjective(<<>>)
  BY EmptyQueue
<1>3. TypeOK
  BY <1>1, <1>2, PoolAssumption DEF Init, TypeOK, Stages
<1>4. PcInv
  BY <1>1 DEF Init, PcInv
<1>5. PlaceInv
  BY <1>1, <1>2, PoolAssumption DEF Init, PlaceInv
<1>6. OnceInv
  BY <1>1, <1>2 DEF Init, OnceInv
<1>7. CountInv
  <2>1. Counted = {}
    BY <1>1 DEF Init, Counted
  <2>2. QED
    BY <1>1, <2>1, FS_EmptySet DEF Init, CountInv
<1>8. QED
  BY <1>3, <1>4, <1>5, <1>6, <1>7 DEF IInv

\* Counting: the set of counted items is finite; it grows by one with the
\* first section of tp_submit, shrinks by one when after() returns, and is
\* not changed by the steps in between.
LEMMA CountedGrows ==
    ASSUME IInv, NEW i \in Items, stage[i] = "new",
           stage' = [stage EXCEPT ![i] = "counted"], pending' = pending + 1
    PROVE  CountInv'
<1>1. Counted' = Counted \cup {i} /\ i \notin Counted
  BY DEF Counted, IInv, TypeOK
<1>2. IsFiniteSet(Counted)
  BY PoolAssumption, FS_Subset DEF Counted
<1>3. Cardinality(Counted \cup {i}) = Cardinality(Counted) + 1
  BY <1>1, <1>2, FS_AddElement
<1>4. QED
  BY <1>1, <1>3 DEF CountInv, IInv

\* An item that leaves the counted places makes them one fewer.
LEMMA CountedShrinks ==
    ASSUME IInv, NEW i \in Items, stage[i] = "after",
           stage' = [stage EXCEPT ![i] = "finished"], pending' = pending - 1
    PROVE  CountInv'
<1>1. Counted' = Counted \ {i} /\ i \in Counted
  BY DEF Counted, IInv, TypeOK
<1>2. IsFiniteSet(Counted)
  BY PoolAssumption, FS_Subset DEF Counted
<1>3. Cardinality(Counted \ {i}) = Cardinality(Counted) - 1
  BY <1>1, <1>2, FS_RemoveElement
<1>4. QED
  BY <1>1, <1>3 DEF CountInv, IInv

\* A step that moves items between counted places keeps their number.
LEMMA CountedKept ==
    ASSUME IInv, NEW i \in Items, NEW s \in Stages \ {"new", "finished"},
           stage[i] \notin {"new", "finished"},
           stage' = [stage EXCEPT ![i] = s], pending' = pending
    PROVE  CountInv'
<1>1. Counted' = Counted
  BY DEF Counted, IInv, TypeOK, Stages
<1>2. QED
  BY <1>1 DEF CountInv, IInv

-----------------------------------------------------------------------------
(* Steps that move an item *)

\* A worker that takes an item keeps the invariant: the item moves from the
\* work queue to the active table.
LEMMA WorkerDequeueStep ==
    ASSUME IInv, NEW w \in Workers, WorkerDequeue(w) PROVE IInv'
<1> DEFINE h == Head(workQueue)
<1>1. /\ h \in Items
      /\ h \in Range(workQueue)
      /\ Tail(workQueue) \in Seq(Items)
      /\ Range(Tail(workQueue)) = Range(workQueue) \ {h}
      /\ IsInjective(Tail(workQueue))
  BY Dequeue DEF IInv, TypeOK, OnceInv, WorkerDequeue
<1>2. stage[h] = "queued"
  BY <1>1 DEF IInv, PlaceInv
<1>3. TypeOK'
  BY <1>1 DEF IInv, TypeOK, WorkerDequeue, Stages, loopVars, gcVars
<1>4. PcInv'
  BY <1>1, PoolAssumption DEF IInv, TypeOK, PcInv, WorkerDequeue, loopVars
<1>5. activeItem[w] = NULL
  BY DEF IInv, PcInv, WorkerDequeue
<1>6. \A v \in Workers : activeItem'[v] = (IF v = w THEN h ELSE activeItem[v])
  BY DEF IInv, TypeOK, WorkerDequeue
<1>7. \A i \in Items : stage'[i] = (IF i = h THEN "active" ELSE stage[i])
  BY <1>1 DEF IInv, TypeOK, WorkerDequeue
<1>8. PlaceInv'
  BY <1>1, <1>2, <1>5, <1>6, <1>7, PoolAssumption
     DEF IInv, PlaceInv, WorkerDequeue, loopVars
<1>9. OnceInv'
  BY <1>1, <1>2, <1>6 DEF IInv, OnceInv, PlaceInv, WorkerDequeue, loopVars
<1>10. CountInv'
  BY <1>1, <1>2, CountedKept DEF WorkerDequeue, Stages
<1>11. QED
  BY <1>3, <1>4, <1>8, <1>9, <1>10 DEF IInv

\* A worker that pushes a completion keeps the invariant: the item moves from
\* the active table to the done queue.
LEMMA WorkerPushStep ==
    ASSUME IInv, NEW w \in Workers, WorkerPush(w) PROVE IInv'
<1> DEFINE a == activeItem[w]
<1>1. a \in Items
  BY DEF IInv, TypeOK, PcInv, WorkerPush
<1>2. stage[a] = "active" /\ a \notin Range(doneQueue)
  BY <1>1 DEF IInv, PlaceInv
<1>3. /\ Append(doneQueue, a) \in Seq(Items)
      /\ Range(Append(doneQueue, a)) = Range(doneQueue) \cup {a}
      /\ IsInjective(Append(doneQueue, a))
  BY <1>1, <1>2, Enqueue DEF IInv, TypeOK, OnceInv
<1>4. TypeOK'
  BY <1>1, <1>3 DEF IInv, TypeOK, WorkerPush, Stages, loopVars, gcVars
<1>5. PcInv'
  BY DEF IInv, TypeOK, PcInv, WorkerPush, loopVars
<1>6. \A v \in Workers : activeItem'[v] = (IF v = w THEN NULL ELSE activeItem[v])
  BY DEF IInv, TypeOK, WorkerPush
<1>7. \A i \in Items : stage'[i] = (IF i = a THEN "done" ELSE stage[i])
  BY <1>1 DEF IInv, TypeOK, WorkerPush
<1>8. \A v \in Workers : v # w => activeItem[v] # a
  BY <1>1, PoolAssumption DEF IInv, OnceInv
<1>9. PlaceInv'
  BY <1>1, <1>2, <1>3, <1>6, <1>7, <1>8, PoolAssumption
     DEF IInv, PlaceInv, WorkerPush, loopVars
<1>10. OnceInv'
  BY <1>3, <1>6 DEF IInv, OnceInv, WorkerPush, loopVars
<1>11. CountInv'
  BY <1>1, <1>2, CountedKept DEF WorkerPush, Stages
<1>12. QED
  BY <1>4, <1>5, <1>9, <1>10, <1>11 DEF IInv

\* The first half of tp_submit keeps the invariant: a new item is counted.
LEMMA SubmitCountStep ==
    ASSUME IInv, NEW l \in Loops, NEW i \in Items, SubmitCount(l, i) PROVE IInv'
<1>1. TypeOK'
  BY DEF IInv, TypeOK, SubmitCount, Stages, poolVars, gcVars
<1>2. PcInv'
  BY DEF IInv, PcInv, SubmitCount, poolVars
<1>3. \A k \in Loops : submitting'[k] = (IF k = l THEN i ELSE submitting[k])
  BY DEF IInv, TypeOK, SubmitCount
<1>4. \A j \in Items : stage'[j] = (IF j = i THEN "counted" ELSE stage[j])
  BY DEF IInv, TypeOK, SubmitCount
<1>5. submitting[l] = NULL /\ stage[i] = "new"
  BY DEF SubmitCount, InJS
<1>6. PlaceInv'
  BY <1>3, <1>4, <1>5, PoolAssumption DEF IInv, PlaceInv, SubmitCount, poolVars
<1>7. OnceInv'
  BY <1>3, <1>5 DEF IInv, OnceInv, PlaceInv, SubmitCount, poolVars
<1>8. CountInv'
  BY <1>5, CountedGrows DEF SubmitCount
<1>9. QED
  BY <1>1, <1>2, <1>6, <1>7, <1>8 DEF IInv

\* The second half of tp_submit keeps the invariant: the item is queued and at
\* most one worker is woken.
LEMMA SubmitEnqueueStep ==
    ASSUME IInv, NEW l \in Loops, SubmitEnqueue(l) PROVE IInv'
<1> DEFINE s == submitting[l]
<1>1. s \in Items
  BY DEF IInv, TypeOK, SubmitEnqueue
<1>2. stage[s] = "counted" /\ s \notin Range(workQueue)
  BY <1>1 DEF IInv, PlaceInv
<1>3. /\ Append(workQueue, s) \in Seq(Items)
      /\ Range(Append(workQueue, s)) = Range(workQueue) \cup {s}
      /\ IsInjective(Append(workQueue, s))
  BY <1>1, <1>2, Enqueue DEF IInv, TypeOK, OnceInv
<1>4. /\ wpc' \in [Workers -> {"lock", "waiting", "work", "wake", "exited"}]
      /\ \A w \in Workers : wpc'[w] = "work" <=> wpc[w] = "work"
  <2>1. CASE {w \in Workers : wpc[w] = "waiting"} = {}
    BY <2>1 DEF IInv, TypeOK, SubmitEnqueue, CondSignal
  <2>2. CASE {w \in Workers : wpc[w] = "waiting"} # {}
    <3>1. PICK v \in Workers : wpc[v] = "waiting" /\ wpc' = [wpc EXCEPT ![v] = "lock"]
      BY <2>2 DEF SubmitEnqueue, CondSignal
    <3>2. QED
      BY <3>1 DEF IInv, TypeOK
  <2>3. QED
    BY <2>1, <2>2
<1>5. TypeOK'
  BY <1>1, <1>3, <1>4 DEF IInv, TypeOK, SubmitEnqueue, Stages, gcVars
<1>6. PcInv'
  BY <1>4 DEF IInv, PcInv, SubmitEnqueue
<1>7. \A k \in Loops : submitting'[k] = (IF k = l THEN NULL ELSE submitting[k])
  BY DEF IInv, TypeOK, SubmitEnqueue
<1>8. \A i \in Items : stage'[i] = (IF i = s THEN "queued" ELSE stage[i])
  BY <1>1 DEF IInv, TypeOK, SubmitEnqueue
<1>9. \A k \in Loops : k # l => submitting[k] # s
  BY <1>1, PoolAssumption DEF IInv, OnceInv
<1>10. PlaceInv'
  BY <1>1, <1>2, <1>3, <1>7, <1>8, <1>9, PoolAssumption
     DEF IInv, PlaceInv, SubmitEnqueue
<1>11. OnceInv'
  BY <1>3, <1>7 DEF IInv, OnceInv, SubmitEnqueue
<1>12. CountInv'
  BY <1>1, <1>2, CountedKept DEF SubmitEnqueue, Stages
<1>13. QED
  BY <1>5, <1>6, <1>10, <1>11, <1>12 DEF IInv

\* tp_drain_completions taking an item for after() keeps the invariant.
LEMMA DrainPopStep ==
    ASSUME IInv, NEW l \in Loops, DrainPop(l)
    PROVE  IInv' /\ Head(doneQueue) \in Items /\ stage[Head(doneQueue)] = "done"
<1> DEFINE h == Head(doneQueue)
<1>1. /\ h \in Items
      /\ h \in Range(doneQueue)
      /\ Tail(doneQueue) \in Seq(Items)
      /\ Range(Tail(doneQueue)) = Range(doneQueue) \ {h}
      /\ IsInjective(Tail(doneQueue))
  BY Dequeue DEF IInv, TypeOK, OnceInv, DrainPop
<1>2. stage[h] = "done"
  BY <1>1 DEF IInv, PlaceInv
<1>3. TypeOK'
  BY <1>1 DEF IInv, TypeOK, DrainPop, Stages, poolVars, gcVars
<1>4. PcInv'
  BY <1>1, PoolAssumption DEF IInv, TypeOK, PcInv, DrainPop, poolVars
<1>5. after[l] = NULL
  BY DEF IInv, PcInv, DrainPop
<1>6. \A k \in Loops : after'[k] = (IF k = l THEN h ELSE after[k])
  BY DEF IInv, TypeOK, DrainPop
<1>7. \A i \in Items : stage'[i] = (IF i = h THEN "after" ELSE stage[i])
  BY <1>1 DEF IInv, TypeOK, DrainPop
<1>8. PlaceInv'
  BY <1>1, <1>2, <1>5, <1>6, <1>7, PoolAssumption
     DEF IInv, PlaceInv, DrainPop, poolVars
<1>9. OnceInv'
  BY <1>1, <1>2, <1>6 DEF IInv, OnceInv, PlaceInv, DrainPop, poolVars
<1>10. CountInv'
  BY <1>1, <1>2, CountedKept DEF DrainPop, Stages
<1>11. QED
  BY <1>1, <1>2, <1>3, <1>4, <1>8, <1>9, <1>10 DEF IInv

\* The return of after() keeps the invariant: the item is no longer counted.
LEMMA AfterReturnStep ==
    ASSUME IInv, NEW l \in Loops, AfterReturn(l)
    PROVE  IInv' /\ after[l] \in Items /\ stage[after[l]] = "after"
<1> DEFINE a == after[l]
<1>1. a \in Items
  BY DEF IInv, TypeOK, PcInv, AfterReturn
<1>2. stage[a] = "after"
  BY <1>1 DEF IInv, PlaceInv
<1>3. TypeOK'
  BY <1>1 DEF IInv, TypeOK, AfterReturn, Stages, poolVars, gcVars
<1>4. PcInv'
  BY DEF IInv, TypeOK, PcInv, AfterReturn, poolVars
<1>5. \A k \in Loops : after'[k] = (IF k = l THEN NULL ELSE after[k])
  BY DEF IInv, TypeOK, AfterReturn
<1>6. \A i \in Items : stage'[i] = (IF i = a THEN "finished" ELSE stage[i])
  BY <1>1 DEF IInv, TypeOK, AfterReturn
<1>7. \A k \in Loops : k # l => after[k] # a
  BY <1>1, PoolAssumption DEF IInv, OnceInv
<1>8. PlaceInv'
  BY <1>1, <1>2, <1>5, <1>6, <1>7, PoolAssumption
     DEF IInv, PlaceInv, AfterReturn, poolVars
<1>9. OnceInv'
  BY <1>5 DEF IInv, OnceInv, AfterReturn, poolVars
<1>10. CountInv'
  BY <1>1, <1>2, CountedShrinks DEF AfterReturn
<1>11. QED
  BY <1>1, <1>2, <1>3, <1>4, <1>8, <1>9, <1>10 DEF IInv

-----------------------------------------------------------------------------
(* Steps that move no item *)

places == <<workQueue, doneQueue, activeItem, submitting, after, stage, pending>>

\* A step that moves no item and keeps the rest typed keeps the invariant.
LEMMA StillStep ==
    ASSUME IInv, TypeOK', PcInv', UNCHANGED places PROVE IInv'
<1>1. PlaceInv' /\ OnceInv'
  BY DEF IInv, PlaceInv, OnceInv, places
<1>2. CountInv'
  BY DEF IInv, CountInv, Counted, places
<1>3. QED
  BY <1>1, <1>2 DEF IInv

\* The worker steps that move no item (wait, wake up, exit, write the wakeup
\* byte) keep the invariant.
LEMMA WorkerStillStep ==
    ASSUME IInv, NEW w \in Workers,
           WorkerWait(w) \/ SpuriousWakeup(w) \/ WorkerExit(w) \/ WorkerWake(w)
    PROVE  IInv' /\ UNCHANGED places
<1>1. UNCHANGED places
  BY DEF places, WorkerWait, SpuriousWakeup, WorkerExit, WorkerWake, loopVars
<1>2. TypeOK'
  BY PoolAssumption
     DEF IInv, TypeOK, WorkerWait, SpuriousWakeup, WorkerExit, WorkerWake,
         loopVars, gcVars
<1>3. PcInv'
  BY DEF IInv, TypeOK, PcInv, WorkerWait, SpuriousWakeup, WorkerExit, WorkerWake,
         loopVars
<1>4. QED
  BY <1>1, <1>2, <1>3, StillStep

\* The steps of el_run around the drain keep the invariant.
LEMMA TickStep ==
    ASSUME IInv, NEW l \in Loops,
           TickDrain(l) \/ TickExit(l) \/ TickStop(l) \/ DrainPipe(l) \/ DrainEnd(l)
    PROVE  IInv' /\ UNCHANGED places
<1>1. UNCHANGED places
  BY DEF places, TickDrain, TickExit, TickStop, DrainPipe, DrainEnd, poolVars
<1>2. TypeOK'
  BY PoolAssumption
     DEF IInv, TypeOK, TickDrain, TickExit, TickStop, DrainPipe, DrainEnd,
         poolVars, gcVars
<1>3. PcInv'
  BY DEF IInv, TypeOK, PcInv, TickDrain, TickExit, TickStop, DrainPipe, DrainEnd,
         poolVars
<1>4. QED
  BY <1>1, <1>2, <1>3, StillStep

\* The steps of tp_mark_gc_roots keep the invariant.
LEMMA GcStep ==
    ASSUME IInv, NEW l \in Loops,
           GcMarkWork(l) \/ GcMarkDone(l) \/ GcMarkActive(l) \/ GcEnd(l)
    PROVE  IInv' /\ UNCHANGED places
<1>1. UNCHANGED places /\ UNCHANGED <<wpc, lpc, poolActive, pipe, owner>>
  BY DEF places, GcMarkWork, GcMarkDone, GcMarkActive, GcEnd, poolVars, loopVars
<1>2. Range(workQueue) \subseteq Items /\ Range(doneQueue) \subseteq Items
  BY RangeOfSeq DEF IInv, TypeOK
<1>3. {activeItem[w] : w \in {v \in Workers : activeItem[v] # NULL}} \subseteq Items
  BY DEF IInv, TypeOK
<1>4. marked' \in [Loops -> SUBSET Items]
  BY <1>2, <1>3 DEF IInv, TypeOK, GcMarkWork, GcMarkDone, GcMarkActive, GcEnd
<1>5. marking' \in [Loops -> {"idle", "work", "done", "all"}]
  BY DEF IInv, TypeOK, GcMarkWork, GcMarkDone, GcMarkActive, GcEnd
<1>6. TypeOK'
  BY <1>1, <1>4, <1>5 DEF IInv, TypeOK, places
<1>7. PcInv'
  BY <1>1 DEF IInv, PcInv, places
<1>8. QED
  BY <1>1, <1>6, <1>7, StillStep

\* The steps of tp_free keep the invariant.
LEMMA FreeStep ==
    ASSUME IInv, FreeBroadcast \/ FreeJoin PROVE IInv' /\ UNCHANGED places
<1>1. UNCHANGED places
  BY DEF places, FreeBroadcast, FreeJoin, poolVars
<1>2. TypeOK'
  <2>1. poolActive' \in BOOLEAN
    BY DEF IInv, TypeOK, FreeBroadcast, FreeJoin, poolVars
  <2>2. pipe' \in 0..PipeCap
    BY PoolAssumption DEF IInv, TypeOK, FreeBroadcast, FreeJoin, poolVars
  <2>3. /\ wpc' \in [Workers -> {"lock", "waiting", "work", "wake", "exited"}]
        /\ lpc' \in [Loops -> {"js", "drain", "pop", "after", "join", "exited"}]
    BY DEF IInv, TypeOK, FreeBroadcast, FreeJoin, poolVars
  <2>4. UNCHANGED <<gcVars, owner>>
    BY DEF FreeBroadcast, FreeJoin
  <2>5. QED
    BY <1>1, <2>1, <2>2, <2>3, <2>4 DEF IInv, TypeOK, places, gcVars
<1>3. PcInv'
  BY PoolAssumption DEF IInv, TypeOK, PcInv, FreeBroadcast, FreeJoin, poolVars
<1>4. QED
  BY <1>1, <1>2, <1>3, StillStep

\* A stuttering step keeps the invariant.
LEMMA StutterStep == ASSUME IInv, UNCHANGED vars PROVE IInv' /\ UNCHANGED places
<1>1. UNCHANGED places
  BY DEF vars, places
<1>2. TypeOK' /\ PcInv'
  BY DEF vars, IInv, TypeOK, PcInv
<1>3. QED
  BY <1>1, <1>2, StillStep

\* The invariant is inductive: one case per action of ThreadPool.
LEMMA NextIInv == IInv /\ [Next]_vars => IInv'
<1>1. SUFFICES ASSUME IInv, [Next]_vars PROVE IInv'
  OBVIOUS
<1>2. ASSUME NEW w \in Workers, WorkerNext(w) PROVE IInv'
  BY <1>1, <1>2, WorkerStillStep, WorkerDequeueStep, WorkerPushStep DEF WorkerNext
<1>3. ASSUME NEW l \in Loops, LoopNext(l) PROVE IInv'
  BY <1>1, <1>3, SubmitCountStep, SubmitEnqueueStep, TickStep, DrainPopStep,
     AfterReturnStep, GcStep DEF LoopNext
<1>4. QED
  BY <1>1, <1>2, <1>3, FreeStep, StutterStep DEF Next

\* The inductive invariant of the pool holds in every reachable state.
THEOREM Invariance == Spec => []IInv
<1>1. Init => IInv
  BY InitIInv
<1>2. IInv /\ [Next]_vars => IInv'
  BY NextIInv
<1>3. QED
  BY <1>1, <1>2, PTL DEF Spec

\* The wakeup pipe never holds more than its capacity, and an item is in one
\* queue or slot of thread_pool.c at a time: its stage says in which.
THEOREM ItemsStayApart == Spec => []ItemsInOnePlace
<1>1. IInv => ItemsInOnePlace
  <2>1. SUFFICES ASSUME IInv PROVE ItemsInOnePlace
    OBVIOUS
  <2>2. Range(workQueue) \subseteq Items /\ Range(doneQueue) \subseteq Items
    BY <2>1, RangeOfSeq DEF IInv, TypeOK
  <2>3. ASSUME NEW i \in Range(workQueue) PROVE i \in Items /\ stage[i] = "queued"
    BY <2>1, <2>2, <2>3 DEF IInv, PlaceInv
  <2>4. ASSUME NEW i \in Range(doneQueue) PROVE i \in Items /\ stage[i] = "done"
    BY <2>1, <2>2, <2>4 DEF IInv, PlaceInv
  <2>5. ASSUME NEW i \in {activeItem[w] : w \in Workers} \ {NULL}
        PROVE  i \in Items /\ stage[i] = "active"
    BY <2>1, <2>5 DEF IInv, PlaceInv, TypeOK
  <2>6. ASSUME NEW i \in {submitting[l] : l \in Loops} \ {NULL}
        PROVE  i \in Items /\ stage[i] = "counted"
    BY <2>1, <2>6 DEF IInv, PlaceInv, TypeOK
  <2>7. ASSUME NEW i \in {after[l] : l \in Loops} \ {NULL}
        PROVE  i \in Items /\ stage[i] = "after"
    BY <2>1, <2>7 DEF IInv, PlaceInv, TypeOK
  <2>8. TypeOK /\ OnceInv
    BY <2>1 DEF IInv
  <2>9. QED
    BY <2>3, <2>4, <2>5, <2>6, <2>7, <2>8 DEF ItemsInOnePlace, OnceInv
<1>2. QED
  BY <1>1, Invariance, PTL

\* The places the invariant counts are exactly the items in flight.
LEMMA CountedIsInFlight == IInv => InFlight \ {NULL} = Counted
<1>1. SUFFICES ASSUME IInv PROVE InFlight \ {NULL} = Counted
  OBVIOUS
<1>2. Range(workQueue) \subseteq Items /\ Range(doneQueue) \subseteq Items
  BY <1>1, RangeOfSeq DEF IInv, TypeOK
<1>3. ASSUME NEW i \in InFlight, i # NULL PROVE i \in Counted
  <2>1. i \in Items
    BY <1>1, <1>2, <1>3 DEF InFlight, IInv, TypeOK
  <2>2. stage[i] \in {"counted", "queued", "active", "done", "after"}
    BY <1>1, <1>3, <2>1 DEF InFlight, IInv, PlaceInv
  <2>3. QED
    BY <2>1, <2>2 DEF Counted
<1>4. ASSUME NEW i \in Counted PROVE i \in InFlight /\ i # NULL
  <2>1. i \in Items /\ stage[i] \in {"counted", "queued", "active", "done", "after"}
    BY <1>1 DEF Counted, IInv, TypeOK, Stages
  <2>2. QED
    BY <1>1, <2>1, PoolAssumption DEF InFlight, IInv, PlaceInv
<1>5. QED
  BY <1>3, <1>4

\* tp_pending_count() is exact: el_run's test neither ends the loop while an
\* item is in flight nor keeps it alive for none.
THEOREM PendingExact == Spec => []PendingCountsInFlight
<1>1. IInv => PendingCountsInFlight
  BY CountedIsInFlight DEF PendingCountsInFlight, IInv, CountInv
<1>2. QED
  BY <1>1, Invariance, PTL

-----------------------------------------------------------------------------
(* The pool implements AsyncOps *)

\* The initial states of the pool are initial states of AsyncOps.
LEMMA MapInit == Init => Ops!Init
  BY DEF Init, Ops!Init, opState

\* A step that moves no item is a stuttering step of AsyncOps.
LEMMA MapStill == ASSUME UNCHANGED places PROVE UNCHANGED Ops!vars
  BY DEF places, Ops!vars, opState

\* A worker taking an item or pushing a completion is a stuttering step of
\* AsyncOps: the item stays in flight.
LEMMA MapInternal ==
    ASSUME IInv, NEW i \in Items, NEW s \in {"queued", "active", "done"},
           stage[i] \in {"counted", "queued", "active", "done"},
           stage' = [stage EXCEPT ![i] = s], UNCHANGED <<after, pending>>
    PROVE  UNCHANGED Ops!vars
<1>1. \A j \in Items : opState'[j] = opState[j]
  BY DEF opState, IInv, TypeOK
<1>2. opState' = opState
  BY <1>1 DEF opState
<1>3. QED
  BY <1>2 DEF Ops!vars

\* Counting a new item is the Submit step of AsyncOps.
LEMMA MapSubmit ==
    ASSUME IInv, NEW l \in Loops, NEW i \in Items, SubmitCount(l, i)
    PROVE  Ops!Submit(i)
<1>1. stage[i] = "new" /\ stage' = [stage EXCEPT ![i] = "counted"]
  BY DEF SubmitCount
<1>2. opState[i] = "idle"
  BY <1>1 DEF opState
<1>3. opState' = [opState EXCEPT ![i] = "pending"]
  BY <1>1 DEF opState, IInv, TypeOK
<1>4. QED
  BY <1>2, <1>3 DEF Ops!Submit, SubmitCount

\* Popping a completion is the CallAfter step of AsyncOps.
LEMMA MapCallAfter ==
    ASSUME IInv, NEW l \in Loops, DrainPop(l)
    PROVE  Ops!CallAfter(l, Head(doneQueue))
<1> DEFINE h == Head(doneQueue)
<1>1. h \in Items /\ stage[h] = "done"
  BY DrainPopStep
<1>2. opState[h] = "pending"
  BY <1>1 DEF opState
<1>3. opState' = [opState EXCEPT ![h] = "calling"]
  BY <1>1 DEF opState, IInv, TypeOK, DrainPop
<1>4. after[l] = NULL
  BY DEF IInv, PcInv, DrainPop
<1>5. QED
  BY <1>2, <1>3, <1>4 DEF Ops!CallAfter, DrainPop

\* The return of after() is the Settle step of AsyncOps.
LEMMA MapSettle ==
    ASSUME IInv, NEW l \in Loops, AfterReturn(l)
    PROVE  Ops!Settle(l)
<1>1. after[l] \in Items /\ stage[after[l]] = "after"
  BY AfterReturnStep
<1>2. opState' = [opState EXCEPT ![after[l]] = "settled"]
  BY <1>1 DEF opState, IInv, TypeOK, AfterReturn
<1>3. QED
  BY <1>1, <1>2, PoolAssumption DEF Ops!Settle, AfterReturn

\* Every step of the pool is a step of AsyncOps or a stuttering step.
LEMMA MapNext == IInv /\ [Next]_vars => [Ops!Next]_(Ops!vars)
<1>1. SUFFICES ASSUME IInv, [Next]_vars PROVE [Ops!Next]_(Ops!vars)
  OBVIOUS
<1>2. ASSUME NEW w \in Workers, WorkerNext(w) PROVE UNCHANGED Ops!vars
  <2>1. CASE WorkerDequeue(w)
    <3>1. Head(workQueue) \in Items /\ Head(workQueue) \in Range(workQueue)
      BY <1>1, <2>1, Dequeue DEF IInv, TypeOK, OnceInv, WorkerDequeue
    <3>2. stage[Head(workQueue)] = "queued"
      BY <1>1, <3>1 DEF IInv, PlaceInv
    <3>3. QED
      BY <1>1, <2>1, <3>1, <3>2, MapInternal DEF WorkerDequeue, loopVars
  <2>2. CASE WorkerPush(w)
    <3>1. activeItem[w] \in Items
      BY <1>1, <2>2 DEF IInv, TypeOK, PcInv, WorkerPush
    <3>2. stage[activeItem[w]] = "active"
      BY <1>1, <3>1 DEF IInv, PlaceInv
    <3>3. QED
      BY <1>1, <2>2, <3>1, <3>2, MapInternal DEF WorkerPush, loopVars
  <2>3. QED
    BY <1>1, <1>2, <2>1, <2>2, WorkerStillStep, MapStill DEF WorkerNext
<1>3. ASSUME NEW l \in Loops, LoopNext(l) PROVE [Ops!Next]_(Ops!vars)
  <2>1. ASSUME NEW i \in Items, SubmitCount(l, i) PROVE Ops!Next
    BY <1>1, <2>1, MapSubmit DEF Ops!Next
  <2>2. CASE SubmitEnqueue(l)
    <3>1. submitting[l] \in Items
      BY <1>1, <2>2 DEF IInv, TypeOK, SubmitEnqueue
    <3>2. stage[submitting[l]] = "counted"
      BY <1>1, <3>1 DEF IInv, PlaceInv
    <3>3. QED
      BY <1>1, <2>2, <3>1, <3>2, MapInternal DEF SubmitEnqueue
  <2>3. CASE DrainPop(l)
    <3>1. Head(doneQueue) \in Items
      BY <1>1, <2>3, DrainPopStep
    <3>2. QED
      BY <1>1, <2>3, <3>1, MapCallAfter DEF Ops!Next
  <2>4. CASE AfterReturn(l)
    BY <1>1, <2>4, MapSettle DEF Ops!Next
  <2>5. CASE TickDrain(l) \/ TickExit(l) \/ TickStop(l) \/ DrainPipe(l) \/ DrainEnd(l)
    BY <1>1, <2>5, TickStep, MapStill
  <2>6. CASE GcMarkWork(l) \/ GcMarkDone(l) \/ GcMarkActive(l) \/ GcEnd(l)
    BY <1>1, <2>6, GcStep, MapStill
  <2>7. QED
    BY <1>3, <2>1, <2>2, <2>3, <2>4, <2>5, <2>6 DEF LoopNext
<1>4. QED
  BY <1>1, <1>2, <1>3, FreeStep, StutterStep, MapStill DEF Next

\* The pool implements AsyncOps: whatever the interleaving of submitters,
\* pool threads and drainers, each item's after() runs at most once, on a
\* thread that runs no other after(), and the count of items in flight moves
\* with the submissions and the returns of after() only.
THEOREM Implementation == Spec => ImplementsAsyncOps
<1>1. Init => Ops!Init
  BY MapInit
<1>2. IInv /\ [Next]_vars => [Ops!Next]_(Ops!vars)
  BY MapNext
<1>3. QED
  BY <1>1, <1>2, Invariance, PTL DEF Spec, ImplementsAsyncOps, Ops!Spec

-----------------------------------------------------------------------------
(* Wakeups *)

\* main waits in tp_free only after it has cleared pool_active.
JoinInv == lpc[MainLoop] = "join" => ~poolActive

WakeInv == JoinInv /\ NoStrandedCompletion

\* No step leaves a completion stranded: the conjunct on the wakeup pipe is
\* inductive together with the invariant.
LEMMA NextWakeInv == IInv /\ WakeInv /\ [Next]_vars => WakeInv'
<1>1. SUFFICES ASSUME IInv, WakeInv, [Next]_vars PROVE WakeInv'
  OBVIOUS
<1> USE <1>1, PoolAssumption DEF IInv, TypeOK, WakeInv, JoinInv, NoStrandedCompletion
<1>2. ASSUME NEW w \in Workers, WorkerNext(w) PROVE WakeInv'
  <2>1. CASE WorkerWait(w)
    BY <2>1 DEF WorkerWait, loopVars
  <2>2. CASE SpuriousWakeup(w)
    BY <2>2 DEF SpuriousWakeup, loopVars
  <2>3. CASE WorkerExit(w)
    BY <2>3 DEF WorkerExit, loopVars
  <2>4. CASE WorkerDequeue(w)
    BY <2>4 DEF WorkerDequeue, loopVars
  <2>5. CASE WorkerPush(w)
    BY <2>5 DEF WorkerPush, loopVars
  <2>6. CASE WorkerWake(w)
    BY <2>6 DEF WorkerWake, loopVars
  <2>7. QED
    BY <1>2, <2>1, <2>2, <2>3, <2>4, <2>5, <2>6 DEF WorkerNext
<1>3. ASSUME NEW l \in Loops, LoopNext(l) PROVE WakeInv'
  <2>1. ASSUME NEW i \in Items, SubmitCount(l, i) PROVE WakeInv'
    BY <2>1 DEF SubmitCount, poolVars
  <2>2. CASE SubmitEnqueue(l)
    <3>1. \A w \in Workers : wpc[w] = "wake" => wpc'[w] = "wake"
      <4>1. CASE {w \in Workers : wpc[w] = "waiting"} = {}
        BY <2>2, <4>1 DEF SubmitEnqueue, CondSignal
      <4>2. CASE {w \in Workers : wpc[w] = "waiting"} # {}
        <5>1. PICK v \in Workers :
                wpc[v] = "waiting" /\ wpc' = [wpc EXCEPT ![v] = "lock"]
          BY <2>2, <4>2 DEF SubmitEnqueue, CondSignal
        <5>2. QED
          BY <5>1
      <4>3. QED
        BY <4>1, <4>2
    <3>2. QED
      BY <2>2, <3>1 DEF SubmitEnqueue
  <2>3. CASE TickDrain(l)
    BY <2>3 DEF TickDrain, poolVars
  <2>4. CASE TickExit(l)
    BY <2>4 DEF TickExit, poolVars
  <2>5. CASE TickStop(l)
    BY <2>5 DEF TickStop, poolVars
  <2>6. CASE DrainPipe(l)
    BY <2>6 DEF DrainPipe, poolVars
  <2>7. CASE DrainPop(l)
    BY <2>7 DEF DrainPop, poolVars
  <2>8. CASE AfterReturn(l)
    BY <2>8 DEF AfterReturn, poolVars
  <2>9. CASE DrainEnd(l)
    BY <2>9 DEF DrainEnd, poolVars
  <2>10. CASE GcMarkWork(l) \/ GcMarkDone(l) \/ GcMarkActive(l) \/ GcEnd(l)
    <3>1. UNCHANGED <<wpc, poolActive, doneQueue, pipe, lpc>>
      BY <2>10 DEF GcMarkWork, GcMarkDone, GcMarkActive, GcEnd, poolVars, loopVars
    <3>2. QED
      BY <3>1
  <2>11. QED
    BY <1>3, <2>1, <2>2, <2>3, <2>4, <2>5, <2>6, <2>7, <2>8, <2>9, <2>10
       DEF LoopNext
<1>4. CASE FreeBroadcast
  BY <1>4 DEF FreeBroadcast
<1>5. CASE FreeJoin
  BY <1>5 DEF FreeJoin, poolVars
<1>6. CASE UNCHANGED vars
  BY <1>6 DEF vars
<1>7. QED
  BY <1>2, <1>3, <1>4, <1>5, <1>6 DEF Next

\* No completion is ever stranded: although a full pipe drops wakeup bytes
\* and a drain empties the pipe before it reads the queue, a completed item
\* always has a readable pipe, a pending write or a running drain.
THEOREM NoLostWakeup == Spec => []NoStrandedCompletion
<1>1. Init => WakeInv
  BY PoolAssumption DEF Init, WakeInv, JoinInv, NoStrandedCompletion
<1>2. WakeInv => NoStrandedCompletion
  BY DEF WakeInv
<1>3. QED
  BY <1>1, <1>2, NextWakeInv, Invariance, PTL DEF Spec

-----------------------------------------------------------------------------
(* Who submitted what: collections, the end of main's loop and tp_free *)

\* An item has an owner once it is counted; a JS thread submits and collects
\* only while it executes JavaScript, never both at once.
OwnInv ==
    /\ \A i \in Items : stage[i] # "new" => owner[i] # NULL
    /\ \A i \in Items : stage[i] = "new" => owner[i] = NULL
    /\ \A l \in Loops : submitting[l] # NULL =>
          /\ owner[submitting[l]] = l
          /\ lpc[l] \in {"js", "after"}
          /\ marking[l] = "idle"
    /\ \A l \in Loops : marking[l] # "idle" => lpc[l] \in {"js", "after"}

\* What a collection has traced: the thread's queued items from the start (it
\* cannot queue another one meanwhile), its active ones at the end.
MarkInv ==
    \A l \in Loops, i \in Items : owner[i] = l =>
        /\ marking[l] # "idle" /\ stage[i] = "queued" => i \in marked[l]
        /\ marking[l] = "all" /\ stage[i] = "active" => i \in marked[l]

\* The end of main's loop and tp_free: a pool thread that has left saw an
\* empty queue after main's last submission.
MainInv ==
    /\ JoinInv
    /\ ~poolActive => lpc[MainLoop] \in {"join", "exited"}
    /\ \A w \in Workers : wpc[w] = "exited" =>
          /\ ~poolActive
          /\ \A i \in Items : owner[i] = MainLoop => stage[i] # "queued"
    /\ MainExitsDrained
    /\ FreeRunsQueuedWork

OwnerInv == OwnInv /\ MarkInv /\ MainInv

\* What each step that moves an item does to the stages.
LEMMA StageSteps ==
    ASSUME IInv
    PROVE  /\ \A w \in Workers : WorkerDequeue(w) =>
                \E i \in Items : stage[i] = "queued" /\ i \in Range(workQueue)
                    /\ stage' = [stage EXCEPT ![i] = "active"]
           /\ \A w \in Workers : WorkerPush(w) =>
                \E i \in Items : stage[i] = "active" /\ stage' = [stage EXCEPT ![i] = "done"]
           /\ \A l \in Loops : SubmitEnqueue(l) =>
                /\ submitting[l] \in Items
                /\ stage[submitting[l]] = "counted"
                /\ \A w \in Workers : wpc'[w] = "exited" <=> wpc[w] = "exited"
           /\ \A l \in Loops : DrainPop(l) =>
                \E i \in Items : stage[i] = "done" /\ stage' = [stage EXCEPT ![i] = "after"]
           /\ \A l \in Loops : AfterReturn(l) =>
                \E i \in Items : stage[i] = "after" /\ stage' = [stage EXCEPT ![i] = "finished"]
<1>1. ASSUME NEW w \in Workers, WorkerDequeue(w)
      PROVE  \E i \in Items : stage[i] = "queued" /\ i \in Range(workQueue)
                 /\ stage' = [stage EXCEPT ![i] = "active"]
  <2>1. Head(workQueue) \in Items /\ Head(workQueue) \in Range(workQueue)
    BY <1>1, Dequeue DEF IInv, TypeOK, OnceInv, WorkerDequeue
  <2>2. QED
    BY <1>1, <2>1 DEF IInv, PlaceInv, WorkerDequeue
<1>2. ASSUME NEW w \in Workers, WorkerPush(w)
      PROVE  \E i \in Items : stage[i] = "active" /\ stage' = [stage EXCEPT ![i] = "done"]
  <2>1. activeItem[w] \in Items
    BY <1>2 DEF IInv, TypeOK, PcInv, WorkerPush
  <2>2. QED
    BY <1>2, <2>1 DEF IInv, PlaceInv, WorkerPush
<1>3. ASSUME NEW l \in Loops, SubmitEnqueue(l)
      PROVE  /\ submitting[l] \in Items
             /\ stage[submitting[l]] = "counted"
             /\ \A w \in Workers : wpc'[w] = "exited" <=> wpc[w] = "exited"
  <2>1. submitting[l] \in Items
    BY <1>3 DEF IInv, TypeOK, SubmitEnqueue
  <2>2. stage[submitting[l]] = "counted"
    BY <2>1 DEF IInv, PlaceInv
  <2>3. \A w \in Workers : wpc'[w] = "exited" <=> wpc[w] = "exited"
    <3>1. CASE {w \in Workers : wpc[w] = "waiting"} = {}
      BY <1>3, <3>1 DEF SubmitEnqueue, CondSignal
    <3>2. CASE {w \in Workers : wpc[w] = "waiting"} # {}
      <4>1. PICK v \in Workers :
              wpc[v] = "waiting" /\ wpc' = [wpc EXCEPT ![v] = "lock"]
        BY <1>3, <3>2 DEF SubmitEnqueue, CondSignal
      <4>2. QED
        BY <4>1 DEF IInv, TypeOK
    <3>3. QED
      BY <3>1, <3>2
  <2>4. QED
    BY <2>1, <2>2, <2>3
<1>4. ASSUME NEW l \in Loops, DrainPop(l)
      PROVE  \E i \in Items : stage[i] = "done" /\ stage' = [stage EXCEPT ![i] = "after"]
  BY <1>4, DrainPopStep DEF DrainPop
<1>5. ASSUME NEW l \in Loops, AfterReturn(l)
      PROVE  \E i \in Items : stage[i] = "after" /\ stage' = [stage EXCEPT ![i] = "finished"]
  BY <1>5, AfterReturnStep DEF AfterReturn
<1>6. QED
  BY <1>1, <1>2, <1>3, <1>4, <1>5

\* Ownership is settled by the first half of tp_submit and never changes.
LEMMA NextOwnInv == IInv /\ OwnInv /\ [Next]_vars => OwnInv'
<1>1. SUFFICES ASSUME IInv, OwnInv, [Next]_vars PROVE OwnInv'
  OBVIOUS
<1>t. /\ stage \in [Items -> Stages]
      /\ owner \in [Items -> Loops \cup {NULL}]
      /\ submitting \in [Loops -> Items \cup {NULL}]
      /\ lpc \in [Loops -> {"js", "drain", "pop", "after", "join", "exited"}]
      /\ marking \in [Loops -> {"idle", "work", "done", "all"}]
      /\ NULL \notin Items \cup Loops
      /\ MainLoop \in Loops
  BY <1>1, PoolAssumption DEF IInv, TypeOK
<1> USE <1>1, <1>t DEF OwnInv
<1>2. ASSUME NEW w \in Workers, WorkerNext(w) PROVE OwnInv'
  <2>1. CASE WorkerDequeue(w)
    <3>1. PICK i \in Items :
            stage[i] = "queued" /\ stage' = [stage EXCEPT ![i] = "active"]
      BY <2>1, StageSteps
    <3>2. QED
      BY <2>1, <3>1 DEF WorkerDequeue, loopVars, gcVars
  <2>2. CASE WorkerPush(w)
    <3>1. PICK i \in Items :
            stage[i] = "active" /\ stage' = [stage EXCEPT ![i] = "done"]
      BY <2>2, StageSteps
    <3>2. QED
      BY <2>2, <3>1 DEF WorkerPush, loopVars, gcVars
  <2>3. CASE WorkerWait(w) \/ SpuriousWakeup(w) \/ WorkerExit(w) \/ WorkerWake(w)
    BY <2>3 DEF WorkerWait, SpuriousWakeup, WorkerExit, WorkerWake, loopVars, gcVars
  <2>4. QED
    BY <1>2, <2>1, <2>2, <2>3 DEF WorkerNext
<1>3. ASSUME NEW l \in Loops, LoopNext(l) PROVE OwnInv'
  <2>1. ASSUME NEW i \in Items, SubmitCount(l, i) PROVE OwnInv'
    <3>1. \A k \in Loops : submitting[k] # i
      BY <2>1 DEF IInv, PlaceInv, SubmitCount
    <3>2. QED
      BY <2>1, <3>1 DEF SubmitCount, InJS, gcVars
  <2>2. CASE SubmitEnqueue(l)
    <3>1. PICK i \in Items : i = submitting[l] /\ stage[i] = "counted"
      BY <2>2, StageSteps
    <3>2. /\ stage' = [stage EXCEPT ![i] = "queued"]
          /\ submitting' = [submitting EXCEPT ![l] = NULL]
          /\ UNCHANGED <<owner, lpc, marking>>
      BY <2>2, <3>1 DEF SubmitEnqueue, gcVars
    <3>3. QED
      BY <3>1, <3>2
  <2>3. CASE TickDrain(l) \/ TickExit(l) \/ TickStop(l)
    BY <2>3 DEF TickDrain, TickExit, TickStop, InJS, gcVars
  <2>4. CASE DrainPipe(l) \/ DrainEnd(l)
    BY <2>4 DEF DrainPipe, DrainEnd, gcVars
  <2>5. CASE DrainPop(l)
    <3>1. PICK i \in Items :
            stage[i] = "done" /\ stage' = [stage EXCEPT ![i] = "after"]
      BY <2>5, StageSteps
    <3>2. QED
      BY <2>5, <3>1 DEF DrainPop, gcVars
  <2>6. CASE AfterReturn(l)
    <3>1. PICK i \in Items :
            stage[i] = "after" /\ stage' = [stage EXCEPT ![i] = "finished"]
      BY <2>6, StageSteps
    <3>2. QED
      BY <2>6, <3>1 DEF AfterReturn, InJS, gcVars
  <2>7. CASE GcMarkWork(l) \/ GcMarkDone(l) \/ GcMarkActive(l) \/ GcEnd(l)
    <3>1. UNCHANGED <<stage, owner, submitting, lpc>>
      BY <2>7 DEF GcMarkWork, GcMarkDone, GcMarkActive, GcEnd, loopVars
    <3>2. CASE GcMarkWork(l)
      BY <3>1, <3>2 DEF GcMarkWork, InJS
    <3>3. CASE GcMarkDone(l) \/ GcMarkActive(l) \/ GcEnd(l)
      BY <3>1, <3>3 DEF GcMarkDone, GcMarkActive, GcEnd
    <3>4. QED
      BY <2>7, <3>2, <3>3
  <2>8. QED
    BY <1>3, <2>1, <2>2, <2>3, <2>4, <2>5, <2>6, <2>7 DEF LoopNext
<1>4. CASE FreeBroadcast \/ FreeJoin
  BY <1>4 DEF FreeBroadcast, FreeJoin, gcVars
<1>5. CASE UNCHANGED vars
  BY <1>5 DEF vars
<1>6. QED
  BY <1>2, <1>3, <1>4, <1>5 DEF Next

\* Between two steps of tp_mark_gc_roots an item of the collecting thread only
\* moves on: it cannot appear in the queue behind the tracer's back.
LEMMA NextMarkInv == IInv /\ OwnInv /\ MarkInv /\ [Next]_vars => MarkInv'
<1>1. SUFFICES ASSUME IInv, OwnInv, MarkInv, [Next]_vars PROVE MarkInv'
  OBVIOUS
<1>t. /\ stage \in [Items -> Stages]
      /\ owner \in [Items -> Loops \cup {NULL}]
      /\ submitting \in [Loops -> Items \cup {NULL}]
      /\ marking \in [Loops -> {"idle", "work", "done", "all"}]
      /\ marked \in [Loops -> SUBSET Items]
      /\ NULL \notin Items \cup Loops
  BY <1>1, PoolAssumption DEF IInv, TypeOK
<1> USE <1>1, <1>t DEF MarkInv
<1>2. ASSUME NEW w \in Workers, WorkerNext(w) PROVE MarkInv'
  <2>1. CASE WorkerDequeue(w)
    <3>1. PICK i \in Items :
            stage[i] = "queued" /\ stage' = [stage EXCEPT ![i] = "active"]
      BY <2>1, StageSteps
    <3>2. QED
      BY <2>1, <3>1 DEF WorkerDequeue, loopVars, gcVars
  <2>2. CASE WorkerPush(w)
    <3>1. PICK i \in Items :
            stage[i] = "active" /\ stage' = [stage EXCEPT ![i] = "done"]
      BY <2>2, StageSteps
    <3>2. QED
      BY <2>2, <3>1 DEF WorkerPush, loopVars, gcVars
  <2>3. CASE WorkerWait(w) \/ SpuriousWakeup(w) \/ WorkerExit(w) \/ WorkerWake(w)
    BY <2>3 DEF WorkerWait, SpuriousWakeup, WorkerExit, WorkerWake, loopVars, gcVars
  <2>4. QED
    BY <1>2, <2>1, <2>2, <2>3 DEF WorkerNext
<1>3. ASSUME NEW l \in Loops, LoopNext(l) PROVE MarkInv'
  <2>1. ASSUME NEW i \in Items, SubmitCount(l, i) PROVE MarkInv'
    BY <2>1 DEF SubmitCount, gcVars
  <2>2. CASE SubmitEnqueue(l)
    <3>1. owner[submitting[l]] = l /\ marking[l] = "idle"
      BY <2>2 DEF OwnInv, SubmitEnqueue
    <3>2. PICK i \in Items : i = submitting[l]
      BY <2>2, StageSteps
    <3>3. /\ stage' = [stage EXCEPT ![i] = "queued"]
          /\ UNCHANGED <<owner, marking, marked>>
      BY <2>2, <3>2 DEF SubmitEnqueue, gcVars
    <3>4. QED
      BY <3>1, <3>2, <3>3
  <2>3. CASE TickDrain(l) \/ TickExit(l) \/ TickStop(l) \/ DrainPipe(l) \/ DrainEnd(l)
    BY <2>3 DEF TickDrain, TickExit, TickStop, DrainPipe, DrainEnd, gcVars
  <2>4. CASE DrainPop(l)
    <3>1. PICK i \in Items :
            stage[i] = "done" /\ stage' = [stage EXCEPT ![i] = "after"]
      BY <2>4, StageSteps
    <3>2. QED
      BY <2>4, <3>1 DEF DrainPop, gcVars
  <2>5. CASE AfterReturn(l)
    <3>1. PICK i \in Items :
            stage[i] = "after" /\ stage' = [stage EXCEPT ![i] = "finished"]
      BY <2>5, StageSteps
    <3>2. QED
      BY <2>5, <3>1 DEF AfterReturn, gcVars
  <2>6. CASE GcMarkWork(l)
    BY <2>6 DEF GcMarkWork, IInv, PlaceInv, loopVars
  <2>7. CASE GcMarkDone(l)
    BY <2>7 DEF GcMarkDone, loopVars
  <2>8. CASE GcMarkActive(l)
    <3>1. \A i \in Items : stage[i] = "active" =>
            i \in {activeItem[w] : w \in {v \in Workers : activeItem[v] # NULL}}
      BY DEF IInv, PlaceInv
    <3>2. QED
      BY <2>8, <3>1 DEF GcMarkActive, loopVars
  <2>9. CASE GcEnd(l)
    BY <2>9 DEF GcEnd, loopVars
  <2>10. QED
    BY <1>3, <2>1, <2>2, <2>3, <2>4, <2>5, <2>6, <2>7, <2>8, <2>9 DEF LoopNext
<1>4. CASE FreeBroadcast \/ FreeJoin
  BY <1>4 DEF FreeBroadcast, FreeJoin, gcVars
<1>5. CASE UNCHANGED vars
  BY <1>5 DEF vars
<1>6. QED
  BY <1>2, <1>3, <1>4, <1>5 DEF Next

\* With pending_count 0 every item is new or finished.
LEMMA NothingPending ==
    ASSUME IInv, pending = 0
    PROVE  \A i \in Items : stage[i] \in {"new", "finished"}
<1>1. IsFiniteSet(Counted)
  BY PoolAssumption, FS_Subset DEF Counted
<1>2. Counted = {}
  BY <1>1, FS_EmptySet DEF IInv, CountInv
<1>3. QED
  BY <1>2 DEF Counted

\* main's loop ends only when its work is finished, and tp_free returns only
\* when the work that was queued has been executed.
LEMMA NextMainInv == IInv /\ OwnInv /\ MainInv /\ [Next]_vars => MainInv'
<1>1. SUFFICES ASSUME IInv, OwnInv, MainInv, [Next]_vars PROVE MainInv'
  OBVIOUS
<1>t. /\ stage \in [Items -> Stages]
      /\ owner \in [Items -> Loops \cup {NULL}]
      /\ submitting \in [Loops -> Items \cup {NULL}]
      /\ lpc \in [Loops -> {"js", "drain", "pop", "after", "join", "exited"}]
      /\ wpc \in [Workers -> {"lock", "waiting", "work", "wake", "exited"}]
      /\ NULL \notin Items \cup Loops
      /\ MainLoop \in Loops
  BY <1>1, PoolAssumption DEF IInv, TypeOK
<1> USE <1>1, <1>t DEF MainInv, JoinInv, MainExitsDrained, FreeRunsQueuedWork
<1>2. ASSUME NEW w \in Workers, WorkerNext(w) PROVE MainInv'
  <2>1. CASE WorkerDequeue(w)
    <3>1. PICK i \in Items :
            stage[i] = "queued" /\ stage' = [stage EXCEPT ![i] = "active"]
      BY <2>1, StageSteps
    <3>2. QED
      BY <2>1, <3>1 DEF WorkerDequeue, loopVars
  <2>2. CASE WorkerPush(w)
    <3>1. PICK i \in Items :
            stage[i] = "active" /\ stage' = [stage EXCEPT ![i] = "done"]
      BY <2>2, StageSteps
    <3>2. QED
      BY <2>2, <3>1 DEF WorkerPush, loopVars
  <2>3. CASE WorkerExit(w)
    <3>1. \A i \in Items : stage[i] # "queued"
      BY <2>3, EmptyQueue DEF WorkerExit, IInv, PlaceInv
    <3>2. QED
      BY <2>3, <3>1 DEF WorkerExit, loopVars
  <2>4. CASE WorkerWait(w) \/ SpuriousWakeup(w) \/ WorkerWake(w)
    BY <2>4 DEF WorkerWait, SpuriousWakeup, WorkerWake, loopVars
  <2>5. QED
    BY <1>2, <2>1, <2>2, <2>3, <2>4 DEF WorkerNext
<1>3. ASSUME NEW l \in Loops, LoopNext(l) PROVE MainInv'
  <2>1. ASSUME NEW i \in Items, SubmitCount(l, i) PROVE MainInv'
    <3>1. CASE l = MainLoop
      BY <2>1, <3>1 DEF SubmitCount, InJS, poolVars
    <3>2. CASE l # MainLoop
      BY <2>1, <3>2 DEF SubmitCount, poolVars
    <3>3. QED
      BY <3>1, <3>2
  <2>2. CASE SubmitEnqueue(l)
    <3>1. /\ owner[submitting[l]] = l
          /\ lpc[l] \in {"js", "after"}
      BY <2>2 DEF OwnInv, SubmitEnqueue
    <3>2. /\ submitting[l] \in Items
          /\ stage[submitting[l]] = "counted"
          /\ \A w \in Workers : wpc'[w] = "exited" <=> wpc[w] = "exited"
      BY <2>2, StageSteps
    <3>3. CASE l = MainLoop
      BY <2>2, <3>1, <3>2, <3>3 DEF SubmitEnqueue
    <3>4. CASE l # MainLoop
      BY <2>2, <3>1, <3>2, <3>4 DEF SubmitEnqueue
    <3>5. QED
      BY <3>3, <3>4
  <2>3. CASE TickExit(l)
    <3>1. \A i \in Items : stage[i] \in {"new", "finished"}
      BY <2>3, NothingPending DEF TickExit
    <3>2. QED
      <4>1. /\ lpc' = [lpc EXCEPT ![l] = "exited"] /\ lpc[l] = "js"
            /\ UNCHANGED <<stage, owner, wpc, poolActive>>
        BY <2>3 DEF TickExit, poolVars
      <4>2. QED
        BY <3>1, <4>1 DEF OwnInv
  <2>4. CASE TickDrain(l) \/ TickStop(l) \/ DrainPipe(l) \/ DrainEnd(l)
    <3>1. CASE TickDrain(l)
      BY <3>1 DEF TickDrain, poolVars
    <3>2. CASE TickStop(l)
      BY <3>2 DEF TickStop, poolVars
    <3>3. CASE DrainPipe(l)
      BY <3>3 DEF DrainPipe, poolVars
    <3>4. CASE DrainEnd(l)
      BY <3>4 DEF DrainEnd, poolVars
    <3>5. QED
      BY <2>4, <3>1, <3>2, <3>3, <3>4
  <2>5. CASE DrainPop(l)
    <3>1. PICK i \in Items :
            stage[i] = "done" /\ stage' = [stage EXCEPT ![i] = "after"]
      BY <2>5, StageSteps
    <3>2. QED
      BY <2>5, <3>1 DEF DrainPop, poolVars
  <2>6. CASE AfterReturn(l)
    <3>1. PICK i \in Items :
            stage[i] = "after" /\ stage' = [stage EXCEPT ![i] = "finished"]
      BY <2>6, StageSteps
    <3>2. QED
      BY <2>6, <3>1 DEF AfterReturn, poolVars
  <2>7. CASE GcMarkWork(l) \/ GcMarkDone(l) \/ GcMarkActive(l) \/ GcEnd(l)
    <3>1. UNCHANGED <<wpc, poolActive, stage, lpc, owner>>
      BY <2>7 DEF GcMarkWork, GcMarkDone, GcMarkActive, GcEnd, poolVars, loopVars
    <3>2. QED
      BY <3>1
  <2>8. QED
    BY <1>3, <2>1, <2>2, <2>3, <2>4, <2>5, <2>6, <2>7 DEF LoopNext
<1>4. CASE FreeBroadcast
  BY <1>4 DEF FreeBroadcast
<1>5. CASE FreeJoin
  <2>1. \A i \in Items : owner[i] = MainLoop => stage[i] # "queued"
    BY <1>5, WorkersAssumption DEF FreeJoin
  <2>2. \A i \in Items : stage[i] # "active"
    <3>1. \A w \in Workers : wpc[w] = "exited"
      BY <1>5 DEF FreeJoin
    <3>2. \A w \in Workers : activeItem[w] = NULL
      BY <3>1 DEF IInv, PcInv
    <3>3. QED
      BY <3>2 DEF IInv, PlaceInv
  <2>3. \A i \in Items : owner[i] = MainLoop => stage[i] \notin {"new", "counted"}
    <3>1. submitting[MainLoop] = NULL
      BY <1>5 DEF FreeJoin, OwnInv
    <3>2. \A i \in Items : stage[i] = "counted" => \E k \in Loops : submitting[k] = i
      BY DEF IInv, PlaceInv
    <3>3. \A i \in Items : stage[i] = "counted" => owner[i] # MainLoop
      BY <3>1, <3>2 DEF OwnInv
    <3>4. QED
      BY <3>3 DEF OwnInv
  <2>4. \A i \in Items : owner[i] = MainLoop => stage[i] \in {"done", "after", "finished"}
    BY <2>1, <2>2, <2>3 DEF Stages
  <2>5. QED
    BY <1>5, <2>4 DEF FreeJoin, poolVars
<1>6. CASE UNCHANGED vars
  BY <1>6 DEF vars
<1>7. QED
  BY <1>2, <1>3, <1>4, <1>5, <1>6 DEF Next

\* What is known of the owners of items holds in every reachable state.
THEOREM Ownership == Spec => []OwnerInv
<1>1. Init => OwnerInv
  BY PoolAssumption
     DEF Init, OwnerInv, OwnInv, MarkInv, MainInv, JoinInv, MainExitsDrained,
         FreeRunsQueuedWork
<1>2. IInv /\ OwnerInv /\ [Next]_vars => OwnerInv'
  BY NextOwnInv, NextMarkInv, NextMainInv DEF OwnerInv
<1>3. QED
  BY <1>1, <1>2, Invariance, PTL DEF Spec

\* A collection on a JS thread traces every item of that thread that a pool
\* thread may still work on, although the three queues are traced in three
\* critical sections while items move between them.
THEOREM CollectionsTraceWork == Spec => []MarkMissesOnlyFinished
<1>1. ASSUME IInv, MarkInv PROVE MarkMissesOnlyFinished
  <2>1. SUFFICES ASSUME NEW l \in Loops, marking[l] = "all",
                        NEW i \in Range(workQueue) \cup {activeItem[w] : w \in Workers},
                        i # NULL, owner[i] = l
                 PROVE  i \in marked[l]
    BY DEF MarkMissesOnlyFinished
  <2>2. i \in Items
    BY <1>1, <2>1, RangeOfSeq DEF IInv, TypeOK
  <2>3. stage[i] \in {"queued", "active"}
    BY <1>1, <2>1, <2>2 DEF IInv, PlaceInv
  <2>4. QED
    BY <1>1, <2>1, <2>2, <2>3 DEF MarkInv
<1>2. IInv /\ OwnerInv => MarkMissesOnlyFinished
  BY <1>1 DEF OwnerInv
<1>3. QED
  BY <1>2, Invariance, Ownership, PTL

\* When main's event loop has ended by itself, every item main submitted has
\* had its after().
THEOREM MainLosesNothing == Spec => []MainExitsDrained
<1>1. OwnerInv => MainExitsDrained
  BY DEF OwnerInv, MainInv
<1>2. QED
  BY <1>1, Ownership, PTL

\* When tp_free has returned, every item main submitted has been executed,
\* whatever other JS threads submit during the shutdown.
THEOREM FreeLosesNothing == Spec => []FreeRunsQueuedWork
<1>1. OwnerInv => FreeRunsQueuedWork
  BY DEF OwnerInv, MainInv
<1>2. QED
  BY <1>1, Ownership, PTL

=============================================================================
