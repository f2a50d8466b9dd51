-------------------------------- MODULE Napi --------------------------------
(***************************************************************************)
(* src/src/napi.c: asynchronous work, thread-safe functions and arrays of  *)
(* the Node-API.  An addon follows the rules of the API: it deletes a work *)
(* before queueing it or once its complete callback has been called, and   *)
(* does not call a thread-safe function it has released.  It may release   *)
(* one whose calls are still queued, which the API allows and this code    *)
(* does not look at: the freed function is then read, and nothing is said  *)
(* of what follows.  The thread pool is the queue that ThreadPool          *)
(* describes in full.                                                      *)
(***************************************************************************)
EXTENDS Integers, Sequences, FiniteSets

CONSTANTS
    Works,      \* the napi_async_work objects of the addon
    MaxCalls,   \* bound: calls of the thread-safe function
    Pool,       \* the pool's threads
    Capacity,   \* elements a new array has room for
    MaxIndex    \* bound: the largest index the addon uses

NapiAssumption == IsFiniteSet(Works) /\ MaxCalls \in Nat /\ Capacity \in Nat /\ MaxIndex \in Nat

Calls == 1..MaxCalls
Item(kind, id) == [kind |-> kind, id |-> id]
NoItem == Item("none", 0)

VARIABLES
    queue, taken, done, \* the pool: waiting, taken by a thread, finished
    current,            \* the item whose after callback runs
    work, call, tsfn,   \* life of each object: "none", "made", "queued",
                        \* "executed", "completed", "freed"
    array, length,      \* an array: index -> value (0: never written), length
    undefined,          \* tsfn_after_work has read the freed function
    early,              \* history: released before all calls were delivered
    useAfterFree,       \* history: a freed work or call was used
    executed, completed \* history: callbacks of each work, results of each call

vars == <<queue, taken, done, current, work, call, tsfn, array, length,
          undefined, early, useAfterFree, executed, completed>>
poolVars == <<queue, taken, done, current>>
arrayVars == <<array, length>>
history == <<undefined, early, useAfterFree, executed, completed>>

Init ==
    /\ queue = <<>> /\ taken = [t \in Pool |-> NoItem] /\ done = <<>> /\ current = NoItem
    /\ work = [w \in Works |-> "none"]
    /\ call = [n \in Calls |-> "none"]
    /\ tsfn = "none"
    /\ array = [i \in 0..(Capacity - 1) |-> 0] /\ length = 0
    /\ undefined = FALSE /\ early = FALSE /\ useAfterFree = FALSE
    /\ executed = [w \in Works |-> 0]
    /\ completed = <<>>

Live(item) ==
    IF item.kind = "work" THEN work[item.id] \notin {"none", "freed"}
    ELSE call[item.id] # "freed"

Delivered(n) == \E k \in 1..Len(completed) : completed[k] = Item("call", n)

\* napi_create_async_work, napi_queue_async_work.
CreateWork(w) ==
    /\ work[w] = "none"
    /\ work' = [work EXCEPT ![w] = "made"]
    /\ UNCHANGED <<poolVars, call, tsfn, arrayVars, history>>

QueueWork(w) ==
    /\ work[w] = "made"
    /\ work' = [work EXCEPT ![w] = "queued"]
    /\ queue' = Append(queue, Item("work", w))
    /\ UNCHANGED <<taken, done, current, call, tsfn, arrayVars, history>>

\* napi_delete_async_work: the item and the work are freed at once.
DeleteWork(w) ==
    /\ work[w] \in {"made", "completed"}
    /\ work' = [work EXCEPT ![w] = "freed"]
    /\ UNCHANGED <<poolVars, call, tsfn, arrayVars, history>>

\* napi_create_threadsafe_function.
CreateTsfn ==
    /\ tsfn = "none"
    /\ tsfn' = "made"
    /\ UNCHANGED <<poolVars, work, call, arrayVars, history>>

\* napi_call_threadsafe_function, on a thread of the addon.
CallTsfn(n) ==
    /\ tsfn = "made" /\ call[n] = "none" /\ \A k \in 1..(n - 1) : call[k] # "none"
    /\ call' = [call EXCEPT ![n] = "queued"]
    /\ queue' = Append(queue, Item("call", n))
    /\ UNCHANGED <<taken, done, current, work, tsfn, arrayVars, history>>

\* napi_release_threadsafe_function: finalized and freed at once, whatever
\* calls are under way.
ReleaseTsfn ==
    /\ tsfn = "made"
    /\ tsfn' = "freed"
    /\ early' = (\E n \in Calls : call[n] = "queued" /\ ~Delivered(n))
    /\ UNCHANGED <<poolVars, work, call, arrayVars, undefined, useAfterFree, executed,
                   completed>>

\* A thread of the pool takes an item ...
Take(t) ==
    /\ taken[t] = NoItem /\ queue # <<>>
    /\ taken' = [taken EXCEPT ![t] = Head(queue)]
    /\ queue' = Tail(queue)
    /\ UNCHANGED <<done, current, work, call, tsfn, arrayVars, history>>

\* ... and runs napi_async_work_cb or tsfn_dummy_work.
Execute(t) ==
    /\ taken[t] # NoItem
    /\ LET item == taken[t]
       IN /\ useAfterFree' = (useAfterFree \/ ~Live(item))
          /\ executed' = IF item.kind = "call" THEN executed
                         ELSE [executed EXCEPT ![item.id] = @ + 1]
          /\ work' = IF item.kind = "call" THEN work
                     ELSE [work EXCEPT ![item.id] = "executed"]
          /\ done' = Append(done, item)
    /\ taken' = [taken EXCEPT ![t] = NoItem]
    /\ UNCHANGED <<queue, current, call, tsfn, arrayVars, undefined, early, completed>>

\* Mutant: the call is freed before the addon's callback runs as well.
AfterFreed ==
    /\ current = NoItem /\ done # <<>>
    /\ LET item == Head(done)
       IN /\ current' = item
          /\ useAfterFree' = (useAfterFree \/ ~Live(item))
          /\ undefined' = (item.kind = "call" /\ tsfn # "made")
          /\ completed' = Append(completed, item)
          /\ work' = IF item.kind = "work" THEN [work EXCEPT ![item.id] = "completed"] ELSE work
          /\ call' = IF item.kind = "call" THEN [call EXCEPT ![item.id] = "freed"] ELSE call
    /\ done' = Tail(done)
    /\ UNCHANGED <<queue, taken, tsfn, arrayVars, early, executed>>

\* tp_drain_completions calls napi_async_after_cb or tsfn_after_work, which
\* call the addon: the complete callback may delete its work, and the call's
\* environment and callback are read from the function.
After ==
    /\ current = NoItem /\ done # <<>>
    /\ LET item == Head(done)
       IN /\ current' = item
          /\ useAfterFree' = (useAfterFree \/ ~Live(item))
          /\ undefined' = (item.kind = "call" /\ tsfn # "made")
          /\ completed' = Append(completed, item)
          /\ work' = IF item.kind = "work" THEN [work EXCEPT ![item.id] = "completed"] ELSE work
    /\ done' = Tail(done)
    /\ UNCHANGED <<queue, taken, call, tsfn, arrayVars, early, executed>>

\* The callback returns; tsfn_after_work frees the call and its item.
AfterReturns ==
    /\ current # NoItem
    /\ call' = IF current.kind = "call" THEN [call EXCEPT ![current.id] = "freed"] ELSE call
    /\ useAfterFree' = (useAfterFree \/ (current.kind = "call" /\ ~Live(current)))
    /\ current' = NoItem
    /\ UNCHANGED <<queue, taken, done, work, tsfn, arrayVars, undefined, early, executed,
                   completed>>

\* napi_set_element of index i: past the capacity it does nothing and says ok.
SetElement(i) ==
    /\ array' = IF i < Capacity THEN [array EXCEPT ![i] = i + 1] ELSE array
    /\ length' = IF i < Capacity /\ i >= length THEN i + 1 ELSE length
    /\ UNCHANGED <<poolVars, work, call, tsfn, history>>

\* napi_get_element, napi_get_array_length.
GetElement(i) == IF i < length THEN array[i] ELSE 0

Step ==
    \/ \E w \in Works : CreateWork(w) \/ QueueWork(w) \/ DeleteWork(w)
    \/ CreateTsfn \/ ReleaseTsfn
    \/ \E n \in Calls : CallTsfn(n)
    \/ \E t \in Pool : Take(t) \/ Execute(t)
    \/ After \/ AfterReturns
    \/ \E i \in 0..MaxIndex : SetElement(i)

Next == ~undefined /\ Step

\* The threads of the pool and the event loop run.
Spec ==
    /\ Init /\ [][Next]_vars
    /\ \A t \in Pool : WF_vars(~undefined /\ (Take(t) \/ Execute(t)))
    /\ WF_vars(~undefined /\ (After \/ AfterReturns))

-----------------------------------------------------------------------------
States == {"none", "made", "queued", "executed", "completed", "freed"}

TypeOK ==
    /\ work \in [Works -> States] /\ call \in [Calls -> States] /\ tsfn \in States
    /\ length \in 0..Capacity /\ {undefined, early, useAfterFree} \subseteq BOOLEAN
    /\ Len(queue) + Len(done) <= Cardinality(Works) + MaxCalls

\* An addon that follows the rules never makes the runtime touch a work or a
\* call that has been freed, in whatever order the pool's threads finish and
\* though a complete callback may delete its own work.  The function itself is
\* read after it was freed only if it was released before its last call was
\* delivered: released in the callback of that call or later, it never is.
UsesAreLive == ~useAfterFree /\ (undefined => early)

\* A work is executed once and then completed once; a call is delivered once.
CompletedOnce ==
    /\ \A w \in Works : /\ executed[w] <= 1
                        /\ Cardinality({k \in 1..Len(completed) :
                                          completed[k] = Item("work", w)}) <= executed[w]
    /\ \A k, l \in 1..Len(completed) : completed[k] = completed[l] => k = l

\* What napi_set_element has stored below the capacity, napi_get_element returns.
ElementsKept ==
    \A i \in 0..(Capacity - 1) : array[i] # 0 => GetElement(i) = i + 1

=============================================================================
