-------------------------- MODULE EventLoopProofs --------------------------
(***************************************************************************)
(* Proofs about EventLoop: what el_run and the el_ functions keep true for *)
(* any number of timers, immediates, handles and operations.  The          *)
(* inductive invariant has one part for each of the loop's data            *)
(* structures; most actions disturb one part only.                         *)
(***************************************************************************)
EXTENDS EventLoop, FiniteSetTheorems, QueueFacts

\* The list of timers is sorted by expiry, and a timer is in it at most once
\* and never after it has run.
TimerInv ==
    /\ timers \in Seq([id : TimerIds, expires : 0..MaxTime])
    /\ fired \subseteq TimerIds
    /\ clock \in 0..MaxTime
    /\ now \in 0..MaxTime
    /\ \A m, n \in 1..Len(timers) : m < n => timers[m].expires <= timers[n].expires
    /\ \A m, n \in 1..Len(timers) : timers[m].id = timers[n].id => m = n
    /\ \A n \in 1..Len(timers) : timers[n].id \notin fired

\* An immediate is in the queue at most once, not after it has run, and not
\* after a clearImmediate that could find it.
CheckInv ==
    /\ checks \in Seq(CheckIds)
    /\ ran \subseteq CheckIds
    /\ cleared \subseteq CheckIds
    /\ IsInjective(checks)
    /\ Range(checks) \cap ran = {}
    /\ Range(checks) \cap cleared \cap Fits32 = {}
    /\ ran \cap cleared \cap Fits32 = {}

\* tp_pending_count() counts the operations that have still to settle.
Unsettled == {i \in Items : opState[i] \in {"pending", "calling"}}
PoolInv ==
    /\ opState \in [Items -> {"idle", "pending", "calling", "settled"}]
    /\ calling \in [{Thread} -> Items \cup {NULL}]
    /\ calling[Thread] # NULL => opState[calling[Thread]] = "calling"
    /\ inFlight = Cardinality(Unsettled)

\* No callback runs between two ticks, in poll() and after el_run.
ControlInv ==
    /\ stopFlag \in BOOLEAN
    /\ inCallback \in BOOLEAN
    /\ pc \in Phases
    /\ deadline \in Int
    /\ inCallback => pc \notin {"top", "poll", "exited"}
    /\ ExitsOnlyWhenIdle

ListTypes ==
    /\ ioList \in Seq(Handles)
    /\ IsInjective(ioList)
    /\ dangling \in [Handles -> Handles \cup {NULL}]
    /\ unrefed \subseteq Handles
    /\ ready \subseteq Handles
    /\ pollFds \in Seq(Handles)
    /\ revents \subseteq 1..Len(pollFds)
    /\ walk \in Handles \cup {NULL}
    /\ slot \in Nat
    /\ disturbed \in BOOLEAN

\* The list still ends with the handles whose slots the walk has not passed.
Aligned ==
    /\ slot \in 1..(Len(pollFds) + 1)
    /\ Len(ioList) >= Len(pollFds) - slot + 1
    /\ \A n \in 1..Len(pollFds) :
          n >= slot => ioList[n + Len(ioList) - Len(pollFds)] = pollFds[n]
    /\ walk = IF slot <= Len(pollFds) THEN pollFds[slot] ELSE NULL

\* The calls made are those of the slots with an event among the first ones.
ServedUpTo(k) ==
    /\ \A c \in called : c[2] \in revents /\ c[2] < k /\ pollFds[c[2]] = c[1]
    /\ \A n \in revents : n < k => \E c \in called : c[2] = n

WalkInv ==
    /\ pc = "poll" => ioList = pollFds
    /\ pc = "timers" /\ ~disturbed => ioList = pollFds
    /\ pc \notin {"io", "drain"} => called = {}
    /\ pc = "io" /\ ~disturbed => Aligned /\ ServedUpTo(slot)
    /\ pc = "drain" /\ ~disturbed => ServedUpTo(Len(pollFds) + 1)

LoopInv == TimerInv /\ CheckInv /\ PoolInv /\ ControlInv /\ ListTypes /\ WalkInv

-----------------------------------------------------------------------------
(* The sorted list of timers *)

\* The insertion of el_set_timeout: everything before the new timer expires
\* earlier, nothing after it does.
LEMMA TimerInserted ==
    ASSUME NEW S, NEW s \in Seq([id : S, expires : Nat]), NEW t \in [id : S, expires : Nat],
           \A m, n \in 1..Len(s) : m < n => s[m].expires <= s[n].expires
    PROVE  \E k \in 0..Len(s) :
              /\ InsertTimer(s, t) = Linked(s, k, t)
              /\ \A m \in 1..k : s[m].expires < t.expires
              /\ \A m \in (k + 1)..Len(s) : t.expires <= s[m].expires
<1> DEFINE before == {n \in 0..Len(s) : \A m \in 1..n : s[m].expires < t.expires}
<1>1. Len(s) \in Nat /\ t.expires \in Nat /\ \A m \in 1..Len(s) : s[m].expires \in Nat
  <2>1. Len(s) \in Nat /\ \A m \in 1..Len(s) : s[m] \in [id : S, expires : Nat]
    BY ElementOfSeq, LenProperties
  <2>2. \A x \in [id : S, expires : Nat] : x.expires \in Nat
    OBVIOUS
  <2>3. QED
    BY <2>1, <2>2
<1>2. 0 \in before
  BY <1>1
<1>3. \E n \in before : \A m \in before : m <= n
  <2>1. before \in SUBSET (0..Len(s)) /\ before # {}
    BY <1>2
  <2> HIDE DEF before
  <2>2. QED
    BY <1>1, <2>1, Largest
<1>4. PICK k : k = CHOOSE n \in before : \A m \in before : m <= n
  OBVIOUS
<1>5. k \in before /\ \A m \in before : m <= k
  <2> HIDE DEF before
  <2>1. QED
    BY <1>3, <1>4
<1>6. InsertTimer(s, t) = Linked(s, k, t)
  BY <1>4 DEF InsertTimer, Linked
<1>7. k \in 0..Len(s) /\ \A m \in 1..k : s[m].expires < t.expires
  BY <1>5
<1>8. ASSUME NEW m \in (k + 1)..Len(s)
      PROVE  t.expires <= s[m].expires
  <2>1. SUFFICES ASSUME ~(t.expires <= s[m].expires) PROVE FALSE
    OBVIOUS
  <2>2. m \in 1..Len(s) /\ m \in Nat /\ k < m /\ s[m].expires < t.expires
    BY <1>1, <1>7, <2>1
  <2>3. ASSUME NEW j \in 1..m
        PROVE  s[j].expires < t.expires
    <3>1. j \in 1..Len(s) /\ (j < m \/ j = m)
      BY <1>1, <2>2
    <3>2. s[j].expires <= s[m].expires
      BY <1>1, <2>2, <3>1
    <3>3. QED
      BY <1>1, <2>2, <3>1, <3>2
  <2>4. m \in before
    BY <1>1, <2>2, <2>3
  <2>5. QED
    BY <1>5, <1>7, <2>2, <2>4
<1>9. QED
  BY <1>6, <1>7, <1>8

\* el_set_timeout keeps the list sorted and free of duplicates.
LEMMA SetTimeoutStep ==
    ASSUME LoopAssumption, TimerInv, NEW id \in TimerIds, NEW d \in Delays, SetTimeout(id, d)
    PROVE  TimerInv'
<1> DEFINE T == [id : TimerIds, expires : 0..MaxTime]
<1>t. /\ timers \in Seq(T) /\ fired \subseteq TimerIds /\ clock \in 0..MaxTime
      /\ now \in 0..MaxTime /\ MaxTime \in Nat /\ d \in Nat
      /\ Len(timers) \in Nat /\ \A n \in 1..Len(timers) : timers[n] \in T
  <2>1. /\ timers \in Seq(T) /\ fired \subseteq TimerIds /\ clock \in 0..MaxTime
        /\ now \in 0..MaxTime /\ MaxTime \in Nat /\ Delays \subseteq Nat
    BY DEF TimerInv, LoopAssumption
  <2> HIDE DEF T
  <2>2. Len(timers) \in Nat /\ \A n \in 1..Len(timers) : timers[n] \in T
    BY <2>1, ElementOfSeq, LenProperties
  <2>3. QED
    BY <2>1, <2>2
<1>r. \A x \in T : x.id \in TimerIds /\ x.expires \in Nat /\ x \in [id : TimerIds, expires : Nat]
  <2>1. 0..MaxTime \subseteq Nat
    BY <1>t
  <2>2. QED
    BY <2>1
<1>o. \A m, n \in 1..Len(timers) : m < n => timers[m].expires <= timers[n].expires
  BY DEF TimerInv
<1>i. \A m, n \in 1..Len(timers) : timers[m].id = timers[n].id => m = n
  BY DEF TimerInv
<1>f. \A n \in 1..Len(timers) : timers[n].id \notin fired
  BY DEF TimerInv
<1>u. fired' = fired /\ clock' = clock /\ now' = now
  BY DEF SetTimeout, pollVars
<1>n. id \notin fired /\ \A n \in 1..Len(timers) : timers[n].id # id
  BY <1>t DEF SetTimeout, TimerPending
<1>1. PICK t : t = [id |-> id, expires |-> clock + d]
  OBVIOUS
<1>2. t \in T /\ t.id = id
  BY <1>1, <1>t DEF SetTimeout
<1>3. timers' = InsertTimer(timers, t)
  BY <1>1 DEF SetTimeout
<1>4. PICK k \in 0..Len(timers) :
         /\ timers' = Linked(timers, k, t)
         /\ \A m \in 1..k : timers[m].expires < t.expires
         /\ \A m \in (k + 1)..Len(timers) : t.expires <= timers[m].expires
  <2>1. timers \in Seq([id : TimerIds, expires : Nat]) /\ t \in [id : TimerIds, expires : Nat]
    <3>1. PICK R : R = [id : TimerIds, expires : Nat]
      OBVIOUS
    <3>2. T \subseteq R
      BY <1>r, <3>1
    <3> HIDE DEF T
    <3>3. timers \in [1..Len(timers) -> T]
      BY <1>t, LenProperties
    <3>4. timers \in [1..Len(timers) -> R]
      BY <3>2, <3>3
    <3>5. \A n \in Nat : [1..n -> R] \subseteq Seq(R)
      BY SeqDef
    <3>6. timers \in Seq(R)
      BY <1>t, <3>4, <3>5
    <3>7. QED
      BY <1>2, <3>1, <3>2, <3>6
  <2>2. QED
    BY <2>1, <1>o, <1>3, TimerInserted
<1>5. /\ timers' \in Seq(T) /\ Len(timers') = Len(timers) + 1
      /\ \A i \in 1..(Len(timers) + 1) :
            /\ i <= k => timers'[i] = timers[i]
            /\ i = k + 1 => timers'[i] = t
            /\ i > k + 1 => timers'[i] = timers[i - 1]
  <2>1. PICK U : U = T
    OBVIOUS
  <2>2. timers \in Seq(U) /\ t \in U /\ k \in 0..Len(timers)
    BY <1>t, <1>2, <1>4, <2>1
  <2>3. timers' = Linked(timers, k, t)
    BY <1>4
  <2>4. /\ Linked(timers, k, t) \in Seq(U)
        /\ Len(Linked(timers, k, t)) = Len(timers) + 1
        /\ \A i \in 1..(Len(timers) + 1) :
              /\ i <= k => Linked(timers, k, t)[i] = timers[i]
              /\ i = k + 1 => Linked(timers, k, t)[i] = t
              /\ i > k + 1 => Linked(timers, k, t)[i] = timers[i - 1]
    BY <2>2, LinkedIn
  <2>5. QED
    BY <2>1, <2>3, <2>4
<1> HIDE DEF T
<1>6. \A n \in 1..Len(timers) : timers[n].expires \in Nat
  BY <1>t, <1>r
<1>7. t.expires \in Nat
  BY <1>2, <1>r
<1>8. \A m, n \in 1..Len(timers') : m < n => timers'[m].expires <= timers'[n].expires
  <2>1. SUFFICES ASSUME NEW m \in 1..(Len(timers) + 1), NEW n \in 1..(Len(timers) + 1), m < n
                 PROVE  timers'[m].expires <= timers'[n].expires
    BY <1>5
  <2>2. CASE n <= k
    <3>1. m \in 1..Len(timers) /\ n \in 1..Len(timers) /\ m <= k
      BY <1>t, <2>1, <2>2
    <3>2. timers'[m] = timers[m] /\ timers'[n] = timers[n]
      BY <1>5, <2>2, <3>1
    <3>3. QED
      BY <1>o, <2>1, <3>1, <3>2
  <2>3. CASE n = k + 1
    <3>1. m \in 1..k /\ m <= k /\ m \in 1..Len(timers) /\ ~(n <= k)
      BY <1>t, <2>1, <2>3
    <3>2. timers'[m] = timers[m] /\ timers'[n] = t
      BY <1>5, <2>3, <3>1
    <3>3. timers[m].expires < t.expires
      BY <1>4, <3>1
    <3>4. QED
      BY <1>6, <1>7, <3>1, <3>2, <3>3
  <2>4. CASE n > k + 1
    <3>1. n - 1 \in 1..Len(timers) /\ n - 1 \in (k + 1)..Len(timers) /\ ~(n <= k) /\ n # k + 1
      BY <1>t, <2>1, <2>4
    <3>2. timers'[n] = timers[n - 1]
      BY <1>5, <3>1
    <3>3. CASE m <= k
      <4>1. m \in 1..Len(timers) /\ m < n - 1
        BY <1>t, <2>1, <2>4, <3>3
      <4>2. timers'[m] = timers[m]
        BY <1>5, <3>3
      <4>3. QED
        BY <1>o, <3>1, <3>2, <4>1, <4>2
    <3>4. CASE m = k + 1
      <4>1. timers'[m] = t
        BY <1>5, <3>4
      <4>2. t.expires <= timers[n - 1].expires
        BY <1>4, <3>1
      <4>3. QED
        BY <3>2, <4>1, <4>2
    <3>5. CASE m > k + 1
      <4>1. m - 1 \in 1..Len(timers) /\ m - 1 < n - 1 /\ ~(m <= k) /\ m # k + 1
        BY <1>t, <2>1, <3>5
      <4>2. timers'[m] = timers[m - 1]
        BY <1>5, <3>5
      <4>3. QED
        BY <1>o, <3>1, <3>2, <4>1, <4>2
    <3>6. QED
      BY <1>t, <2>1, <3>3, <3>4, <3>5
  <2>5. QED
    BY <1>t, <2>1, <2>2, <2>3, <2>4
<1>9. \A m \in 1..Len(timers') :
         \/ m <= k /\ m \in 1..Len(timers) /\ timers'[m] = timers[m]
         \/ m = k + 1 /\ timers'[m] = t
         \/ m > k + 1 /\ m - 1 \in 1..Len(timers) /\ timers'[m] = timers[m - 1]
  BY <1>t, <1>5
<1>10. \A m, n \in 1..Len(timers') : timers'[m].id = timers'[n].id => m = n
  <2>1. SUFFICES ASSUME NEW m \in 1..Len(timers'), NEW n \in 1..Len(timers'),
                        timers'[m].id = timers'[n].id
                 PROVE  m = n
    OBVIOUS
  <2>2. Len(timers') \in Nat /\ m \in Nat /\ n \in Nat
    BY <1>t, <1>5
  <2>3. \A a, b \in 1..Len(timers) : timers[a].id = timers[b].id => a = b
    BY <1>i
  <2>4. CASE m <= k
    <3>1. m \in 1..Len(timers) /\ timers'[m] = timers[m]
      BY <1>9, <2>2, <2>4
    <3>2. n # k + 1
      BY <1>n, <1>2, <1>9, <2>1, <3>1
    <3>3. CASE n <= k
      BY <1>9, <2>1, <2>2, <2>3, <3>1, <3>3
    <3>4. CASE n > k + 1
      <4>1. n - 1 \in 1..Len(timers) /\ timers'[n] = timers[n - 1]
        BY <1>9, <2>2, <3>4
      <4>2. m = n - 1
        BY <2>1, <2>3, <3>1, <4>1
      <4>3. QED
        BY <2>2, <2>4, <3>4, <4>2
    <3>5. QED
      BY <2>2, <3>2, <3>3, <3>4
  <2>5. CASE m = k + 1
    <3>1. timers'[m].id = id
      BY <1>2, <1>9, <2>2, <2>5
    <3>2. QED
      BY <1>n, <1>9, <2>1, <2>5, <3>1
  <2>6. CASE m > k + 1
    <3>1. m - 1 \in 1..Len(timers) /\ timers'[m] = timers[m - 1]
      BY <1>9, <2>2, <2>6
    <3>2. n # k + 1
      BY <1>n, <1>2, <1>9, <2>1, <3>1
    <3>3. CASE n <= k
      <4>1. n \in 1..Len(timers) /\ timers'[n] = timers[n]
        BY <1>9, <2>2, <3>3
      <4>2. m - 1 = n
        BY <2>1, <2>3, <3>1, <4>1
      <4>3. QED
        BY <2>2, <2>6, <3>3, <4>2
    <3>4. CASE n > k + 1
      <4>1. n - 1 \in 1..Len(timers) /\ timers'[n] = timers[n - 1]
        BY <1>9, <2>2, <3>4
      <4>2. m - 1 = n - 1
        BY <2>1, <2>3, <3>1, <4>1
      <4>3. QED
        BY <2>2, <4>2
    <3>5. QED
      BY <2>2, <3>2, <3>3, <3>4
  <2>7. QED
    BY <2>2, <2>4, <2>5, <2>6
<1>11. \A n \in 1..Len(timers') : timers'[n].id \notin fired'
  BY <1>f, <1>n, <1>u, <1>2, <1>9
<1>12. timers' \in Seq([id : TimerIds, expires : 0..MaxTime])
  BY <1>5 DEF T
<1>13. QED
  BY <1>t, <1>u, <1>8, <1>10, <1>11, <1>12 DEF TimerInv

\* Phase 1 takes the first timer off the list.
LEMMA FireTimerStep ==
    ASSUME LoopAssumption, TimerInv, FireTimer
    PROVE  /\ TimerInv'
           /\ fired' = fired \cup {timers[1].id}
           /\ Len(timers) \in Nat \ {0}
           /\ Len(timers') = Len(timers) - 1
           /\ \A n \in 1..(Len(timers) - 1) : timers'[n] = timers[n + 1]
<1>1. PICK U : U = [id : TimerIds, expires : 0..MaxTime]
  OBVIOUS
<1>t. timers \in Seq(U) /\ timers # <<>> /\ fired \subseteq TimerIds
  BY <1>1 DEF TimerInv, FireTimer, HeadExpired
<1>o. \A m, n \in 1..Len(timers) : m < n => timers[m].expires <= timers[n].expires
  BY DEF TimerInv
<1>i. \A m, n \in 1..Len(timers) : timers[m].id = timers[n].id => m = n
  BY DEF TimerInv
<1>f. \A n \in 1..Len(timers) : timers[n].id \notin fired
  BY DEF TimerInv
<1>u. clock' = clock /\ now' = now /\ clock \in 0..MaxTime /\ now \in 0..MaxTime
  BY DEF FireTimer, pollVars, TimerInv
<1>2. fired' = fired \cup {timers[1].id}
  BY DEF FireTimer
<1>3. PICK r : r = Tail(timers)
  OBVIOUS
<1>4. timers' = r
  BY <1>3 DEF FireTimer
<1>5. /\ Len(timers) \in Nat \ {0} /\ Head(timers) = timers[1] /\ Head(timers) \in U
      /\ r \in Seq(U) /\ Len(r) = Len(timers) - 1
      /\ \A n \in 1..(Len(timers) - 1) : r[n] = timers[n + 1]
  BY <1>t, <1>3, TakeHead
<1>6. timers[1].id \in TimerIds
  BY <1>1, <1>5
<1>7. \A n \in 1..Len(r) : n + 1 \in 1..Len(timers) /\ r[n] = timers[n + 1] /\ n + 1 # 1
  BY <1>5
<1>8. \A m, n \in 1..Len(r) : m < n => r[m].expires <= r[n].expires
  <2>1. SUFFICES ASSUME NEW m \in 1..Len(r), NEW n \in 1..Len(r), m < n
                 PROVE  r[m].expires <= r[n].expires
    OBVIOUS
  <2>2. m + 1 < n + 1
    BY <1>5, <2>1
  <2>3. QED
    BY <1>o, <1>7, <2>2
<1>9. \A m, n \in 1..Len(r) : r[m].id = r[n].id => m = n
  <2>1. SUFFICES ASSUME NEW m \in 1..Len(r), NEW n \in 1..Len(r), r[m].id = r[n].id
                 PROVE  m = n
    OBVIOUS
  <2>2. m + 1 = n + 1
    BY <1>i, <1>7, <2>1
  <2>3. QED
    BY <1>5, <2>2
<1>10. \A n \in 1..Len(r) : r[n].id \notin fired'
  <2>1. SUFFICES ASSUME NEW n \in 1..Len(r) PROVE r[n].id \notin fired'
    OBVIOUS
  <2>2. 1 \in 1..Len(timers) /\ n + 1 \in 1..Len(timers) /\ n + 1 # 1 /\ r[n] = timers[n + 1]
    BY <1>5, <1>7
  <2>3. timers[n + 1].id # timers[1].id
    BY <1>i, <2>2
  <2>4. QED
    BY <1>2, <1>f, <2>2, <2>3
<1>11. timers' \in Seq([id : TimerIds, expires : 0..MaxTime])
  BY <1>1, <1>4, <1>5
<1>12. TimerInv'
  BY <1>t, <1>u, <1>2, <1>4, <1>6, <1>8, <1>9, <1>10, <1>11 DEF TimerInv
<1>13. QED
  BY <1>2, <1>4, <1>5, <1>12

\* The other actions change at most the clock and el_run's copy of it.
LEMMA NextTimerInv ==
    ASSUME LoopAssumption, TimerInv, [Next]_vars
    PROVE  TimerInv'
<1>1. \/ \E id \in TimerIds, d \in Delays : SetTimeout(id, d)
      \/ FireTimer
      \/ PollReturn
      \/ TimePasses
      \/ UNCHANGED <<timers, fired, clock, now>>
  BY DEF Next, ApiCall, LoopStep, SetImmediate, ClearImmediate, AddIO, RemoveIO, UnrefIO,
         RefIO, Stop, SubmitWork, CallbackReturn, LeaveLoop, EnterPoll, TimersDone, WalkIO,
         WalkDone, DrainItem, DrainDone, RunImmediate, DrainMicrotasks, DescriptorReady,
         timerVars, checkVars, ioVars, pollVars, poolVars, vars
<1>2. ASSUME NEW id \in TimerIds, NEW d \in Delays, SetTimeout(id, d) PROVE TimerInv'
  BY <1>2, SetTimeoutStep
<1>3. CASE FireTimer
  BY <1>3, FireTimerStep
<1>4. CASE PollReturn
  BY <1>4 DEF PollReturn, TimerInv, timerVars
<1>5. CASE TimePasses
  <2>1. UNCHANGED <<timers, fired, now>>
    BY <1>5 DEF TimePasses, timerVars, pollVars
  <2>2. clock' \in 0..MaxTime
    BY <1>5 DEF TimePasses, TimerInv, LoopAssumption
  <2>3. QED
    BY <2>1, <2>2 DEF TimerInv
<1>6. CASE UNCHANGED <<timers, fired, clock, now>>
  BY <1>6 DEF TimerInv
<1>7. QED
  BY <1>1, <1>2, <1>3, <1>4, <1>5, <1>6

-----------------------------------------------------------------------------
(* The queue of immediates *)

\* Unlinking a node from a list without duplicates removes that node only.
LEMMA UnlinkNode ==
    ASSUME NEW S, NEW s \in Seq(S), IsInjective(s), NEW x \in Range(s)
    PROVE  /\ Position(s, x) \in 1..Len(s)
           /\ s[Position(s, x)] = x
           /\ Unlink(s, x) = Without(s, Position(s, x))
           /\ Unlink(s, x) \in Seq(S)
           /\ IsInjective(Unlink(s, x))
           /\ Range(Unlink(s, x)) = Range(s) \ {x}
<1>d. DOMAIN s = 1..Len(s) /\ Len(s) \in Nat
  OBVIOUS
<1>1. Position(s, x) \in 1..Len(s) /\ s[Position(s, x)] = x
  BY <1>d DEF Position, Range
<1>2. PICK n : n = Position(s, x)
  OBVIOUS
<1>3. n \in 1..Len(s) /\ s[n] = x
  BY <1>1, <1>2
<1>4. PICK r : r = Without(s, n)
  OBVIOUS
<1>5. Unlink(s, x) = r
  BY <1>2, <1>4 DEF Unlink, Without
<1>6. /\ r \in Seq(S) /\ Len(r) = Len(s) - 1
      /\ \A i \in 1..(Len(s) - 1) : (i < n => r[i] = s[i]) /\ (i >= n => r[i] = s[i + 1])
  BY <1>3, <1>4, Unlinked
<1>7. DOMAIN r = 1..(Len(s) - 1)
  BY <1>6
<1>8. \A a, b \in 1..Len(s) : s[a] = s[b] => a = b
  BY <1>d DEF IsInjective
<1>9. \A i \in 1..(Len(s) - 1) : \E j \in 1..Len(s) :
         r[i] = s[j] /\ j # n /\ ((i < n /\ j = i) \/ (i >= n /\ j = i + 1))
  <2>1. SUFFICES ASSUME NEW i \in 1..(Len(s) - 1)
                 PROVE  \E j \in 1..Len(s) :
                           r[i] = s[j] /\ j # n /\ ((i < n /\ j = i) \/ (i >= n /\ j = i + 1))
    OBVIOUS
  <2>2. CASE i < n
    <3>1. i \in 1..Len(s) /\ i # n /\ r[i] = s[i]
      BY <1>d, <1>3, <1>6, <2>2
    <3>2. QED
      BY <2>2, <3>1
  <2>3. CASE i >= n
    <3>1. i + 1 \in 1..Len(s) /\ i + 1 # n /\ r[i] = s[i + 1]
      BY <1>d, <1>3, <1>6, <2>3
    <3>2. QED
      BY <2>3, <3>1
  <2>4. QED
    BY <1>d, <1>3, <2>2, <2>3
<1>10. \A a, b \in 1..(Len(s) - 1) : r[a] = r[b] => a = b
  <2>1. SUFFICES ASSUME NEW a \in 1..(Len(s) - 1), NEW b \in 1..(Len(s) - 1), r[a] = r[b]
                 PROVE  a = b
    OBVIOUS
  <2>2. PICK j \in 1..Len(s) : r[a] = s[j] /\ ((a < n /\ j = a) \/ (a >= n /\ j = a + 1))
    BY <1>9
  <2>3. PICK k \in 1..Len(s) : r[b] = s[k] /\ ((b < n /\ k = b) \/ (b >= n /\ k = b + 1))
    BY <1>9
  <2>4. j = k
    BY <1>8, <2>1, <2>2, <2>3
  <2>5. QED
    BY <1>d, <1>3, <2>2, <2>3, <2>4
<1>11. IsInjective(r)
  BY <1>7, <1>10 DEF IsInjective
<1>12. Range(r) = Range(s) \ {x}
  <2>1. ASSUME NEW y \in Range(r) PROVE y \in Range(s) \ {x}
    <3>1. PICK i \in 1..(Len(s) - 1) : y = r[i]
      BY <1>7 DEF Range
    <3>2. PICK j \in 1..Len(s) : r[i] = s[j] /\ j # n
      BY <1>9
    <3>3. s[j] # x
      BY <1>3, <1>8, <3>2
    <3>4. QED
      BY <1>d, <3>1, <3>2, <3>3 DEF Range
  <2>2. ASSUME NEW y \in Range(s) \ {x} PROVE y \in Range(r)
    <3>1. PICK j \in 1..Len(s) : y = s[j]
      BY <1>d DEF Range
    <3>2. j # n
      BY <1>3, <3>1
    <3>3. CASE j < n
      <4>1. j \in 1..(Len(s) - 1) /\ r[j] = s[j]
        BY <1>d, <1>3, <1>6, <3>3
      <4>2. QED
        BY <1>7, <3>1, <4>1 DEF Range
    <3>4. CASE j > n
      <4>1. PICK i \in 1..(Len(s) - 1) : j = i + 1 /\ i >= n
        <5>1. j - 1 \in 1..(Len(s) - 1) /\ j = (j - 1) + 1 /\ j - 1 >= n
          BY <1>d, <1>3, <3>4
        <5>2. QED
          BY <5>1
      <4>2. r[i] = s[j]
        BY <1>6, <4>1
      <4>3. QED
        BY <1>7, <3>1, <4>2 DEF Range
    <3>5. QED
      BY <1>d, <1>3, <3>2, <3>3, <3>4
  <2>3. QED
    BY <2>1, <2>2
<1>13. QED
  BY <1>1, <1>2, <1>4, <1>5, <1>6, <1>11, <1>12

\* el_set_immediate, clearImmediate() and Phase 4 keep the queue in step with
\* the immediates that have run or been cancelled.
LEMMA NextCheckInv ==
    ASSUME LoopAssumption, CheckInv, [Next]_vars
    PROVE  CheckInv'
<1>t. /\ checks \in Seq(CheckIds) /\ ran \subseteq CheckIds /\ cleared \subseteq CheckIds
      /\ IsInjective(checks)
  BY DEF CheckInv
<1>i. /\ Range(checks) \cap ran = {}
      /\ Range(checks) \cap cleared \cap Fits32 = {}
      /\ ran \cap cleared \cap Fits32 = {}
  BY DEF CheckInv
<1>1. \/ \E c \in CheckIds : SetImmediate(c)
      \/ \E c \in CheckIds : ClearImmediate(c)
      \/ RunImmediate
      \/ UNCHANGED <<checks, ran, cleared>>
  BY DEF Next, ApiCall, LoopStep, SetTimeout, AddIO, RemoveIO, UnrefIO,
         RefIO, Stop, SubmitWork, CallbackReturn, LeaveLoop, EnterPoll, PollReturn, FireTimer,
         TimersDone, WalkIO, WalkDone, DrainItem, DrainDone, DrainMicrotasks, TimePasses,
         DescriptorReady, timerVars, checkVars, ioVars, pollVars, poolVars, vars
<1>2. ASSUME NEW c \in CheckIds, SetImmediate(c) PROVE CheckInv'
  <2>1. c \notin Range(checks) /\ c \notin ran /\ c \notin cleared
    BY <1>2 DEF SetImmediate, UsedChecks
  <2>2. checks' = Append(checks, c) /\ ran' = ran /\ cleared' = cleared
    BY <1>2 DEF SetImmediate
  <2>3. PICK q : q = Append(checks, c)
    OBVIOUS
  <2>4. q \in Seq(CheckIds) /\ IsInjective(q) /\ Range(q) = Range(checks) \cup {c}
    BY <1>t, <2>1, <2>3, Enqueue
  <2>5. checks' = q
    BY <2>2, <2>3
  <2>6. QED
    BY <1>t, <1>i, <2>1, <2>2, <2>4, <2>5 DEF CheckInv
<1>3. ASSUME NEW c \in CheckIds, ClearImmediate(c) PROVE CheckInv'
  <2>1. c \in Range(checks) /\ ran' = ran /\ cleared' = cleared \cup {c}
    BY <1>3 DEF ClearImmediate
  <2>2. CASE c \in Fits32
    <3>1. checks' = Unlink(checks, c)
      BY <1>3, <2>2 DEF ClearImmediate, RemoveCheck
    <3>2. PICK q : q = Unlink(checks, c)
      OBVIOUS
    <3>3. q \in Seq(CheckIds) /\ IsInjective(q) /\ Range(q) = Range(checks) \ {c}
      BY <1>t, <2>1, <3>2, UnlinkNode
    <3>4. checks' = q
      BY <3>1, <3>2
    <3>5. QED
      BY <1>t, <1>i, <2>1, <3>3, <3>4 DEF CheckInv
  <2>3. CASE c \notin Fits32
    <3>1. checks' = checks
      BY <1>3, <2>3 DEF ClearImmediate
    <3>2. QED
      BY <1>t, <1>i, <2>1, <2>3, <3>1 DEF CheckInv
  <2>4. QED
    BY <2>2, <2>3
<1>4. CASE RunImmediate
  <2>1. /\ checks # <<>> /\ checks' = Tail(checks)
        /\ ran' = ran \cup {Head(checks)} /\ cleared' = cleared
    BY <1>4 DEF RunImmediate
  <2>2. PICK x : x = Head(checks)
    OBVIOUS
  <2>3. PICK q : q = Tail(checks)
    OBVIOUS
  <2>4. /\ x \in CheckIds /\ x \in Range(checks) /\ q \in Seq(CheckIds)
        /\ Range(q) = Range(checks) \ {x} /\ IsInjective(q)
    BY <1>t, <2>1, <2>2, <2>3, Dequeue
  <2>5. checks' = q /\ ran' = ran \cup {x} /\ cleared' = cleared
    BY <2>1, <2>2, <2>3
  <2>6. QED
    BY <1>t, <1>i, <2>4, <2>5 DEF CheckInv
<1>5. CASE UNCHANGED <<checks, ran, cleared>>
  BY <1>5 DEF CheckInv
<1>6. QED
  BY <1>1, <1>2, <1>3, <1>4, <1>5

-----------------------------------------------------------------------------
(* The operations of the pool *)

\* tp_pending_count() stays the number of operations that are not settled, so
\* it is 0 only when every one of them is idle or settled.
LEMMA NextPoolInv ==
    ASSUME LoopAssumption, PoolInv, [Next]_vars
    PROVE  PoolInv'
<1> DEFINE States == {"idle", "pending", "calling", "settled"}
<1>t. /\ opState \in [Items -> States] /\ calling \in [{Thread} -> Items \cup {NULL}]
      /\ NULL \notin Items /\ IsFiniteSet(Items)
  BY DEF PoolInv, LoopAssumption
<1>c. calling[Thread] # NULL => opState[calling[Thread]] = "calling"
  BY DEF PoolInv
<1>n. inFlight = Cardinality(Unsettled)
  BY DEF PoolInv
<1>f. IsFiniteSet(Unsettled)
  BY <1>t, FS_Subset DEF Unsettled
<1>1. \/ \E i \in Items : SubmitWork(i)
      \/ \E i \in Items : DrainItem(i)
      \/ CallbackReturn /\ calling[Thread] # NULL
      \/ UNCHANGED <<opState, calling, inFlight>>
  BY DEF Next, ApiCall, LoopStep, SetTimeout, SetImmediate, ClearImmediate, AddIO, RemoveIO,
         UnrefIO, RefIO, Stop, CallbackReturn, LeaveLoop, EnterPoll, PollReturn, FireTimer,
         TimersDone, WalkIO, WalkDone, DrainDone, RunImmediate, DrainMicrotasks, TimePasses,
         DescriptorReady, poolVars, vars
<1>2. ASSUME NEW i \in Items, SubmitWork(i) PROVE PoolInv'
  <2>1. /\ opState[i] = "idle" /\ opState' = [opState EXCEPT ![i] = "pending"]
        /\ inFlight' = inFlight + 1 /\ calling' = calling
    BY <1>2 DEF SubmitWork, Pool!Submit
  <2>2. opState' \in [Items -> States] /\ \A j \in Items : opState'[j] = IF j = i THEN "pending" ELSE opState[j]
    BY <1>t, <2>1
  <2>3. Unsettled' = Unsettled \cup {i} /\ i \notin Unsettled
    BY <2>1, <2>2 DEF Unsettled
  <2>4. Cardinality(Unsettled') = Cardinality(Unsettled) + 1
    BY <1>f, <2>3, FS_AddElement
  <2>5. calling'[Thread] # NULL => opState'[calling'[Thread]] = "calling"
    BY <1>t, <1>c, <2>1, <2>2
  <2>6. QED
    BY <1>t, <1>n, <2>1, <2>2, <2>4, <2>5 DEF PoolInv
<1>3. ASSUME NEW i \in Items, DrainItem(i) PROVE PoolInv'
  <2>1. /\ opState[i] = "pending" /\ opState' = [opState EXCEPT ![i] = "calling"]
        /\ calling' = [calling EXCEPT ![Thread] = i] /\ inFlight' = inFlight
    BY <1>3 DEF DrainItem, Pool!CallAfter
  <2>2. opState' \in [Items -> States] /\ \A j \in Items : opState'[j] = IF j = i THEN "calling" ELSE opState[j]
    BY <1>t, <2>1
  <2>3. calling' \in [{Thread} -> Items \cup {NULL}] /\ calling'[Thread] = i
    BY <1>t, <2>1
  <2>4. Unsettled' = Unsettled
    BY <2>1, <2>2 DEF Unsettled
  <2>5. Cardinality(Unsettled') = Cardinality(Unsettled)
    BY <2>4
  <2>6. QED
    BY <1>n, <2>1, <2>2, <2>3, <2>5 DEF PoolInv
<1>4. CASE CallbackReturn /\ calling[Thread] # NULL
  <2>1. PICK i : i = calling[Thread]
    OBVIOUS
  <2>2. i \in Items /\ opState[i] = "calling"
    BY <1>t, <1>c, <1>4, <2>1
  <2>3. /\ opState' = [opState EXCEPT ![i] = "settled"]
        /\ calling' = [calling EXCEPT ![Thread] = NULL] /\ inFlight' = inFlight - 1
    BY <1>4, <2>1 DEF CallbackReturn, Pool!Settle
  <2>4. opState' \in [Items -> States] /\ \A j \in Items : opState'[j] = IF j = i THEN "settled" ELSE opState[j]
    BY <1>t, <2>2, <2>3
  <2>5. calling' \in [{Thread} -> Items \cup {NULL}] /\ calling'[Thread] = NULL
    BY <1>t, <2>3
  <2>6. Unsettled' = Unsettled \ {i} /\ i \in Unsettled
    BY <2>2, <2>4 DEF Unsettled
  <2>7. Cardinality(Unsettled') = Cardinality(Unsettled) - 1
    BY <1>f, <2>6, FS_RemoveElement
  <2>8. QED
    BY <1>n, <2>3, <2>4, <2>5, <2>7 DEF PoolInv
<1>5. CASE UNCHANGED <<opState, calling, inFlight>>
  BY <1>5 DEF PoolInv, Unsettled
<1>6. QED
  BY <1>1, <1>2, <1>3, <1>4, <1>5

-----------------------------------------------------------------------------
(* el_run's control *)

\* The wait that poll() is given is an integer, whatever the conversion to int
\* makes of it.
LEMMA PollTimeoutType ==
    ASSUME LoopAssumption, TimerInv
    PROVE  PollTimeout \in Int
<1>t. IntMax \in Nat /\ PoolWait \in Nat /\ MaxTime \in Nat /\ clock \in Int
  BY DEF LoopAssumption, TimerInv
<1>1. \A x \in Int : ToInt(x) \in Int
  <2>1. \A y \in Int, m \in Nat \ {0} : y % m \in Int
    OBVIOUS
  <2>2. 2 * (IntMax + 1) \in Nat \ {0}
    BY <1>t
  <2>3. \A x \in Int : x + IntMax + 1 \in Int
    BY <1>t
  <2>4. \A x \in Int : (x + IntMax + 1) % (2 * (IntMax + 1)) \in Int
    BY <2>1, <2>2, <2>3
  <2>5. QED
    BY <1>t, <2>4 DEF ToInt
<1>2. ASSUME timers # <<>> PROVE timers[1].expires \in Int
  <2>1. PICK U : U = [id : TimerIds, expires : 0..MaxTime]
    OBVIOUS
  <2>2. timers \in Seq(U)
    BY <2>1 DEF TimerInv
  <2>3. timers[1] \in U
    BY <1>2, <2>2, TakeHead
  <2>4. QED
    BY <1>t, <2>1, <2>3
<1>3. TimerWait \in Int
  <2>1. CASE timers = <<>>
    BY <2>1 DEF TimerWait
  <2>2. CASE timers # <<>>
    <3>1. timers[1].expires - clock \in Int
      BY <1>t, <1>2, <2>2
    <3>2. ToInt(timers[1].expires - clock) \in Int
      BY <1>1, <3>1
    <3>3. QED
      BY <2>2, <3>2 DEF TimerWait
  <2>3. QED
    BY <2>1, <2>2
<1>4. QED
  BY <1>t, <1>3 DEF PollTimeout

\* el_run leaves the loop by itself only when has_work is false, and nothing
\* moves in the loop's structures after it has returned.
LEMMA NextControlInv ==
    ASSUME LoopAssumption, TimerInv, PoolInv, ControlInv, [Next]_vars
    PROVE  ControlInv'
<1>t. /\ stopFlag \in BOOLEAN /\ inCallback \in BOOLEAN /\ pc \in Phases /\ deadline \in Int
      /\ inCallback => pc \notin {"top", "poll", "exited"}
      /\ ExitsOnlyWhenIdle
  BY DEF ControlInv
<1>1. /\ stopFlag' \in BOOLEAN /\ inCallback' \in BOOLEAN /\ pc' \in Phases
      /\ inCallback' => pc' \notin {"top", "poll", "exited"}
  <2>1. stopFlag' \in BOOLEAN /\ inCallback' \in BOOLEAN
    BY <1>t DEF Next, ApiCall, LoopStep, SetTimeout, SetImmediate, ClearImmediate, AddIO,
         RemoveIO, UnrefIO, RefIO, Stop, SubmitWork, CallbackReturn, LeaveLoop, EnterPoll,
         PollReturn, FireTimer, TimersDone, WalkIO, WalkDone, DrainItem, DrainDone,
         RunImmediate, DrainMicrotasks, TimePasses, DescriptorReady, vars
  <2>2. pc' \in Phases
    BY <1>t DEF Next, ApiCall, LoopStep, SetTimeout, SetImmediate, ClearImmediate, AddIO,
         RemoveIO, UnrefIO, RefIO, Stop, SubmitWork, CallbackReturn, LeaveLoop, EnterPoll,
         PollReturn, FireTimer, TimersDone, WalkIO, WalkDone, DrainItem, DrainDone,
         RunImmediate, DrainMicrotasks, TimePasses, DescriptorReady, Phases, vars
  <2>3. inCallback' => pc' \notin {"top", "poll", "exited"}
    BY <1>t DEF Next, ApiCall, LoopStep, SetTimeout, SetImmediate, ClearImmediate, AddIO,
         RemoveIO, UnrefIO, RefIO, Stop, SubmitWork, CallbackReturn, LeaveLoop, EnterPoll,
         PollReturn, FireTimer, TimersDone, WalkIO, WalkDone, DrainItem, DrainDone,
         RunImmediate, DrainMicrotasks, TimePasses, DescriptorReady, vars
  <2>4. QED
    BY <2>1, <2>2, <2>3
<1>2. deadline' \in Int
  <2>1. EnterPoll \/ deadline' = -1 \/ deadline' = deadline
    BY DEF Next, ApiCall, LoopStep, SetTimeout, SetImmediate, ClearImmediate, AddIO,
         RemoveIO, UnrefIO, RefIO, Stop, SubmitWork, CallbackReturn, LeaveLoop,
         PollReturn, FireTimer, TimersDone, WalkIO, WalkDone, DrainItem, DrainDone,
         RunImmediate, DrainMicrotasks, TimePasses, DescriptorReady, pollVars, vars
  <2>2. ASSUME EnterPoll PROVE deadline' \in Int
    <3>1. PollTimeout \in Int
      BY PollTimeoutType
    <3>c. clock \in Int
      BY DEF TimerInv, LoopAssumption
    <3>2. deadline' = IF PollTimeout < 0 THEN -1 ELSE clock + PollTimeout
      BY <2>2 DEF EnterPoll
    <3>3. QED
      BY <3>1, <3>c, <3>2
  <2>3. QED
    BY <1>t, <2>1, <2>2
<1>3. ExitsOnlyWhenIdle'
  <2>1. CASE pc = "exited"
    <3>1. ~inCallback
      BY <1>t, <2>1
    <3>2. UNCHANGED <<timers, checks, ioList, unrefed, opState, stopFlag, pc>>
      BY <2>1, <3>1 DEF Next, ApiCall, LoopStep, SetTimeout, SetImmediate, ClearImmediate,
         AddIO, RemoveIO, UnrefIO, RefIO, Stop, SubmitWork, CallbackReturn, LeaveLoop,
         EnterPoll, PollReturn, FireTimer, TimersDone, WalkIO, WalkDone, DrainItem, DrainDone,
         RunImmediate, DrainMicrotasks, TimePasses, DescriptorReady, timerVars, checkVars,
         ioVars, poolVars, vars
    <3>3. QED
      BY <1>t, <3>2 DEF ExitsOnlyWhenIdle
  <2>2. CASE LeaveLoop
    <3>1. UNCHANGED <<timers, checks, ioList, unrefed, opState, stopFlag>>
      BY <2>2 DEF LeaveLoop, timerVars, checkVars, ioVars, poolVars
    <3>2. ASSUME ~stopFlag
          PROVE  /\ timers = <<>> /\ checks = <<>>
                 /\ \A h \in Range(ioList) : h \in unrefed
                 /\ \A i \in Items : opState[i] \in {"idle", "settled"}
      <4>1. /\ timers = <<>> /\ checks = <<>> /\ Range(ioList) \ unrefed = {}
            /\ ~(inFlight > 0)
        BY <2>2, <3>2 DEF LeaveLoop, HasWork
      <4>2. IsFiniteSet(Unsettled)
        BY FS_Subset DEF Unsettled, LoopAssumption
      <4>3. Cardinality(Unsettled) \in Nat /\ inFlight = Cardinality(Unsettled)
        BY <4>2, FS_CardinalityType DEF PoolInv
      <4>4. Unsettled = {}
        BY <4>1, <4>2, <4>3, FS_EmptySet
      <4>5. \A i \in Items : opState[i] \in {"idle", "settled"}
        BY <4>4 DEF Unsettled, PoolInv
      <4>6. QED
        BY <4>1, <4>5
    <3>3. QED
      BY <3>1, <3>2 DEF ExitsOnlyWhenIdle
  <2>3. CASE pc # "exited" /\ ~LeaveLoop
    <3>1. pc' # "exited"
      BY <1>t, <2>3 DEF Next, ApiCall, LoopStep, SetTimeout, SetImmediate, ClearImmediate, AddIO,
         RemoveIO, UnrefIO, RefIO, Stop, SubmitWork, CallbackReturn, EnterPoll,
         PollReturn, FireTimer, TimersDone, WalkIO, WalkDone, DrainItem, DrainDone,
         RunImmediate, DrainMicrotasks, TimePasses, DescriptorReady, vars
    <3>2. QED
      BY <3>1 DEF ExitsOnlyWhenIdle
  <2>4. QED
    BY <2>1, <2>2, <2>3
<1>4. QED
  BY <1>1, <1>2, <1>3 DEF ControlInv

-----------------------------------------------------------------------------
(* The list of I/O handles *)

\* el_add_io links a handle in at the head.
LEMMA AddIOList ==
    ASSUME ListTypes, NEW h \in Handles, AddIO(h)
    PROVE  /\ ioList' \in Seq(Handles) /\ IsInjective(ioList')
           /\ Len(ioList') = Len(ioList) + 1 /\ Len(ioList) \in Nat
           /\ \A i \in 1..Len(ioList) : ioList'[i + 1] = ioList[i]
<1>t. ioList \in Seq(Handles) /\ h \notin Range(ioList) /\ ioList' = <<h>> \o ioList
  BY DEF ListTypes, AddIO
<1>u. \A a, b \in 1..Len(ioList) : ioList[a] = ioList[b] => a = b
  BY <1>t DEF ListTypes, IsInjective
<1>v. \A a \in 1..Len(ioList) : ioList[a] # h
  BY <1>t DEF Range
<1>1. PICK s : s = ioList
  OBVIOUS
<1>2. PICK b : b = <<h>>
  OBVIOUS
<1>3. PICK r : r = b \o s
  OBVIOUS
<1>4. s \in Seq(Handles) /\ Len(s) \in Nat /\ b \in Seq(Handles) /\ Len(b) = 1 /\ b[1] = h
  BY <1>t, <1>1, <1>2
<1>5. /\ r \in Seq(Handles) /\ Len(r) = Len(b) + Len(s)
      /\ \A i \in 1..(Len(b) + Len(s)) : r[i] = IF i <= Len(b) THEN b[i] ELSE s[i - Len(b)]
  BY <1>3, <1>4, ConcatProperties
<1>6. Len(r) = Len(s) + 1
  BY <1>4, <1>5
<1>7. ASSUME NEW i \in 1..Len(s) PROVE r[i + 1] = s[i]
  <2>1. i + 1 \in 1..(1 + Len(s)) /\ ~(i + 1 <= 1) /\ (i + 1) - 1 = i
    BY <1>4
  <2>2. r[i + 1] = IF i + 1 <= 1 THEN b[i + 1] ELSE s[(i + 1) - 1]
    BY <1>4, <1>5, <2>1
  <2>3. QED
    BY <2>1, <2>2
<1>8. r[1] = h
  BY <1>4, <1>5
<1>9. ASSUME NEW x \in 1..(Len(s) + 1)
      PROVE  (x = 1 /\ r[x] = h) \/ (x - 1 \in 1..Len(s) /\ r[x] = s[x - 1])
  <2>1. CASE x = 1
    BY <1>8, <2>1
  <2>2. CASE x # 1
    <3>1. x - 1 \in 1..Len(s) /\ (x - 1) + 1 = x
      BY <1>4, <2>2
    <3>2. QED
      BY <1>7, <3>1
  <2>3. QED
    BY <2>1, <2>2
<1>10. \A x, y \in 1..(Len(s) + 1) : r[x] = r[y] => x = y
  <2>1. SUFFICES ASSUME NEW x \in 1..(Len(s) + 1), NEW y \in 1..(Len(s) + 1), r[x] = r[y]
                 PROVE  x = y
    OBVIOUS
  <2>2. CASE x = 1 \/ y = 1
    BY <1>1, <1>v, <1>9, <2>1, <2>2
  <2>3. CASE x # 1 /\ y # 1
    <3>1. x - 1 \in 1..Len(s) /\ y - 1 \in 1..Len(s) /\ s[x - 1] = s[y - 1]
      BY <1>9, <2>1, <2>3
    <3>2. x - 1 = y - 1
      BY <1>1, <1>u, <3>1
    <3>3. QED
      BY <1>4, <3>2
  <2>4. QED
    BY <2>2, <2>3
<1>11. DOMAIN r = 1..(Len(s) + 1)
  BY <1>5, <1>6, LenProperties
<1>12. IsInjective(r)
  BY <1>10, <1>11 DEF IsInjective
<1>13. ioList' = r
  BY <1>t, <1>1, <1>2, <1>3
<1>14. QED
  BY <1>1, <1>4, <1>5, <1>6, <1>7, <1>12, <1>13

\* el_remove_io unlinks the handle, wherever it is.
LEMMA RemoveIOList ==
    ASSUME ListTypes, NEW h \in Handles, RemoveIO(h)
    PROVE  /\ ioList' \in Seq(Handles) /\ IsInjective(ioList') /\ Len(ioList) \in Nat
           /\ \E p \in 1..Len(ioList) :
                 /\ ioList[p] = h
                 /\ Len(ioList') = Len(ioList) - 1
                 /\ \A i \in 1..(Len(ioList) - 1) : i >= p => ioList'[i] = ioList[i + 1]
<1>1. /\ ioList \in Seq(Handles) /\ IsInjective(ioList) /\ h \in Range(ioList)
      /\ ioList' = Unlink(ioList, h)
  BY DEF ListTypes, RemoveIO
<1>2. PICK p : p = Position(ioList, h)
  OBVIOUS
<1>3. /\ p \in 1..Len(ioList) /\ ioList[p] = h /\ Unlink(ioList, h) = Without(ioList, p)
      /\ Unlink(ioList, h) \in Seq(Handles) /\ IsInjective(Unlink(ioList, h))
  BY <1>1, <1>2, UnlinkNode
<1>4. PICK r : r = Without(ioList, p)
  OBVIOUS
<1>5. /\ Len(r) = Len(ioList) - 1
      /\ \A i \in 1..(Len(ioList) - 1) : i >= p => r[i] = ioList[i + 1]
  BY <1>1, <1>3, <1>4, Unlinked
<1>6. ioList' = r
  BY <1>1, <1>3, <1>4
<1>7. Len(ioList) \in Nat
  BY <1>1, LenProperties
<1>8. QED
  BY <1>1, <1>3, <1>5, <1>6, <1>7

\* The next pointer of a handle is a handle or NULL, removed or not.
LEMMA NextOfType ==
    ASSUME ListTypes, NEW h \in Handles
    PROVE  NextOf(h) \in Handles \cup {NULL}
<1>1. /\ ioList \in Seq(Handles) /\ IsInjective(ioList)
      /\ dangling \in [Handles -> Handles \cup {NULL}] /\ Len(ioList) \in Nat
  BY LenProperties DEF ListTypes
<1>2. CASE h \notin Range(ioList)
  BY <1>1, <1>2 DEF NextOf
<1>3. CASE h \in Range(ioList)
  <2>1. PICK p : p = Position(ioList, h)
    OBVIOUS
  <2>2. p \in 1..Len(ioList)
    BY <1>1, <1>3, <2>1, UnlinkNode
  <2>3. NextOf(h) = IF p = Len(ioList) THEN NULL ELSE ioList[p + 1]
    BY <1>3, <2>1 DEF NextOf
  <2>4. p # Len(ioList) => p + 1 \in 1..Len(ioList)
    BY <1>1, <2>2
  <2>5. p # Len(ioList) => ioList[p + 1] \in Handles
    BY <1>1, <2>4, ElementOfSeq
  <2>6. QED
    BY <2>3, <2>5
<1>4. QED
  BY <1>2, <1>3

\* Every step keeps the types of the list of handles and of what el_run
\* remembers of it.
LEMMA NextListTypes ==
    ASSUME LoopAssumption, ListTypes, [Next]_vars
    PROVE  ListTypes'
<1>t. /\ ioList \in Seq(Handles) /\ IsInjective(ioList)
      /\ dangling \in [Handles -> Handles \cup {NULL}]
      /\ unrefed \subseteq Handles /\ ready \subseteq Handles
      /\ pollFds \in Seq(Handles) /\ revents \subseteq 1..Len(pollFds)
      /\ walk \in Handles \cup {NULL} /\ slot \in Nat /\ disturbed \in BOOLEAN
  BY DEF ListTypes
<1>1. ioList' \in Seq(Handles) /\ IsInjective(ioList')
  <2>1. (\E h \in Handles : AddIO(h) \/ RemoveIO(h)) \/ ioList' = ioList
    BY DEF Next, ApiCall, LoopStep, SetTimeout, SetImmediate, ClearImmediate, UnrefIO,
         RefIO, Stop, SubmitWork, CallbackReturn, LeaveLoop, EnterPoll, PollReturn, FireTimer,
         TimersDone, WalkIO, WalkDone, DrainItem, DrainDone, RunImmediate, DrainMicrotasks,
         TimePasses, DescriptorReady, ioVars, vars
  <2>2. ASSUME NEW h \in Handles, AddIO(h)
        PROVE  ioList' \in Seq(Handles) /\ IsInjective(ioList')
    BY <2>2, AddIOList
  <2>3. ASSUME NEW h \in Handles, RemoveIO(h)
        PROVE  ioList' \in Seq(Handles) /\ IsInjective(ioList')
    BY <2>3, RemoveIOList
  <2>4. QED
    BY <1>t, <2>1, <2>2, <2>3
<1>2. dangling' \in [Handles -> Handles \cup {NULL}]
  <2>1. (\E h \in Handles : RemoveIO(h)) \/ DrainDone \/ dangling' = dangling
    BY DEF Next, ApiCall, LoopStep, SetTimeout, SetImmediate, ClearImmediate, AddIO, UnrefIO,
         RefIO, Stop, SubmitWork, CallbackReturn, LeaveLoop, EnterPoll, PollReturn, FireTimer,
         TimersDone, WalkIO, WalkDone, DrainItem, RunImmediate, DrainMicrotasks,
         TimePasses, DescriptorReady, ioVars, vars
  <2>2. ASSUME NEW h \in Handles, RemoveIO(h)
        PROVE  dangling' \in [Handles -> Handles \cup {NULL}]
    <3>1. PICK x : x = NextOf(h)
      OBVIOUS
    <3>2. x \in Handles \cup {NULL}
      BY <3>1, NextOfType
    <3>3. dangling' = [dangling EXCEPT ![h] = x]
      BY <2>2, <3>1 DEF RemoveIO
    <3>4. QED
      BY <1>t, <3>2, <3>3
  <2>3. ASSUME DrainDone PROVE dangling' \in [Handles -> Handles \cup {NULL}]
    BY <2>3 DEF DrainDone
  <2>4. QED
    BY <1>t, <2>1, <2>2, <2>3
<1>3. unrefed' \subseteq Handles /\ ready' \subseteq Handles
  <2>1. unrefed' \subseteq Handles
    BY <1>t DEF Next, ApiCall, LoopStep, SetTimeout, SetImmediate, ClearImmediate, AddIO,
         RemoveIO, UnrefIO, RefIO, Stop, SubmitWork, CallbackReturn, LeaveLoop, EnterPoll,
         PollReturn, FireTimer, TimersDone, WalkIO, WalkDone, DrainItem, DrainDone,
         RunImmediate, DrainMicrotasks, TimePasses, DescriptorReady, ioVars, vars
  <2>2. ready' \subseteq Handles
    BY <1>t DEF Next, ApiCall, LoopStep, SetTimeout, SetImmediate, ClearImmediate, AddIO,
         RemoveIO, UnrefIO, RefIO, Stop, SubmitWork, CallbackReturn, LeaveLoop, EnterPoll,
         PollReturn, FireTimer, TimersDone, WalkIO, WalkDone, DrainItem, DrainDone,
         RunImmediate, DrainMicrotasks, TimePasses, DescriptorReady, vars
  <2>3. QED
    BY <2>1, <2>2
<1>4. pollFds' \in Seq(Handles) /\ revents' \subseteq 1..Len(pollFds')
  <2>1. EnterPoll \/ PollReturn \/ DrainDone \/ UNCHANGED <<pollFds, revents>>
    BY DEF Next, ApiCall, LoopStep, SetTimeout, SetImmediate, ClearImmediate, AddIO,
         RemoveIO, UnrefIO, RefIO, Stop, SubmitWork, CallbackReturn, LeaveLoop, FireTimer,
         TimersDone, WalkIO, WalkDone, DrainItem, RunImmediate, DrainMicrotasks,
         TimePasses, DescriptorReady, pollVars, vars
  <2>2. CASE EnterPoll
    <3>1. pollFds' = ioList /\ revents' = {}
      BY <2>2 DEF EnterPoll
    <3>2. QED
      BY <1>t, <3>1
  <2>3. CASE PollReturn
    <3>1. pollFds' = pollFds /\ revents' \subseteq DOMAIN pollFds
      BY <2>3 DEF PollReturn
    <3>2. DOMAIN pollFds = 1..Len(pollFds)
      BY <1>t, LenProperties
    <3>3. QED
      BY <1>t, <3>1, <3>2
  <2>4. CASE DrainDone
    <3>1. pollFds' = <<>> /\ revents' = {}
      BY <2>4 DEF DrainDone
    <3>2. QED
      BY <3>1
  <2>5. CASE UNCHANGED <<pollFds, revents>>
    BY <1>t, <2>5
  <2>6. QED
    BY <2>1, <2>2, <2>3, <2>4, <2>5
<1>5. walk' \in Handles \cup {NULL} /\ slot' \in Nat
  <2>1. \/ TimersDone \/ WalkIO
        \/ walk' = walk /\ (slot' = slot \/ slot' = 0)
    BY DEF Next, ApiCall, LoopStep, SetTimeout, SetImmediate, ClearImmediate, AddIO,
         RemoveIO, UnrefIO, RefIO, Stop, SubmitWork, CallbackReturn, LeaveLoop, EnterPoll,
         PollReturn, FireTimer, WalkDone, DrainItem, DrainDone, RunImmediate,
         DrainMicrotasks, TimePasses, DescriptorReady, pollVars, vars
  <2>2. CASE TimersDone
    <3>1. slot' = 1 /\ walk' = IF ioList = <<>> THEN NULL ELSE ioList[1]
      BY <2>2 DEF TimersDone
    <3>2. ioList # <<>> => ioList[1] \in Handles
      BY <1>t, TakeHead
    <3>3. QED
      BY <3>1, <3>2
  <2>3. CASE WalkIO
    <3>1. slot' = slot + 1 /\ walk' = NextOf(walk) /\ walk \in Handles
      BY <1>t, <2>3 DEF WalkIO
    <3>2. NextOf(walk) \in Handles \cup {NULL}
      BY <3>1, NextOfType
    <3>3. QED
      BY <1>t, <3>1, <3>2
  <2>4. QED
    BY <1>t, <2>1, <2>2, <2>3
<1>6. disturbed' \in BOOLEAN
  BY <1>t DEF Next, ApiCall, LoopStep, SetTimeout, SetImmediate, ClearImmediate, AddIO,
         RemoveIO, UnrefIO, RefIO, Stop, SubmitWork, CallbackReturn, LeaveLoop, EnterPoll,
         PollReturn, FireTimer, TimersDone, WalkIO, WalkDone, DrainItem, DrainDone,
         RunImmediate, DrainMicrotasks, TimePasses, DescriptorReady, ioVars, vars
<1>7. QED
  BY <1>1, <1>2, <1>3, <1>4, <1>5, <1>6 DEF ListTypes

-----------------------------------------------------------------------------
(* The walk of Phase 2 *)

\* A handle linked in at the head is behind the walk.
LEMMA AddIOWalk ==
    ASSUME ListTypes, ControlInv, WalkInv, NEW h \in Handles, AddIO(h)
    PROVE  WalkInv'
<1>1. /\ disturbed' = (disturbed \/ pc = "timers") /\ pc # "poll"
      /\ UNCHANGED <<pc, pollFds, revents, walk, slot, called>>
  BY DEF AddIO, ControlInv, pollVars
<1>2. /\ Len(ioList') = Len(ioList) + 1 /\ Len(ioList) \in Nat
      /\ \A i \in 1..Len(ioList) : ioList'[i + 1] = ioList[i]
  BY AddIOList
<1>3. Len(pollFds) \in Nat /\ slot \in Nat
  BY LenProperties DEF ListTypes
<1>4. ASSUME pc = "io", ~disturbed
      PROVE  Aligned' /\ ServedUpTo(slot)'
  <2>1. /\ slot \in 1..(Len(pollFds) + 1) /\ Len(ioList) >= Len(pollFds) - slot + 1
        /\ \A n \in 1..Len(pollFds) :
              n >= slot => ioList[n + Len(ioList) - Len(pollFds)] = pollFds[n]
        /\ walk = IF slot <= Len(pollFds) THEN pollFds[slot] ELSE NULL
    BY <1>4 DEF WalkInv, Aligned
  <2>2. ASSUME NEW n \in 1..Len(pollFds), n >= slot
        PROVE  ioList'[n + Len(ioList') - Len(pollFds)] = pollFds[n]
    <3>1. PICK j : j = n + Len(ioList) - Len(pollFds)
      OBVIOUS
    <3>2. j \in 1..Len(ioList) /\ n + Len(ioList') - Len(pollFds) = j + 1
      BY <1>2, <1>3, <2>1, <2>2, <3>1
    <3>3. ioList'[j + 1] = ioList[j] /\ ioList[j] = pollFds[n]
      BY <1>2, <2>1, <2>2, <3>1, <3>2
    <3>4. QED
      BY <3>2, <3>3
  <2>3. Len(ioList') >= Len(pollFds) - slot + 1
    BY <1>2, <1>3, <2>1
  <2>4. Aligned'
    BY <1>1, <2>1, <2>2, <2>3 DEF Aligned
  <2>5. ServedUpTo(slot)
    BY <1>4 DEF WalkInv
  <2>6. ServedUpTo(slot)'
    BY <1>1, <2>5 DEF ServedUpTo
  <2>7. QED
    BY <2>4, <2>6
<1>5. ASSUME pc = "drain", ~disturbed PROVE ServedUpTo(Len(pollFds) + 1)'
  <2>1. ServedUpTo(Len(pollFds) + 1)
    BY <1>5 DEF WalkInv
  <2>2. QED
    BY <1>1, <2>1 DEF ServedUpTo
<1>6. pc \notin {"io", "drain"} => called' = {}
  BY <1>1 DEF WalkInv
<1>7. QED
  BY <1>1, <1>4, <1>5, <1>6 DEF WalkInv

\* A handle removed behind the walk leaves the part ahead of it as it was.
LEMMA RemoveIOWalk ==
    ASSUME ListTypes, ControlInv, WalkInv, NEW h \in Handles, RemoveIO(h)
    PROVE  WalkInv'
<1>1. /\ disturbed' = (disturbed \/ StillToVisit(h)) /\ pc # "poll"
      /\ UNCHANGED <<pc, pollFds, revents, walk, slot, called>>
  BY DEF RemoveIO, ControlInv, pollVars
<1>2. PICK p \in 1..Len(ioList) :
         /\ ioList[p] = h
         /\ Len(ioList') = Len(ioList) - 1
         /\ \A i \in 1..(Len(ioList) - 1) : i >= p => ioList'[i] = ioList[i + 1]
  BY RemoveIOList
<1>3. Len(pollFds) \in Nat /\ slot \in Nat /\ Len(ioList) \in Nat /\ DOMAIN pollFds = 1..Len(pollFds)
  BY LenProperties DEF ListTypes
<1>4. ASSUME pc = "io", ~disturbed'
      PROVE  Aligned' /\ ServedUpTo(slot)'
  <2>0. ~disturbed /\ \A n \in 1..Len(pollFds) : n >= slot => pollFds[n] # h
    BY <1>1, <1>3, <1>4 DEF StillToVisit
  <2>1. /\ slot \in 1..(Len(pollFds) + 1) /\ Len(ioList) >= Len(pollFds) - slot + 1
        /\ \A n \in 1..Len(pollFds) :
              n >= slot => ioList[n + Len(ioList) - Len(pollFds)] = pollFds[n]
        /\ walk = IF slot <= Len(pollFds) THEN pollFds[slot] ELSE NULL
    BY <1>4, <2>0 DEF WalkInv, Aligned
  <2>2. p < slot + Len(ioList) - Len(pollFds)
    <3>1. SUFFICES ASSUME p >= slot + Len(ioList) - Len(pollFds) PROVE FALSE
      BY <1>2, <1>3
    <3>2. PICK n : n = p - Len(ioList) + Len(pollFds)
      OBVIOUS
    <3>3. n \in 1..Len(pollFds) /\ n >= slot /\ n + Len(ioList) - Len(pollFds) = p
      BY <1>2, <1>3, <2>1, <3>1, <3>2
    <3>4. ioList[p] = pollFds[n]
      BY <2>1, <3>3
    <3>5. QED
      BY <1>2, <2>0, <3>3, <3>4
  <2>3. ASSUME NEW n \in 1..Len(pollFds), n >= slot
        PROVE  ioList'[n + Len(ioList') - Len(pollFds)] = pollFds[n]
    <3>1. PICK j : j = n + Len(ioList') - Len(pollFds)
      OBVIOUS
    <3>2. /\ j \in 1..(Len(ioList) - 1) /\ j >= p
          /\ j + 1 = n + Len(ioList) - Len(pollFds)
      BY <1>2, <1>3, <2>1, <2>2, <2>3, <3>1
    <3>3. ioList'[j] = ioList[j + 1]
      BY <1>2, <3>2
    <3>4. ioList[j + 1] = pollFds[n]
      BY <2>1, <2>3, <3>2
    <3>5. QED
      BY <3>1, <3>3, <3>4
  <2>4. Len(ioList') >= Len(pollFds) - slot + 1
    BY <1>2, <1>3, <2>1, <2>2
  <2>5. Aligned'
    BY <1>1, <2>1, <2>3, <2>4 DEF Aligned
  <2>6. ServedUpTo(slot)
    BY <1>4, <2>0 DEF WalkInv
  <2>7. ServedUpTo(slot)'
    BY <1>1, <2>6 DEF ServedUpTo
  <2>8. QED
    BY <2>5, <2>7
<1>5. ASSUME pc = "drain", ~disturbed' PROVE ServedUpTo(Len(pollFds) + 1)'
  <2>1. ServedUpTo(Len(pollFds) + 1)
    BY <1>1, <1>5 DEF WalkInv
  <2>2. QED
    BY <1>1, <2>1 DEF ServedUpTo
<1>6. pc \notin {"io", "drain"} => called' = {}
  BY <1>1 DEF WalkInv
<1>7. pc = "timers" => disturbed'
  BY <1>1 DEF StillToVisit
<1>8. QED
  BY <1>1, <1>4, <1>5, <1>6, <1>7 DEF WalkInv

\* Phase 2 starts at the head of the list with the first slot.
LEMMA TimersDoneWalk ==
    ASSUME LoopAssumption, ListTypes, WalkInv, TimersDone
    PROVE  WalkInv'
<1>1. /\ pc = "timers" /\ pc' = "io" /\ slot' = 1
      /\ walk' = IF ioList = <<>> THEN NULL ELSE ioList[1]
      /\ UNCHANGED <<ioList, disturbed, pollFds, revents, called>>
  BY DEF TimersDone, ioVars
<1>2. called = {}
  BY <1>1 DEF WalkInv
<1>3. ASSUME ~disturbed PROVE Aligned' /\ ServedUpTo(slot)'
  <2>1. ioList = pollFds
    BY <1>1, <1>3 DEF WalkInv
  <2>2. ioList \in Seq(Handles) /\ Len(ioList) \in Nat /\ revents \subseteq 1..Len(pollFds)
    BY LenProperties DEF ListTypes
  <2>3. ioList = <<>> <=> Len(ioList) = 0
    BY <2>2, EmptySeq
  <2>4. walk' = IF 1 <= Len(ioList) THEN ioList[1] ELSE NULL
    BY <1>1, <2>2, <2>3
  <2>5. \A n \in 1..Len(ioList) : n + Len(ioList) - Len(ioList) = n
    BY <2>2
  <2>6. Aligned'
    BY <1>1, <2>1, <2>2, <2>4, <2>5 DEF Aligned
  <2>7. ServedUpTo(slot)'
    BY <1>1, <1>2, <2>2 DEF ServedUpTo
  <2>8. QED
    BY <2>6, <2>7
<1>4. QED
  BY <1>1, <1>3 DEF WalkInv

\* One step of the walk: the handle it is at has its own slot, and the next
\* pointer leads to the handle of the next slot.
LEMMA WalkIOWalk ==
    ASSUME LoopAssumption, ListTypes, WalkInv, WalkIO
    PROVE  WalkInv'
<1>1. /\ pc = "io" /\ walk # NULL /\ walk' = NextOf(walk) /\ slot' = slot + 1
      /\ UNCHANGED <<pc, ioList, disturbed, pollFds, revents>>
  BY DEF WalkIO, ioVars
<1>c. called' = IF slot \in revents THEN called \cup {<<walk, slot>>} ELSE called
  BY DEF WalkIO
<1>t. /\ ioList \in Seq(Handles) /\ IsInjective(ioList) /\ Len(ioList) \in Nat
      /\ Len(pollFds) \in Nat /\ slot \in Nat /\ revents \subseteq 1..Len(pollFds)
      /\ DOMAIN ioList = 1..Len(ioList)
  BY LenProperties DEF ListTypes
<1>2. ASSUME ~disturbed PROVE Aligned' /\ ServedUpTo(slot)'
  <2>1. /\ slot \in 1..(Len(pollFds) + 1) /\ Len(ioList) >= Len(pollFds) - slot + 1
        /\ \A n \in 1..Len(pollFds) :
              n >= slot => ioList[n + Len(ioList) - Len(pollFds)] = pollFds[n]
        /\ walk = IF slot <= Len(pollFds) THEN pollFds[slot] ELSE NULL
    BY <1>1, <1>2 DEF WalkInv, Aligned
  <2>2. slot \in 1..Len(pollFds) /\ walk = pollFds[slot]
    BY <1>1, <1>t, <2>1
  <2>3. PICK k : k = slot + Len(ioList) - Len(pollFds)
    OBVIOUS
  <2>4. k \in 1..Len(ioList) /\ ioList[k] = walk
    BY <1>t, <2>1, <2>2, <2>3
  <2>5. walk \in Range(ioList)
    BY <1>t, <2>4 DEF Range
  <2>6. Position(ioList, walk) \in 1..Len(ioList) /\ ioList[Position(ioList, walk)] = walk
    BY <1>t, <2>5, UnlinkNode
  <2>7. Position(ioList, walk) = k
    BY <1>t, <2>4, <2>6 DEF IsInjective
  <2>8. walk' = IF k = Len(ioList) THEN NULL ELSE ioList[k + 1]
    BY <1>1, <2>5, <2>7 DEF NextOf
  <2>9. walk' = IF slot + 1 <= Len(pollFds) THEN pollFds[slot + 1] ELSE NULL
    <3>1. CASE slot = Len(pollFds)
      BY <1>t, <2>3, <2>8, <3>1
    <3>2. CASE slot # Len(pollFds)
      <4>1. /\ slot + 1 \in 1..Len(pollFds) /\ slot + 1 >= slot /\ k # Len(ioList)
            /\ (slot + 1) + Len(ioList) - Len(pollFds) = k + 1
        BY <1>t, <2>2, <2>3, <3>2
      <4>2. ioList[k + 1] = pollFds[slot + 1]
        BY <2>1, <4>1
      <4>3. QED
        BY <2>8, <4>1, <4>2
    <3>3. QED
      BY <3>1, <3>2
  <2>10. /\ slot' \in 1..(Len(pollFds) + 1) /\ Len(ioList) >= Len(pollFds) - slot' + 1
         /\ \A n \in 1..Len(pollFds) : n >= slot' => n >= slot
    BY <1>1, <1>t, <2>1, <2>2
  <2>11. Aligned'
    BY <1>1, <2>1, <2>9, <2>10 DEF Aligned
  <2>12. /\ \A c \in called : c[2] \in revents /\ c[2] < slot /\ pollFds[c[2]] = c[1]
         /\ \A n \in revents : n < slot => \E c \in called : c[2] = n
    BY <1>1, <1>2 DEF WalkInv, ServedUpTo
  <2>13. \A n \in revents : n \in Nat /\ (n < slot => n < slot + 1)
                            /\ (n < slot + 1 => n < slot \/ n = slot)
    BY <1>t
  <2>14. \A c \in called' : c[2] \in revents /\ c[2] < slot + 1 /\ pollFds[c[2]] = c[1]
    <3>1. SUFFICES ASSUME NEW c \in called'
                   PROVE  c[2] \in revents /\ c[2] < slot + 1 /\ pollFds[c[2]] = c[1]
      OBVIOUS
    <3>2. CASE c \in called
      BY <2>12, <2>13, <3>2
    <3>3. CASE c \notin called
      <4>1. slot \in revents /\ c = <<walk, slot>>
        BY <1>c, <3>1, <3>3
      <4>2. c[1] = walk /\ c[2] = slot
        BY <4>1
      <4>3. slot < slot + 1
        BY <1>t
      <4>4. QED
        BY <2>2, <4>1, <4>2, <4>3
    <3>4. QED
      BY <3>2, <3>3
  <2>15. \A n \in revents : n < slot + 1 => \E c \in called' : c[2] = n
    <3>1. SUFFICES ASSUME NEW n \in revents, n < slot + 1 PROVE \E c \in called' : c[2] = n
      OBVIOUS
    <3>2. CASE n < slot
      <4>1. PICK c \in called : c[2] = n
        BY <2>12, <3>2
      <4>2. c \in called'
        BY <1>c, <4>1
      <4>3. QED
        BY <4>1, <4>2
    <3>3. CASE n = slot
      <4>1. <<walk, slot>> \in called'
        BY <1>c, <3>3
      <4>2. <<walk, slot>>[2] = n
        BY <3>3
      <4>3. QED
        BY <4>1, <4>2
    <3>4. QED
      BY <2>13, <3>1, <3>2, <3>3
  <2>16. ServedUpTo(slot)'
    BY <1>1, <2>14, <2>15 DEF ServedUpTo
  <2>17. QED
    BY <2>11, <2>16
<1>3. QED
  BY <1>1, <1>2 DEF WalkInv

\* Every step of el_run and of the program keeps the walk aligned with the
\* slots, unless the list was changed ahead of it.
LEMMA NextWalkInv ==
    ASSUME LoopAssumption, ListTypes, ControlInv, WalkInv, [Next]_vars
    PROVE  WalkInv'
<1>1. \/ \E h \in Handles : AddIO(h) \/ RemoveIO(h)
      \/ EnterPoll \/ PollReturn \/ TimersDone \/ WalkIO \/ WalkDone \/ DrainDone
      \/ /\ UNCHANGED <<ioList, disturbed, pollFds, revents, walk, slot, called>>
         /\ pc' = pc \/ (pc \notin {"io", "drain"} /\ pc' \in {"top", "exited", "micro"})
  BY DEF Next, ApiCall, LoopStep, SetTimeout, SetImmediate, ClearImmediate, UnrefIO, RefIO,
         Stop, SubmitWork, CallbackReturn, LeaveLoop, FireTimer, DrainItem, RunImmediate,
         DrainMicrotasks, TimePasses, DescriptorReady, ioVars, pollVars, vars
<1>2. ASSUME NEW h \in Handles, AddIO(h) \/ RemoveIO(h) PROVE WalkInv'
  BY <1>2, AddIOWalk, RemoveIOWalk
<1>3. CASE EnterPoll
  <2>1. pc' = "poll" /\ ioList' = ioList /\ pollFds' = ioList /\ called' = {}
    BY <1>3 DEF EnterPoll
  <2>2. QED
    BY <2>1 DEF WalkInv
<1>4. CASE PollReturn
  <2>1. pc = "poll" /\ pc' = "timers" /\ UNCHANGED <<ioList, pollFds, called>>
    BY <1>4 DEF PollReturn, ioVars
  <2>2. QED
    BY <2>1 DEF WalkInv
<1>5. CASE TimersDone
  BY <1>5, TimersDoneWalk
<1>6. CASE WalkIO
  BY <1>6, WalkIOWalk
<1>7. CASE WalkDone
  <2>1. /\ pc = "io" /\ pc' = "drain" /\ walk = NULL
        /\ UNCHANGED <<disturbed, pollFds, revents, slot, called>>
    BY <1>7 DEF WalkDone, ioVars, pollVars
  <2>2. ASSUME ~disturbed PROVE ServedUpTo(Len(pollFds) + 1)'
    <3>1. Aligned /\ ServedUpTo(slot)
      BY <2>1, <2>2 DEF WalkInv
    <3>2. pollFds \in Seq(Handles) /\ Len(pollFds) \in Nat /\ NULL \notin Handles
      BY LenProperties DEF ListTypes, LoopAssumption
    <3>3. slot \in 1..Len(pollFds) => pollFds[slot] \in Handles
      BY <3>2, ElementOfSeq
    <3>4. slot = Len(pollFds) + 1
      BY <2>1, <3>1, <3>2, <3>3 DEF Aligned
    <3>5. QED
      BY <2>1, <3>1, <3>4 DEF ServedUpTo
  <2>3. QED
    BY <2>1, <2>2 DEF WalkInv
<1>8. CASE DrainDone
  <2>1. pc' = "checks" /\ called' = {}
    BY <1>8 DEF DrainDone
  <2>2. QED
    BY <2>1 DEF WalkInv
<1>9. CASE /\ UNCHANGED <<ioList, disturbed, pollFds, revents, walk, slot, called>>
           /\ pc' = pc \/ (pc \notin {"io", "drain"} /\ pc' \in {"top", "exited", "micro"})
  <2>1. CASE pc' = pc
    BY <1>9, <2>1 DEF WalkInv, Aligned, ServedUpTo
  <2>2. CASE pc \notin {"io", "drain"} /\ pc' \in {"top", "exited", "micro"}
    BY <1>9, <2>2 DEF WalkInv
  <2>3. QED
    BY <1>9, <2>1, <2>2
<1>10. QED
  BY <1>1, <1>2, <1>3, <1>4, <1>5, <1>6, <1>7, <1>8, <1>9

-----------------------------------------------------------------------------
(* The theorems *)

\* The state el_init leaves, with the script about to run, satisfies the
\* invariant.
LEMMA InitLoopInv == ASSUME LoopAssumption, Init PROVE LoopInv
<1>1. /\ timers = <<>> /\ checks = <<>> /\ ioList = <<>> /\ pollFds = <<>>
      /\ dangling = [h \in Handles |-> NULL] /\ unrefed = {} /\ revents = {} /\ ready = {}
      /\ stopFlag = FALSE /\ pc = "script" /\ inCallback = TRUE
      /\ clock = 0 /\ now = 0 /\ deadline = -1 /\ walk = NULL /\ slot = 0
      /\ called = {} /\ disturbed = FALSE /\ fired = {} /\ ran = {} /\ cleared = {}
      /\ opState = [i \in Items |-> "idle"] /\ calling = [l \in {Thread} |-> NULL]
      /\ inFlight = 0
  BY DEF Init, Pool!Init
<1>2. MaxTime \in Nat /\ 0 \in 0..MaxTime
  BY DEF LoopAssumption
<1>3. TimerInv
  BY <1>1, <1>2 DEF TimerInv
<1>4. CheckInv
  BY <1>1, EmptyQueue DEF CheckInv
<1>5. PoolInv
  <2>1. Unsettled = {}
    BY <1>1 DEF Unsettled
  <2>2. Cardinality(Unsettled) = 0
    BY <2>1, FS_EmptySet
  <2>3. QED
    BY <1>1, <2>2 DEF PoolInv
<1>6. ControlInv
  <2>1. ExitsOnlyWhenIdle
    BY <1>1 DEF ExitsOnlyWhenIdle
  <2>2. stopFlag \in BOOLEAN /\ inCallback \in BOOLEAN
    BY <1>1
  <2>3. deadline \in Int
    BY <1>1
  <2>4. pc \in Phases /\ pc \notin {"top", "poll", "exited"}
    BY <1>1 DEF Phases
  <2>5. QED
    BY <2>1, <2>2, <2>3, <2>4 DEF ControlInv
<1>7. ListTypes
  <2>1. /\ ioList \in Seq(Handles) /\ IsInjective(ioList) /\ pollFds \in Seq(Handles)
        /\ dangling \in [Handles -> Handles \cup {NULL}]
    BY <1>1, EmptyQueue
  <2>2. QED
    BY <1>1, <2>1 DEF ListTypes
<1>8. WalkInv
  BY <1>1 DEF WalkInv
<1>9. QED
  BY <1>3, <1>4, <1>5, <1>6, <1>7, <1>8 DEF LoopInv

\* The loop's data structures stay consistent with each other, whatever the
\* program calls from its callbacks.
THEOREM LoopStaysConsistent == Spec => []LoopInv
<1>1. Init => LoopInv
  BY InitLoopInv, LoopAssumption
<1>2. LoopInv /\ [Next]_vars => LoopInv'
  <2>1. SUFFICES ASSUME LoopInv, [Next]_vars PROVE LoopInv'
    OBVIOUS
  <2>2. TimerInv /\ CheckInv /\ PoolInv /\ ControlInv /\ ListTypes /\ WalkInv
    BY <2>1 DEF LoopInv
  <2>3. TimerInv'
    BY <2>1, <2>2, NextTimerInv, LoopAssumption
  <2>4. CheckInv'
    BY <2>1, <2>2, NextCheckInv, LoopAssumption
  <2>5. PoolInv'
    BY <2>1, <2>2, NextPoolInv, LoopAssumption
  <2>6. ControlInv'
    BY <2>1, <2>2, NextControlInv, LoopAssumption
  <2>7. ListTypes'
    BY <2>1, <2>2, NextListTypes, LoopAssumption
  <2>8. WalkInv'
    BY <2>1, <2>2, NextWalkInv, LoopAssumption
  <2>9. QED
    BY <2>3, <2>4, <2>5, <2>6, <2>7, <2>8 DEF LoopInv
<1>3. QED
  BY <1>1, <1>2, PTL DEF Spec

\* el_run returns by itself only when no timer, immediate, referenced handle
\* or pool operation is left.
THEOREM LoopExitsIdle == Spec => []ExitsOnlyWhenIdle
<1>1. LoopInv => ExitsOnlyWhenIdle
  BY DEF LoopInv, ControlInv
<1>2. QED
  BY <1>1, LoopStaysConsistent, PTL

\* An immediate cancelled with a handle that JavaScript could hold never runs.
THEOREM ClearedStayCleared == Spec => []ClearedNeverRuns
<1>1. LoopInv => ClearedNeverRuns
  BY DEF LoopInv, CheckInv, ClearedNeverRuns
<1>2. QED
  BY <1>1, LoopStaysConsistent, PTL

\* Phase 2 gives each handle the events of its own slot, and none is left over
\* at its end, while the list is not changed ahead of the walk.
THEOREM EventsFindTheirHandles == Spec => []EventsReachTheirHandles
<1>1. LoopInv => EventsReachTheirHandles
  <2>1. SUFFICES ASSUME LoopInv PROVE EventsReachTheirHandles
    OBVIOUS
  <2>2. TimerInv /\ CheckInv /\ ControlInv /\ ListTypes /\ WalkInv
    BY <2>1 DEF LoopInv
  <2>3. Len(pollFds) \in Nat /\ DOMAIN pollFds = 1..Len(pollFds) /\ revents \subseteq 1..Len(pollFds)
    BY <2>2, LenProperties DEF ListTypes
  <2>4. TypeOK
    BY <2>2, <2>3 DEF TypeOK, TimerInv, CheckInv, ControlInv, ListTypes
  <2>5. ASSUME ~disturbed, NEW c \in called PROVE pollFds[c[2]] = c[1]
    <3>1. pc = "io" \/ pc = "drain"
      BY <2>2, <2>5 DEF WalkInv
    <3>2. ServedUpTo(slot) \/ ServedUpTo(Len(pollFds) + 1)
      BY <2>2, <2>5, <3>1 DEF WalkInv
    <3>3. QED
      BY <2>5, <3>2 DEF ServedUpTo
  <2>6. ASSUME ~disturbed, pc = "drain" PROVE revents = {c[2] : c \in called}
    <3>1. ServedUpTo(Len(pollFds) + 1)
      BY <2>2, <2>6 DEF WalkInv
    <3>2. \A c \in called : c[2] \in revents
      BY <3>1 DEF ServedUpTo
    <3>3. \A n \in revents : n < Len(pollFds) + 1
      BY <2>3
    <3>4. \A n \in revents : \E c \in called : c[2] = n
      BY <3>1, <3>3 DEF ServedUpTo
    <3>5. QED
      BY <3>2, <3>4
  <2>7. QED
    BY <2>4, <2>5, <2>6 DEF EventsReachTheirHandles
<1>2. QED
  BY <1>1, LoopStaysConsistent, PTL

\* A timer never runs while one that expires earlier is waiting, in whatever
\* order and from whichever callback they were set.
THEOREM TimersKeepOrder == Spec => TimersInExpiryOrder
<1> DEFINE Ordered ==
      \A n \in DOMAIN timers :
         timers[n].id \in fired' =>
             \A m \in DOMAIN timers' : timers[n].expires <= timers'[m].expires
<1>1. LoopInv /\ [Next]_vars => [Ordered]_vars
  <2>1. SUFFICES ASSUME LoopInv, Next PROVE Ordered
    OBVIOUS
  <2>2. TimerInv
    BY <2>1 DEF LoopInv
  <2>3. PICK U : U = [id : TimerIds, expires : 0..MaxTime]
    OBVIOUS
  <2>4. timers \in Seq(U) /\ DOMAIN timers = 1..Len(timers) /\ Len(timers) \in Nat
    BY <2>2, <2>3, LenProperties DEF TimerInv
  <2>5. \A n \in 1..Len(timers) : timers[n].id \notin fired
    BY <2>2 DEF TimerInv
  <2>6. FireTimer \/ fired' = fired
    BY <2>1 DEF Next, ApiCall, LoopStep, SetTimeout, SetImmediate, ClearImmediate, AddIO,
         RemoveIO, UnrefIO, RefIO, Stop, SubmitWork, CallbackReturn, LeaveLoop, EnterPoll,
         PollReturn, TimersDone, WalkIO, WalkDone, DrainItem, DrainDone, RunImmediate,
         DrainMicrotasks, TimePasses, DescriptorReady, timerVars, vars
  <2>7. CASE fired' = fired
    BY <2>4, <2>5, <2>7
  <2>8. CASE FireTimer
    <3>1. /\ fired' = fired \cup {timers[1].id} /\ Len(timers') = Len(timers) - 1
          /\ \A n \in 1..(Len(timers) - 1) : timers'[n] = timers[n + 1]
      BY <2>2, <2>8, FireTimerStep, LoopAssumption
    <3>2. timers' \in Seq(U)
      <4>1. TimerInv'
        BY <2>2, <2>8, FireTimerStep, LoopAssumption
      <4>2. QED
        BY <2>3, <4>1 DEF TimerInv
    <3>3. DOMAIN timers' = 1..(Len(timers) - 1)
      BY <3>1, <3>2, LenProperties
    <3>4. timers # <<>> /\ Len(timers) # 0
      BY <2>4, <2>8, EmptySeq DEF FireTimer, HeadExpired
    <3>5. ASSUME NEW n \in 1..Len(timers), timers[n].id \in fired',
                 NEW m \in 1..(Len(timers) - 1)
          PROVE  timers[n].expires <= timers'[m].expires
      <4>1. 1 \in 1..Len(timers) /\ m + 1 \in 1..Len(timers) /\ 1 < m + 1
        BY <2>4, <3>4
      <4>2. timers[n].id = timers[1].id
        BY <2>5, <3>1, <3>5
      <4>3. n = 1
        BY <2>2, <4>1, <4>2 DEF TimerInv
      <4>4. timers[1].expires <= timers[m + 1].expires
        BY <2>2, <4>1 DEF TimerInv
      <4>5. QED
        BY <3>1, <4>3, <4>4
    <3>6. QED
      BY <2>4, <3>3, <3>5
  <2>9. QED
    BY <2>6, <2>7, <2>8
<1>2. QED
  BY <1>1, LoopStaysConsistent, PTL DEF Spec, TimersInExpiryOrder

\* Phase 1 ends only when every timer left expires after the time at which
\* poll() returned.
THEOREM ExpiredTimersRun == Spec => NoExpiredTimerSkipped
<1> DEFINE NoneLeft == pc = "timers" /\ pc' = "io" => \A n \in DOMAIN timers : timers[n].expires > now
<1>1. LoopInv /\ [Next]_vars => [NoneLeft]_vars
  <2>1. SUFFICES ASSUME LoopInv, Next, pc = "timers", pc' = "io",
                        NEW n \in DOMAIN timers
                 PROVE  timers[n].expires > now
    OBVIOUS
  <2>2. TimerInv
    BY <2>1 DEF LoopInv
  <2>3. TimersDone
    BY <2>1 DEF Next, ApiCall, LoopStep, SetTimeout, SetImmediate, ClearImmediate, AddIO,
         RemoveIO, UnrefIO, RefIO, Stop, SubmitWork, CallbackReturn, LeaveLoop, EnterPoll,
         PollReturn, FireTimer, WalkIO, WalkDone, DrainItem, DrainDone, RunImmediate,
         DrainMicrotasks, TimePasses, DescriptorReady, timerVars, vars
  <2>4. PICK U : U = [id : TimerIds, expires : 0..MaxTime]
    OBVIOUS
  <2>5. timers \in Seq(U) /\ DOMAIN timers = 1..Len(timers) /\ Len(timers) \in Nat
    BY <2>2, <2>4, LenProperties DEF TimerInv
  <2>6. n \in 1..Len(timers) /\ 1 \in 1..Len(timers) /\ timers # <<>>
    BY <2>1, <2>5, EmptySeq
  <2>7. timers[1] \in U /\ timers[n] \in U
    BY <2>5, <2>6, ElementOfSeq
  <2>8. \A x \in U : x.expires \in Int
    BY <2>4 DEF LoopAssumption
  <2>9. now \in Int
    BY <2>2 DEF TimerInv
  <2>10. ~(timers[1].expires <= now)
    BY <2>3, <2>6 DEF TimersDone, HeadExpired
  <2>11. 1 < n => timers[1].expires <= timers[n].expires
    BY <2>2, <2>6 DEF TimerInv
  <2>12. n = 1 \/ 1 < n
    BY <2>5, <2>6
  <2>13. timers[1].expires \in Int /\ timers[n].expires \in Int
    BY <2>7, <2>8
  <2>14. QED
    BY <2>9, <2>10, <2>11, <2>12, <2>13
<1>2. QED
  BY <1>1, LoopStaysConsistent, PTL DEF Spec, NoExpiredTimerSkipped
=============================================================================
