------------------------------ MODULE EventLoop ------------------------------
(***************************************************************************)
(* src/src/event_loop.c: timers, immediates, I/O handles and el_run, the   *)
(* loop of one JS thread.  A callback is a period during which inCallback  *)
(* is TRUE: the program may then call any of the el_ functions, in any     *)
(* order, before it returns.  The thread pool appears through what it      *)
(* promises, AsyncOps.                                                     *)
(***************************************************************************)
EXTENDS Integers, Sequences, FiniteSets, Functions

CONSTANTS
    TimerIds,    \* calls of el_set_timeout, numbered in the order of the calls
    Delays,      \* the delays the program asks for
    MaxTime,     \* bound of the clock (and of expiry times)
    IntMax,      \* INT_MAX: poll() takes its timeout in an int
    PoolWait,    \* the 50 ms poll() waits when only pool work is in flight
    CheckIds,    \* calls of el_set_immediate, numbered in the order of the calls
    Fits32,      \* immediates whose handle survives the int32 given to JavaScript
    Handles,     \* the IOHandle structures
    Unrefable,   \* handles the program ever unrefs
    Items,       \* work items for the pool
    Thread,      \* the JS thread that runs this loop
    NULL

ASSUME LoopAssumption ==
    /\ MaxTime \in Nat
    /\ Delays \subseteq Nat
    /\ IntMax \in Nat
    /\ PoolWait \in Nat
    /\ TimerIds \subseteq Nat
    /\ CheckIds \subseteq Nat
    /\ Fits32 \subseteq CheckIds
    /\ Unrefable \subseteq Handles
    /\ NULL \notin Handles \cup Items \cup CheckIds
    /\ IsFiniteSet(Items)

VARIABLES
    timers,       \* loop->timers: records [id, expires]
    checks,       \* loop->checks_head .. checks_tail
    ioList,       \* loop->io_handles, head first
    dangling,     \* the next pointer left in a handle that was removed
    unrefed,      \* handles with unrefed = true
    stopFlag,     \* loop->stop_flag
    pc,           \* the phase of el_run
    inCallback,   \* a callback (or the script) is running
    clock,        \* el_current_time_ms()
    now,          \* el_run's copy of it
    deadline,     \* when poll() times out; -1 when it never does
    pollFds,      \* the handles in the pollfd array, in slot order
    revents,      \* slots for which poll() reported an event
    ready,        \* handles whose descriptor has an event
    walk,         \* Phase 2: h
    slot,         \* Phase 2: idx
    called,       \* history: calls <<handle, slot>> of this tick's Phase 2
    disturbed,    \* history: the list changed where this tick's walk can see it
    fired,        \* history: timers that have run
    ran,          \* history: immediates that have run
    cleared,      \* history: immediates the program has cancelled
    opState, calling, inFlight   \* the pool, as AsyncOps sees it

Pool == INSTANCE AsyncOps WITH Loops <- {Thread}

timerVars == <<timers, fired>>
checkVars == <<checks, ran, cleared>>
ioVars    == <<ioList, dangling, unrefed, disturbed>>
pollVars  == <<now, deadline, pollFds, revents, walk, slot, called>>
poolVars  == <<opState, calling, inFlight>>
vars == <<timers, checks, ioList, dangling, unrefed, stopFlag, pc, inCallback,
          clock, now, deadline, pollFds, revents, ready, walk, slot, called,
          disturbed, fired, ran, cleared, opState, calling, inFlight>>

Phases == {"script", "top", "poll", "timers", "io", "drain", "checks", "micro",
           "exited"}

TypeOK ==
    /\ timers \in Seq([id : TimerIds, expires : 0..MaxTime])
    /\ checks \in Seq(CheckIds)
    /\ ioList \in Seq(Handles) /\ IsInjective(ioList)
    /\ dangling \in [Handles -> Handles \cup {NULL}]
    /\ unrefed \subseteq Handles
    /\ stopFlag \in BOOLEAN /\ inCallback \in BOOLEAN /\ disturbed \in BOOLEAN
    /\ pc \in Phases
    /\ clock \in 0..MaxTime /\ now \in 0..MaxTime
    /\ deadline \in Int
    /\ pollFds \in Seq(Handles)
    /\ revents \subseteq DOMAIN pollFds
    /\ ready \subseteq Handles
    /\ walk \in Handles \cup {NULL} /\ slot \in Nat
    /\ fired \subseteq TimerIds
    /\ ran \subseteq CheckIds /\ cleared \subseteq CheckIds

\* el_init; the main script runs before el_run.
Init ==
    /\ timers = <<>> /\ checks = <<>> /\ ioList = <<>>
    /\ dangling = [h \in Handles |-> NULL]
    /\ unrefed = {}
    /\ stopFlag = FALSE
    /\ pc = "script" /\ inCallback = TRUE
    /\ clock = 0 /\ now = 0 /\ deadline = -1
    /\ pollFds = <<>> /\ revents = {} /\ ready = {}
    /\ walk = NULL /\ slot = 0
    /\ called = {} /\ disturbed = FALSE
    /\ fired = {} /\ ran = {} /\ cleared = {}
    /\ Pool!Init

-----------------------------------------------------------------------------
(* The el_ functions, called from a callback *)

\* Where a list has the node x, and the list without it.
Position(s, x) == CHOOSE n \in DOMAIN s : s[n] = x
Unlink(s, x) ==
    SubSeq(s, 1, Position(s, x) - 1) \o SubSeq(s, Position(s, x) + 1, Len(s))

\* The sorted insertion of el_set_timeout: before the first timer that does
\* not expire earlier.
InsertTimer(s, t) ==
    LET before == {n \in 0..Len(s) : \A m \in 1..n : s[m].expires < t.expires}
        k == CHOOSE n \in before : \A m \in before : m <= n
    IN  SubSeq(s, 1, k) \o <<t>> \o SubSeq(s, k + 1, Len(s))

TimerPending(id) == \E n \in DOMAIN timers : timers[n].id = id

SetTimeout(id, d) ==
    /\ inCallback
    /\ ~TimerPending(id) /\ id \notin fired
    /\ \A b \in TimerIds : b < id => TimerPending(b) \/ b \in fired
    /\ clock + d <= MaxTime
    /\ timers' = InsertTimer(timers, [id |-> id, expires |-> clock + d])
    /\ UNCHANGED <<checkVars, ioVars, pollVars, poolVars, fired, stopFlag, pc,
                   inCallback, clock, ready>>

UsedChecks == Range(checks) \cup ran \cup cleared

SetImmediate(c) ==
    /\ inCallback
    /\ c \notin UsedChecks
    /\ \A b \in CheckIds : b < c => b \in UsedChecks
    /\ checks' = Append(checks, c)
    /\ UNCHANGED <<timerVars, ioVars, pollVars, poolVars, ran, cleared, stopFlag,
                   pc, inCallback, clock, ready>>

\* Mutant: only the head of the queue can be unlinked.
RemoveCheckHead(c) == IF Head(checks) = c THEN Tail(checks) ELSE checks

\* el_clear_immediate: unlink the handle if it is in the queue.
RemoveCheck(c) == Unlink(checks, c)

\* clearImmediate(): the number JavaScript holds is the low half of the
\* pointer, so only a handle in Fits32 is found.
ClearImmediate(c) ==
    /\ inCallback
    /\ c \in Range(checks) \ cleared
    /\ cleared' = cleared \cup {c}
    /\ checks' = IF c \in Fits32 THEN RemoveCheck(c) ELSE checks
    /\ UNCHANGED <<timerVars, ioVars, pollVars, poolVars, ran,
                   stopFlag, pc, inCallback, clock, ready>>

AddIO(h) ==
    /\ inCallback
    /\ h \notin Range(ioList)
    /\ ioList' = <<h>> \o ioList
    /\ unrefed' = unrefed \ {h}
    /\ disturbed' = (disturbed \/ pc = "timers")
    /\ UNCHANGED <<timerVars, checkVars, pollVars, poolVars, dangling, stopFlag,
                   pc, inCallback, clock, ready>>

\* The handle that follows h; a removed handle keeps the pointer it had.
NextOf(h) ==
    IF h \in Range(ioList)
    THEN LET n == Position(ioList, h)
         IN  IF n = Len(ioList) THEN NULL ELSE ioList[n + 1]
    ELSE dangling[h]

\* The walk of Phase 2 has not passed the slot of h.
StillToVisit(h) ==
    \/ pc = "timers"
    \/ pc = "io" /\ \E n \in DOMAIN pollFds : n >= slot /\ pollFds[n] = h

\* Every caller closes the descriptor, so it reports no further event.
RemoveIO(h) ==
    /\ inCallback
    /\ h \in Range(ioList)
    /\ ioList' = Unlink(ioList, h)
    /\ dangling' = [dangling EXCEPT ![h] = NextOf(h)]
    /\ ready' = ready \ {h}
    /\ disturbed' = (disturbed \/ StillToVisit(h))
    /\ UNCHANGED <<timerVars, checkVars, pollVars, poolVars, unrefed, stopFlag,
                   pc, inCallback, clock>>

UnrefIO(h) ==
    /\ inCallback
    /\ h \in Range(ioList) \cap Unrefable
    /\ unrefed' = unrefed \cup {h}
    /\ UNCHANGED <<timerVars, checkVars, pollVars, poolVars, ioList, dangling,
                   disturbed, stopFlag, pc, inCallback, clock, ready>>

RefIO(h) ==
    /\ inCallback
    /\ h \in Range(ioList)
    /\ unrefed' = unrefed \ {h}
    /\ UNCHANGED <<timerVars, checkVars, pollVars, poolVars, ioList, dangling,
                   disturbed, stopFlag, pc, inCallback, clock, ready>>

Stop ==
    /\ inCallback
    /\ stopFlag' = TRUE
    /\ UNCHANGED <<timerVars, checkVars, ioVars, pollVars, poolVars, pc,
                   inCallback, clock, ready>>

\* tp_submit.
SubmitWork(i) ==
    /\ inCallback
    /\ Pool!Submit(i)
    /\ UNCHANGED <<timerVars, checkVars, ioVars, pollVars, stopFlag, pc,
                   inCallback, clock, ready>>

\* The callback returns to the phase that called it.
CallbackReturn ==
    /\ inCallback
    /\ inCallback' = FALSE
    /\ pc' = IF pc \in {"script", "micro"} THEN "top" ELSE pc
    /\ IF calling[Thread] # NULL THEN Pool!Settle(Thread) ELSE UNCHANGED poolVars
    /\ UNCHANGED <<timerVars, checkVars, ioVars, pollVars, stopFlag, clock, ready>>

-----------------------------------------------------------------------------
(* el_run *)

\* Mutant: work in the pool does not keep the loop alive.
HasWorkWithoutPool ==
    \/ timers # <<>>
    \/ checks # <<>>
    \/ Range(ioList) \ unrefed # {}

HasWork ==
    \/ timers # <<>>
    \/ checks # <<>>
    \/ Range(ioList) \ unrefed # {}
    \/ inFlight > 0

LeaveLoop ==
    /\ pc = "top" /\ ~inCallback
    /\ stopFlag \/ ~HasWork
    /\ pc' = "exited"
    /\ UNCHANGED <<timerVars, checkVars, ioVars, pollVars, poolVars, stopFlag,
                   inCallback, clock, ready>>

\* The conversion of a 64-bit difference to int.
ToInt(x) == ((x + IntMax + 1) % (2 * (IntMax + 1))) - (IntMax + 1)

\* The wait for the first timer.
TimerWait ==
    CASE timers = <<>> -> -1
      [] timers # <<>> /\ timers[1].expires <= clock -> 0
      [] OTHER -> ToInt(timers[1].expires - clock)

\* Mutant: neither an immediate nor work in the pool bounds the wait.
PollTimeoutTimersOnly == TimerWait

PollTimeout ==
    LET wait == IF checks # <<>> THEN 0 ELSE TimerWait
    IN  IF wait = -1 /\ inFlight > 0 THEN PoolWait ELSE wait

\* Build the pollfd array and call poll(); a negative timeout blocks.
EnterPoll ==
    /\ pc = "top" /\ ~inCallback
    /\ ~stopFlag /\ HasWork
    /\ deadline' = IF PollTimeout < 0 THEN -1 ELSE clock + PollTimeout
    /\ pollFds' = ioList
    /\ revents' = {}
    /\ disturbed' = FALSE
    /\ called' = {}
    /\ pc' = "poll"
    /\ UNCHANGED <<timerVars, checkVars, poolVars, ioList, dangling, unrefed,
                   stopFlag, inCallback, clock, now, ready, walk, slot>>

\* Mutant: one event per tick.
PollReturnFirst ==
    /\ pc = "poll"
    /\ \E n \in DOMAIN pollFds : pollFds[n] \in ready
    /\ revents' = {CHOOSE n \in DOMAIN pollFds :
                     /\ pollFds[n] \in ready
                     /\ \A m \in DOMAIN pollFds : pollFds[m] \in ready => n <= m}
    /\ now' = clock
    /\ pc' = "timers"
    /\ UNCHANGED <<timerVars, checkVars, ioVars, poolVars, stopFlag, inCallback,
                   clock, ready, deadline, pollFds, walk, slot, called>>

\* poll() returns for a descriptor, for the wakeup pipe, or on its timeout.
PollReturn ==
    /\ pc = "poll"
    /\ \/ \E n \in DOMAIN pollFds : pollFds[n] \in ready
       \/ inFlight > 0
       \/ deadline >= 0 /\ clock >= deadline
    /\ revents' = {n \in DOMAIN pollFds : pollFds[n] \in ready}
    /\ now' = clock
    /\ pc' = "timers"
    /\ UNCHANGED <<timerVars, checkVars, ioVars, poolVars, stopFlag, inCallback,
                   clock, ready, deadline, pollFds, walk, slot, called>>

\* Mutant: a timer that expires right now is left for the next tick.
HeadExpiredStrict == timers # <<>> /\ timers[1].expires < now

HeadExpired == timers # <<>> /\ timers[1].expires <= now

\* Mutant: the expired timers run from the last to the first.
FireTimerBackwards ==
    /\ pc = "timers" /\ ~inCallback
    /\ HeadExpired
    /\ LET k == CHOOSE n \in DOMAIN timers :
                   /\ timers[n].expires <= now
                   /\ \A m \in DOMAIN timers : timers[m].expires <= now => m <= n
       IN  /\ timers' = SubSeq(timers, 1, k - 1) \o SubSeq(timers, k + 1, Len(timers))
           /\ fired' = fired \cup {timers[k].id}
    /\ inCallback' = TRUE
    /\ UNCHANGED <<checkVars, ioVars, pollVars, poolVars, stopFlag, pc, clock, ready>>

\* Phase 1.
FireTimer ==
    /\ pc = "timers" /\ ~inCallback
    /\ HeadExpired
    /\ timers' = Tail(timers)
    /\ fired' = fired \cup {timers[1].id}
    /\ inCallback' = TRUE
    /\ UNCHANGED <<checkVars, ioVars, pollVars, poolVars, stopFlag, pc, clock, ready>>

TimersDone ==
    /\ pc = "timers" /\ ~inCallback
    /\ ~HeadExpired
    /\ pc' = "io"
    /\ walk' = IF ioList = <<>> THEN NULL ELSE ioList[1]
    /\ slot' = 1
    /\ UNCHANGED <<timerVars, checkVars, ioVars, poolVars, stopFlag, inCallback,
                   clock, ready, now, deadline, pollFds, revents, called>>

\* Mutant: the slot is advanced only when a callback is made.
WalkIOSlotStuck ==
    /\ pc = "io" /\ ~inCallback
    /\ walk # NULL
    /\ walk' = NextOf(walk)
    /\ IF slot \in revents
       THEN /\ inCallback' = TRUE
            /\ slot' = slot + 1
            /\ called' = called \cup {<<walk, slot>>}
            /\ ready' = ready \ {walk}
       ELSE UNCHANGED <<inCallback, called, ready, slot>>
    /\ UNCHANGED <<timerVars, checkVars, ioVars, poolVars, stopFlag, pc, clock,
                   now, deadline, pollFds, revents>>

\* Phase 2: the k-th handle met on the walk is given the events of slot k.
\* The next pointer is read before the callback runs.
WalkIO ==
    /\ pc = "io" /\ ~inCallback
    /\ walk # NULL
    /\ walk' = NextOf(walk)
    /\ slot' = slot + 1
    /\ IF slot \in revents
       THEN /\ inCallback' = TRUE
            /\ called' = called \cup {<<walk, slot>>}
            /\ ready' = ready \ {walk}
       ELSE UNCHANGED <<inCallback, called, ready>>
    /\ UNCHANGED <<timerVars, checkVars, ioVars, poolVars, stopFlag, pc, clock,
                   now, deadline, pollFds, revents>>

WalkDone ==
    /\ pc = "io" /\ ~inCallback
    /\ walk = NULL
    /\ pc' = "drain"
    /\ UNCHANGED <<timerVars, checkVars, ioVars, pollVars, poolVars, stopFlag,
                   inCallback, clock, ready>>

\* Phase 3: tp_drain_completions runs after() of each completed item.
DrainItem(i) ==
    /\ pc = "drain" /\ ~inCallback
    /\ Pool!CallAfter(Thread, i)
    /\ inCallback' = TRUE
    /\ UNCHANGED <<timerVars, checkVars, ioVars, pollVars, stopFlag, pc, clock, ready>>

\* What Phase 2 used is dead from here on; forgetting it keeps states few.
DrainDone ==
    /\ pc = "drain" /\ ~inCallback
    /\ pc' = "checks"
    /\ pollFds' = <<>> /\ revents' = {} /\ called' = {} /\ slot' = 0
    /\ deadline' = -1
    /\ dangling' = [h \in Handles |-> NULL]
    /\ disturbed' = FALSE
    /\ UNCHANGED <<timerVars, checks, ran, cleared, ioList, unrefed, poolVars,
                   stopFlag, inCallback, clock, ready, now, walk>>

\* Phase 4: until the queue is empty, immediates set meanwhile included.
RunImmediate ==
    /\ pc = "checks" /\ ~inCallback
    /\ checks # <<>>
    /\ checks' = Tail(checks)
    /\ ran' = ran \cup {Head(checks)}
    /\ inCallback' = TRUE
    /\ UNCHANGED <<timerVars, ioVars, pollVars, poolVars, cleared,
                   stopFlag, pc, clock, ready>>

\* Phase 5: vm_drain_microtasks runs JavaScript; the tick ends when it returns.
DrainMicrotasks ==
    /\ pc = "checks" /\ ~inCallback
    /\ checks = <<>>
    /\ pc' = "micro"
    /\ inCallback' = TRUE
    /\ UNCHANGED <<timerVars, checkVars, ioVars, pollVars, poolVars, stopFlag,
                   clock, ready>>

-----------------------------------------------------------------------------
(* The environment *)

TimePasses ==
    /\ clock < MaxTime
    /\ clock' = clock + 1
    /\ UNCHANGED <<timerVars, checkVars, ioVars, pollVars, poolVars, stopFlag,
                   pc, inCallback, ready>>

\* Only poll() looks at descriptors, so an event may as well arrive there.
DescriptorReady(h) ==
    /\ pc = "poll"
    /\ h \in Range(ioList) \ ready
    /\ ready' = ready \cup {h}
    /\ UNCHANGED <<timerVars, checkVars, ioVars, pollVars, poolVars, stopFlag,
                   pc, inCallback, clock>>

ApiCall ==
    \/ \E id \in TimerIds, d \in Delays : SetTimeout(id, d)
    \/ \E c \in CheckIds : SetImmediate(c) \/ ClearImmediate(c)
    \/ \E h \in Handles : AddIO(h) \/ RemoveIO(h) \/ UnrefIO(h) \/ RefIO(h)
    \/ Stop
    \/ \E i \in Items : SubmitWork(i)

LoopStep ==
    \/ LeaveLoop
    \/ EnterPoll
    \/ PollReturn
    \/ FireTimer
    \/ TimersDone
    \/ WalkIO
    \/ WalkDone
    \/ \E i \in Items : DrainItem(i)
    \/ DrainDone
    \/ RunImmediate
    \/ DrainMicrotasks

Next ==
    \/ ApiCall
    \/ CallbackReturn
    \/ LoopStep
    \/ TimePasses
    \/ \E h \in Handles : DescriptorReady(h)

Spec == Init /\ [][Next]_vars

\* The thread is scheduled, time passes and every callback returns.  A pool
\* item that stays pending is completed sooner or later and found by a drain:
\* ThreadPool checks that (WorkCompletes).
Fairness ==
    /\ WF_vars(LoopStep)
    /\ WF_vars(TimePasses)
    /\ WF_vars(CallbackReturn)
    /\ \A i \in Items : SF_vars(DrainItem(i))

FairSpec == Spec /\ Fairness

-----------------------------------------------------------------------------
(* Properties *)

\* Timers run in the order of their expiry times: el_run pops the head of the
\* list, and el_set_timeout keeps the head the earliest whatever callbacks add
\* while Phase 1 is running.
TimersInExpiryOrder ==
    [][\A n \in DOMAIN timers :
          timers[n].id \in fired' =>
              \A m \in DOMAIN timers' : timers[n].expires <= timers'[m].expires]_vars

\* When Phase 1 ends no timer that had expired when poll() returned is left.
NoExpiredTimerSkipped ==
    [][pc = "timers" /\ pc' = "io" =>
          \A n \in DOMAIN timers : timers[n].expires > now]_vars

\* Phase 2 gives every event to the handle it belongs to, and every handle its
\* event, as long as no callback of this tick touched the part of the list the
\* walk had not passed.  Adding handles in Phase 2, and removing the handle
\* whose callback is running or one already visited, is harmless.
EventsReachTheirHandles ==
    /\ TypeOK
    /\ ~disturbed =>
          /\ \A c \in called : pollFds[c[2]] = c[1]
          /\ pc = "drain" => revents = {c[2] : c \in called}

\* "Cancel a pending setImmediate handle.": a cleared immediate does not run,
\* wherever in the queue it was and whichever callback cleared it, if its
\* handle fits the integer JavaScript was given.
ClearedNeverRuns == ran \cap cleared \cap Fits32 = {}

\* el_run returns by itself only when nothing is left that could call back:
\* no timer, no immediate, no referenced handle, no operation in the pool.
ExitsOnlyWhenIdle ==
    pc = "exited" /\ ~stopFlag =>
        /\ timers = <<>> /\ checks = <<>>
        /\ \A h \in Range(ioList) : h \in unrefed
        /\ \A i \in Items : opState[i] \in {"idle", "settled"}

\* Every timer runs, every immediate runs or is cleared, and every submitted
\* operation is settled, unless the program stops the loop.
EverythingScheduledRuns ==
    /\ \A id \in TimerIds : TimerPending(id) ~> (id \in fired \/ stopFlag)
    /\ \A c \in CheckIds : (c \in Range(checks)) ~> (c \in ran \cup cleared \/ stopFlag)
    /\ \A i \in Items : (opState[i] = "pending") ~> (opState[i] = "settled" \/ stopFlag)

\* A descriptor that stays ready is served although callbacks add and remove
\* handles, unless the loop ends or the list keeps being changed ahead of the
\* walk (then the walk can miss a handle in tick after tick).
ReadyHandlesServed ==
    <>[]~disturbed =>
        \A h \in Handles : (h \in ready) ~> (h \notin ready \/ pc = "exited")

-----------------------------------------------------------------------------
(* What the documentation says and the code does not do *)

\* "cb is called with the ready revents mask": the events passed to a handle
\* are those poll() reported for that handle's descriptor.
OwnEventsOnly == \A c \in called : pollFds[c[2]] = c[1]

=============================================================================
