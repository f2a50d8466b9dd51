----------------------------- MODULE TaskQueues -----------------------------
(***************************************************************************)
(* The nextTick and microtask queues of src/src/vm.c and the places that   *)
(* drain them: the end of vm_call_function when no JS frame is left, the   *)
(* timer and immediate callbacks of src/src/builtins.c, the start of the   *)
(* program (main.c, worker_module.c), and Phase 5 of el_run.  The drains   *)
(* are C functions that call JavaScript that may end in another drain:     *)
(* cstack is the C stack, one record per activation, the innermost last.   *)
(***************************************************************************)
EXTENDS Integers, Sequences, Functions

CONSTANTS
    Ticks,      \* callbacks given to process.nextTick
    Micros,     \* callbacks given to queueMicrotask, and promise reactions
    Sync,       \* tasks that are ordinary JS functions; the others are native
                \* (the resumption of a coroutine) or async functions
    MaxTicks,   \* bound of the ticks of el_run
    MaxCalls,   \* bound of the callbacks made by one tick
    MaxNested   \* bound of the calls back into JS from native functions

TaskAssumption ==
    /\ Ticks \cap Micros = {}
    /\ Sync \subseteq Ticks \cup Micros
    /\ MaxTicks \in Nat /\ MaxCalls \in Nat /\ MaxNested \in Nat

Tasks == Ticks \cup Micros

\* What an activation on the C stack does when the one above it returns:
\*   script       vm_run of the main program
\*   js           a sync JS function called by vm_call_function
\*   native       a native or async function called by vm_call_function
\*   tick, micro  the loops of vm_drain_next_tick and vm_drain_microtasks
\*   loopTick, loopMicro    the final loop of vm_call_function
\*   thenTick, thenMicro    the two drains after a timer callback or the script
\*   after        a native completion that settles promises and calls no JS
Activations == {"script", "js", "native", "tick", "micro", "loopTick",
                "loopMicro", "thenTick", "thenMicro", "after"}

VARIABLES
    nextTick,    \* vm->next_tick_head .. tail
    microtask,   \* vm->microtask_head .. tail
    cstack,      \* the C stack above el_run
    phase,       \* el_run: "script", "callbacks", "phase5", "top", "exited"
    ticks,       \* ticks so far
    calls,       \* callbacks made in this tick
    nested,      \* calls back into JS from native functions
    started,     \* history: tasks that have been called
    bySync       \* history: tasks enqueued in a turn of a sync function

vars == <<nextTick, microtask, cstack, phase, ticks, calls, nested,
          started, bySync>>

TypeOK ==
    /\ nextTick \in Seq(Ticks) /\ microtask \in Seq(Micros)
    /\ cstack \in Seq(Activations)
    /\ phase \in {"script", "callbacks", "phase5", "top", "exited"}
    /\ ticks \in 0..MaxTicks /\ calls \in 0..MaxCalls /\ nested \in 0..MaxNested
    /\ started \subseteq Tasks /\ bySync \subseteq Tasks

\* The main program runs first; the two drains follow it.
Init ==
    /\ nextTick = <<>> /\ microtask = <<>>
    /\ cstack = <<"thenTick", "script">>
    /\ phase = "script"
    /\ ticks = 0 /\ calls = 0 /\ nested = 0
    /\ started = {} /\ bySync = {}

Top == cstack[Len(cstack)]
Running == cstack # <<>> /\ Top \in {"script", "js", "native", "after"}
Enqueued == started \cup Range(nextTick) \cup Range(microtask)

\* The JS code in progress was entered from C by calling a sync function.
SyncTurn == \A n \in DOMAIN cstack : cstack[n] \notin {"script", "native", "after"}

\* The C stack after its top has returned to the activation below.
Popped == SubSeq(cstack, 1, Len(cstack) - 1)

-----------------------------------------------------------------------------
(* Running code *)

\* process.nextTick, from JS code.
EnqueueTick(t) ==
    /\ Running /\ Top # "after"
    /\ t \notin Enqueued
    /\ nextTick' = Append(nextTick, t)
    /\ bySync' = IF SyncTurn THEN bySync \cup {t} ELSE bySync
    /\ UNCHANGED <<microtask, cstack, phase, ticks, calls, started, nested>>

\* queueMicrotask, or a promise with reactions is settled.
EnqueueMicro(t) ==
    /\ Running
    /\ t \notin Enqueued
    /\ microtask' = Append(microtask, t)
    /\ bySync' = IF SyncTurn THEN bySync \cup {t} ELSE bySync
    /\ UNCHANGED <<nextTick, cstack, phase, ticks, calls, started, nested>>

\* A native function called by JS (Array.prototype.map, a promise executor)
\* calls a JS function back.
CallBack ==
    /\ Running /\ Top # "after"
    /\ nested < MaxNested
    /\ nested' = nested + 1
    /\ cstack' = Append(cstack, "js")
    /\ UNCHANGED <<nextTick, microtask, phase, ticks, calls, started, bySync>>

\* vm->frame_count > 0 once the function on top has returned: the code below
\* it on the C stack is JS code.
FramesLeft == Popped # <<>> /\ Popped[Len(Popped)] \in {"script", "js", "native"}

\* Mutant: every return drains.
ReturnDraining ==
    /\ Running
    /\ cstack' = IF Top = "js" THEN Append(Popped, "loopTick") ELSE Popped
    /\ UNCHANGED <<nextTick, microtask, phase, ticks, calls, started, bySync, nested>>

\* A function returns.  After a sync function without a caller in JS,
\* vm_call_function goes on to its drain loop.
Return ==
    /\ Running
    /\ cstack' = IF Top = "js" /\ ~FramesLeft THEN Append(Popped, "loopTick")
                                              ELSE Popped
    /\ UNCHANGED <<nextTick, microtask, phase, ticks, calls, started, bySync, nested>>

-----------------------------------------------------------------------------
(* The drains *)

Called(t) == IF t \in Sync THEN "js" ELSE "native"

\* vm_drain_next_tick: unlink the head and call it, or return.
DrainTick ==
    /\ cstack # <<>> /\ Top = "tick"
    /\ IF nextTick = <<>>
       THEN cstack' = Popped /\ UNCHANGED <<nextTick, started>>
       ELSE /\ nextTick' = Tail(nextTick)
            /\ cstack' = Append(cstack, Called(Head(nextTick)))
            /\ started' = started \cup {Head(nextTick)}
    /\ UNCHANGED <<microtask, phase, ticks, calls, bySync, nested>>

\* vm_drain_microtasks.
DrainMicro ==
    /\ cstack # <<>> /\ Top = "micro"
    /\ IF microtask = <<>>
       THEN cstack' = Popped /\ UNCHANGED <<microtask, started>>
       ELSE /\ microtask' = Tail(microtask)
            /\ cstack' = Append(cstack, Called(Head(microtask)))
            /\ started' = started \cup {Head(microtask)}
    /\ UNCHANGED <<nextTick, phase, ticks, calls, bySync, nested>>

\* Mutant: microtasks are drained first.
DrainLoopSwapped ==
    /\ cstack # <<>> /\ Top \in {"loopTick", "loopMicro"}
    /\ cstack' = IF Top = "loopTick"
                 THEN IF nextTick = <<>> /\ microtask = <<>> THEN Popped
                      ELSE Popped \o <<"loopMicro", "micro">>
                 ELSE Popped \o <<"loopTick", "tick">>
    /\ UNCHANGED <<nextTick, microtask, phase, ticks, calls, started, bySync, nested>>

\* while (next_tick_head || microtask_head) { drain ticks; drain microtasks }
DrainLoop ==
    /\ cstack # <<>> /\ Top \in {"loopTick", "loopMicro"}
    /\ cstack' = IF Top = "loopTick"
                 THEN IF nextTick = <<>> /\ microtask = <<>> THEN Popped
                      ELSE Popped \o <<"loopMicro", "tick">>
                 ELSE Popped \o <<"loopTick", "micro">>
    /\ UNCHANGED <<nextTick, microtask, phase, ticks, calls, started, bySync, nested>>

\* vm_drain_next_tick(); vm_drain_microtasks(); after the callback returned.
DrainThen ==
    /\ cstack # <<>> /\ Top \in {"thenTick", "thenMicro"}
    /\ cstack' = IF Top = "thenTick" THEN Popped \o <<"thenMicro", "tick">>
                                     ELSE Append(Popped, "micro")
    /\ UNCHANGED <<nextTick, microtask, phase, ticks, calls, started, bySync, nested>>

-----------------------------------------------------------------------------
(* el_run *)

LoopTop ==
    /\ cstack = <<>> /\ phase \in {"script", "phase5"}
    /\ phase' = "top"
    /\ UNCHANGED <<nextTick, microtask, cstack, ticks, calls, started, bySync, nested>>

\* The queues are no part of has_work.
LeaveLoop ==
    /\ phase = "top"
    /\ phase' = "exited"
    /\ UNCHANGED <<nextTick, microtask, cstack, ticks, calls, started, bySync, nested>>

StartTick ==
    /\ phase = "top" /\ ticks < MaxTicks
    /\ phase' = "callbacks"
    /\ ticks' = ticks + 1 /\ calls' = 0
    /\ UNCHANGED <<nextTick, microtask, cstack, started, bySync, nested>>

\* Phases 1 to 4: a timer or an immediate (a call and two drains), an I/O or
\* message callback (a call), a completed operation (no call).
Callback ==
    /\ cstack = <<>> /\ phase = "callbacks" /\ calls < MaxCalls
    /\ \E f \in {"js", "native"} :
          cstack' \in {<<"thenTick", f>>, <<f>>, <<"after">>}
    /\ calls' = calls + 1
    /\ UNCHANGED <<nextTick, microtask, phase, ticks, started, bySync, nested>>

PhaseFive ==
    /\ cstack = <<>> /\ phase = "callbacks"
    /\ phase' = "phase5"
    /\ cstack' = <<"micro">>
    /\ UNCHANGED <<nextTick, microtask, ticks, calls, started, bySync, nested>>

Drain == DrainTick \/ DrainMicro \/ DrainLoop \/ DrainThen

Next ==
    \/ \E t \in Ticks : EnqueueTick(t)
    \/ \E t \in Micros : EnqueueMicro(t)
    \/ CallBack
    \/ Return
    \/ Drain
    \/ LoopTop
    \/ LeaveLoop
    \/ StartTick
    \/ Callback
    \/ PhaseFive

Spec == Init /\ [][Next]_vars

\* Every function returns and the loop goes on.
Fairness ==
    /\ WF_vars(Return)
    /\ WF_vars(Drain)
    /\ WF_vars(PhaseFive) /\ WF_vars(LoopTop)

FairSpec == Spec /\ Fairness

-----------------------------------------------------------------------------
(* Properties *)

\* Run to completion: no task starts while another piece of JS code is in
\* progress below it on the C stack, however the drains are nested.
RunToCompletion ==
    \A n \in DOMAIN cstack :
        cstack[n] \in {"tick", "micro"} =>
            \A m \in 1..n : cstack[m] \notin {"script", "js", "native"}

\* A microtask overtakes a nextTick callback only if that one was enqueued by
\* the script, a coroutine or an async function: what a sync callback enqueues
\* with process.nextTick runs before any microtask.
SyncTicksFirst ==
    \A t \in Micros : t \in started' \ started => Range(nextTick) \cap bySync = {}

\* Nothing that a sync function enqueued is left when control is back in el_run,
\* in whatever phase: its own drain, or that of the task that enqueued it,
\* emptied both queues.
SyncTurnsDrain ==
    cstack = <<>> => (Range(nextTick) \cup Range(microtask)) \cap bySync = {}

=============================================================================
