------------------------------- MODULE Turns -------------------------------
(***************************************************************************)
(* The turns of the event loop (TaskQueues.tla), and what they promise:    *)
(* when a task may start, in which order, and when the queues are empty.   *)
(***************************************************************************)
EXTENDS Integers, Sequences

CONSTANTS Ticks, Micros, Sync, MaxTicks, MaxCalls, MaxNested

VARIABLES nextTick, microtask, cstack, phase, ticks, calls, nested, started, bySync

Tasks == INSTANCE TaskQueues

ASSUME TurnsAssumption == Tasks!TaskAssumption

\* No task starts while other JS code is in progress below it, and a turn of a
\* sync function leaves both queues empty.
TurnsDrain == Tasks!TypeOK /\ Tasks!RunToCompletion /\ Tasks!SyncTurnsDrain

\* vm_drain_next_tick comes before vm_drain_microtasks at the end of a turn.
SyncTicksFirst == [][Tasks!SyncTicksFirst]_(Tasks!vars)

=============================================================================
