------------------------------- MODULE Addons -------------------------------
(***************************************************************************)
(* A native addon on the thread pool (Napi.tla) and what the runtime       *)
(* promises to it.                                                         *)
(***************************************************************************)
EXTENDS Integers, Sequences

CONSTANTS Works, MaxUses, Pool, Capacity, MaxIndex

VARIABLES
    items, taken, done, current, work, call, tsfn, array, length,
    tsfnUndefined, early, useAfterFree, executed, completed

Addon == INSTANCE Napi WITH MaxCalls <- MaxUses, queue <- items, undefined <- tsfnUndefined

ASSUME AddonsAssumption == Addon!NapiAssumption

\* Native addons: nothing freed is used, but for a thread-safe function that
\* was released too early; a work is executed and completed once and a call
\* delivered once, and array elements are kept.
AddonSound ==
    Addon!TypeOK /\ Addon!UsesAreLive /\ Addon!CompletedOnce /\ Addon!ElementsKept

=============================================================================
