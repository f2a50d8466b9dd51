---------------------------- MODULE MCThreadPool ----------------------------
(* Instances of ThreadPool for TLC. *)
EXTENDS ThreadPool, TLC

\* Pool threads are interchangeable; items are when none of them is Stuck.
PoolSymmetry == Permutations(Workers) \cup Permutations(Items)

=============================================================================
