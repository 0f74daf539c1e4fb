---------------------------- MODULE MCMpmcRingBuffer ----------------------------
(* Interchangeable threads and values: no property tells them apart. *)
EXTENDS MpmcRingBuffer, TLC

Symmetric == Permutations(Threads) \cup Permutations(Values)
=============================================================================
