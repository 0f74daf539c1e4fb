------------------------------ MODULE MCSignalSlot ------------------------------
(* Two signals; the slots of s1 operate on s2. *)
EXTENDS SignalSlot

CONSTANTS s1, s2

FirstThenSecond == {<<s1, s2>>}
=============================================================================
