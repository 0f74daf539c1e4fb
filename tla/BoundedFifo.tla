----------------------------- MODULE BoundedFifo -----------------------------
(***************************************************************************)
(* What every queue of the library promises its callers, whatever the      *)
(* number of threads: values come out in the order they went in, each      *)
(* exactly once, and at most Bound of them are inside at any time.  The    *)
(* queue is described by its two histories; its contents are the values    *)
(* of inp that out does not hold yet.  An operation that reports "full" or *)
(* "empty" changes neither history.                                        *)
(***************************************************************************)
EXTENDS Naturals, Sequences

CONSTANTS Values,   \* what may be queued
          Bound     \* how many values the queue may hold

VARIABLES inp,      \* every value accepted, in order
          out       \* every value handed out, in order

Init == inp = << >> /\ out = << >>

Push(v) ==
    /\ Len(inp) - Len(out) < Bound
    /\ inp' = Append(inp, v)
    /\ UNCHANGED out

Pop ==
    /\ Len(out) < Len(inp)
    /\ out' = Append(out, inp[Len(out) + 1])
    /\ UNCHANGED inp

Next == Pop \/ \E v \in Values : Push(v)

Spec == Init /\ [][Next]_<<inp, out>>
=============================================================================
