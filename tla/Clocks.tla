--------------------------------- MODULE Clocks ---------------------------------
(***************************************************************************)
(* The process the monitors run in: its threads, and the two clocks they   *)
(* read.  steady_clock only goes forward, system_clock is what people and  *)
(* time servers set it to.  Both in units of a millisecond.  The number of *)
(* calls the threads make of either monitor is bounded here, too.          *)
(***************************************************************************)
EXTENDS Integers

CONSTANTS Threads,
          Epoch,          \* system_clock in the beginning
          MaxTime,        \* bound: steady_clock
          MaxAdjustments, \* bound: how often system_clock is set
          MaxCalls        \* bound: calls that change something

ASSUME ClocksAssumption == Epoch \in Nat \ {0} /\ MaxTime \in Nat
                          /\ MaxAdjustments \in Nat /\ MaxCalls \in Nat

VARIABLES steady, wall,  \* steady_clock::now(), system_clock::now()
          adjustments,
          calls

\* map[key] = value, of the maps the monitors keep.
Put(map, key, value) == [k \in DOMAIN map \cup {key} |-> IF k = key THEN value ELSE map[k]]

clocks == <<steady, wall, adjustments>>

ClocksTypeOK ==
    /\ steady \in 0 .. MaxTime
    /\ wall \in Epoch - 1 .. Epoch + 2 * MaxTime
    /\ adjustments \in 0 .. MaxAdjustments
    /\ calls \in 0 .. MaxCalls

ClocksInit == steady = 0 /\ wall = Epoch /\ adjustments = 0 /\ calls = 0

OneMoreCall == calls < MaxCalls /\ calls' = calls + 1

Tick ==
    /\ steady < MaxTime
    /\ steady' = steady + 1 /\ wall' = wall + 1
    /\ UNCHANGED adjustments

Adjust ==
    /\ adjustments < MaxAdjustments
    /\ adjustments' = adjustments + 1
    /\ wall' \in (Epoch - 1 .. Epoch + MaxTime) \ {wall}
    /\ UNCHANGED steady
=============================================================================
