---------------------------- MODULE MpmcRingBuffer ----------------------------
(***************************************************************************)
(* include/lwipc/ring_buffer_mpmc.hpp: a bounded queue any number of       *)
(* threads push to and pop from.  A push takes the ticket pos from         *)
(* enqueue_pos_ when the sequence number of cell pos % capacity_ says that *)
(* the cell is free for this lap, fills the cell, and hands it to the pops *)
(* by setting the sequence to pos + 1; a pop takes a ticket in the same    *)
(* way, empties the cell, and hands it to the pushes of the next lap by    *)
(* setting the sequence to pos + capacity_.  Each step of the model is one *)
(* access to shared memory.                                                *)
(***************************************************************************)
EXTENDS Integers, Sequences

CONSTANTS Threads,
          Capacity,     \* argument of the constructor
          Values,
          Blank,        \* content of a cell default-constructed or moved from
          MaxTickets    \* bound: how many tickets the pushes take

ASSUME CapacityAssumption == Capacity \in Nat /\ Capacity >= 1
ASSUME ValuesAssumption == Blank \notin Values
ASSUME MaxTicketsAssumption == MaxTickets \in Nat

VARIABLES seq, data,    \* the cells
          enq, deq,     \* enqueue_pos_, dequeue_pos_
          pc, pos, val, \* of each thread: its step, the local pos, the value in hand
          log,          \* history: the value of each ticket a push took
          got           \* history: the value each ticket a pop took came back with

cells == <<seq, data>>
vars == <<cells, enq, deq, pc, pos, val, log, got>>

Index == 0 .. Capacity - 1

Cell(p) == p % Capacity

Pushing == {"pushLoad", "pushSeq", "pushCas", "pushWrite", "pushStore"}
Popping == {"popLoad", "popSeq", "popCas", "popRead", "popStore"}

TypeOK ==
    /\ seq \in [Index -> Nat]
    /\ data \in [Index -> Values \cup {Blank}]
    /\ enq \in Nat /\ deq \in Nat
    /\ pc \in [Threads -> {"idle", "observe"} \cup Pushing \cup Popping]
    /\ pos \in [Threads -> Nat]
    /\ val \in [Threads -> Values \cup {Blank}]
    /\ log \in Seq(Values)
    /\ got \in Seq(Values \cup {Blank})

\* The constructor, with initialize_sequences.
Init ==
    /\ seq = [i \in Index |-> i]
    /\ data = [i \in Index |-> Blank]
    /\ enq = 0 /\ deq = 0
    /\ pc = [t \in Threads |-> "idle"]
    /\ pos = [t \in Threads |-> 0]
    /\ val = [t \in Threads |-> Blank]
    /\ log = << >> /\ got = << >>

Goto(t, step) == pc' = [pc EXCEPT ![t] = step]

\* A call returns; its locals are gone.
Return(t) ==
    /\ Goto(t, "idle")
    /\ pos' = [pos EXCEPT ![t] = 0]
    /\ val' = [val EXCEPT ![t] = Blank]

\* Mutant: the position is stored without comparing it.
CasAlways(current, expected) == TRUE

\* compare_exchange_weak may succeed only on the expected value; it may fail on it too.
CasMaySucceed(current, expected) == current = expected

-----------------------------------------------------------------------------
(* try_push, both overloads *)

\* The sign of seq - pos.
Free(s, p) == s = p

\* Mutant: a cell another push has filled is taken for a full queue.
FullOrOvertaken(s, p) == s # p

Full(s, p) == s < p

PushCall(t, v) ==
    /\ pc[t] = "idle"
    /\ Goto(t, "pushLoad")
    /\ val' = [val EXCEPT ![t] = v]
    /\ UNCHANGED <<cells, enq, deq, pos, log, got>>

\* The first load of enqueue_pos_, and the one after another push was faster.
PushLoad(t) ==
    /\ pc[t] = "pushLoad"
    /\ pos' = [pos EXCEPT ![t] = enq]
    /\ Goto(t, "pushSeq")
    /\ UNCHANGED <<cells, enq, deq, val, log, got>>

PushSeqFree(t) ==
    /\ pc[t] = "pushSeq"
    /\ Free(seq[Cell(pos[t])], pos[t])
    /\ Goto(t, "pushCas")
    /\ UNCHANGED <<cells, enq, deq, pos, val, log, got>>

PushSeqFull(t) ==
    /\ pc[t] = "pushSeq"
    /\ Full(seq[Cell(pos[t])], pos[t])
    /\ Return(t)
    /\ UNCHANGED <<cells, enq, deq, log, got>>

PushSeqBehind(t) ==
    /\ pc[t] = "pushSeq"
    /\ ~Free(seq[Cell(pos[t])], pos[t])
    /\ ~Full(seq[Cell(pos[t])], pos[t])
    /\ Goto(t, "pushLoad")
    /\ UNCHANGED <<cells, enq, deq, pos, val, log, got>>

PushCasWins(t) ==
    /\ pc[t] = "pushCas"
    /\ CasMaySucceed(enq, pos[t])
    /\ Len(log) < MaxTickets
    /\ enq' = pos[t] + 1
    /\ log' = Append(log, val[t])
    /\ Goto(t, "pushWrite")
    /\ UNCHANGED <<cells, deq, pos, val, got>>

\* Failing, spuriously or not, reloads pos.
PushCasFails(t) ==
    /\ pc[t] = "pushCas"
    /\ pos' = [pos EXCEPT ![t] = enq]
    /\ Goto(t, "pushSeq")
    /\ UNCHANGED <<cells, enq, deq, val, log, got>>

PushWrite(t) ==
    /\ pc[t] = "pushWrite"
    /\ data' = [data EXCEPT ![Cell(pos[t])] = val[t]]
    /\ Goto(t, "pushStore")
    /\ UNCHANGED <<seq, enq, deq, pos, val, log, got>>

PushStore(t) ==
    /\ pc[t] = "pushStore"
    /\ seq' = [seq EXCEPT ![Cell(pos[t])] = pos[t] + 1]
    /\ Return(t)
    /\ UNCHANGED <<data, enq, deq, log, got>>

Push(t) ==
    \/ \E v \in Values : PushCall(t, v)
    \/ PushLoad(t)
    \/ PushSeqFree(t) \/ PushSeqFull(t) \/ PushSeqBehind(t)
    \/ PushCasWins(t) \/ PushCasFails(t)
    \/ PushWrite(t) \/ PushStore(t)

-----------------------------------------------------------------------------
(* try_pop *)

\* Mutant: a cell a push has claimed, not filled, is taken for a full one.
ReadyTooEarly(s, p) == s >= p

Ready(s, p) == s = p + 1

Empty(s, p) == s < p + 1

NextLap(p) == p + Capacity

PopCall(t) ==
    /\ pc[t] = "idle"
    /\ Goto(t, "popLoad")
    /\ UNCHANGED <<cells, enq, deq, pos, val, log, got>>

PopLoad(t) ==
    /\ pc[t] = "popLoad"
    /\ pos' = [pos EXCEPT ![t] = deq]
    /\ Goto(t, "popSeq")
    /\ UNCHANGED <<cells, enq, deq, val, log, got>>

PopSeqReady(t) ==
    /\ pc[t] = "popSeq"
    /\ Ready(seq[Cell(pos[t])], pos[t])
    /\ Goto(t, "popCas")
    /\ UNCHANGED <<cells, enq, deq, pos, val, log, got>>

PopSeqEmpty(t) ==
    /\ pc[t] = "popSeq"
    /\ Empty(seq[Cell(pos[t])], pos[t])
    /\ Return(t)
    /\ UNCHANGED <<cells, enq, deq, log, got>>

PopSeqBehind(t) ==
    /\ pc[t] = "popSeq"
    /\ ~Ready(seq[Cell(pos[t])], pos[t])
    /\ ~Empty(seq[Cell(pos[t])], pos[t])
    /\ Goto(t, "popLoad")
    /\ UNCHANGED <<cells, enq, deq, pos, val, log, got>>

PopCasWins(t) ==
    /\ pc[t] = "popCas"
    /\ CasMaySucceed(deq, pos[t])
    /\ deq' = pos[t] + 1
    /\ got' = Append(got, Blank)
    /\ Goto(t, "popRead")
    /\ UNCHANGED <<cells, enq, pos, val, log>>

PopCasFails(t) ==
    /\ pc[t] = "popCas"
    /\ pos' = [pos EXCEPT ![t] = deq]
    /\ Goto(t, "popSeq")
    /\ UNCHANGED <<cells, enq, deq, val, log, got>>

PopRead(t) ==
    /\ pc[t] = "popRead"
    /\ val' = [val EXCEPT ![t] = data[Cell(pos[t])]]
    /\ got' = [got EXCEPT ![pos[t] + 1] = data[Cell(pos[t])]]
    /\ data' = [data EXCEPT ![Cell(pos[t])] = Blank]
    /\ Goto(t, "popStore")
    /\ UNCHANGED <<seq, enq, deq, pos, log>>

PopStore(t) ==
    /\ pc[t] = "popStore"
    /\ seq' = [seq EXCEPT ![Cell(pos[t])] = NextLap(pos[t])]
    /\ Return(t)
    /\ UNCHANGED <<data, enq, deq, log, got>>

Pop(t) ==
    \/ PopCall(t) \/ PopLoad(t)
    \/ PopSeqReady(t) \/ PopSeqEmpty(t) \/ PopSeqBehind(t)
    \/ PopCasWins(t) \/ PopCasFails(t)
    \/ PopRead(t) \/ PopStore(t)

-----------------------------------------------------------------------------
(* empty() and size(): dequeue_pos_ is loaded first, then enqueue_pos_ *)

\* Mutant: enqueue_pos_ is loaded twice.
ObserveLoadEnqueue(t) ==
    /\ pc[t] = "idle"
    /\ pos' = [pos EXCEPT ![t] = enq]
    /\ Goto(t, "observe")
    /\ UNCHANGED <<cells, enq, deq, val, log, got>>

ObserveLoad(t) ==
    /\ pc[t] = "idle"
    /\ pos' = [pos EXCEPT ![t] = deq]
    /\ Goto(t, "observe")
    /\ UNCHANGED <<cells, enq, deq, val, log, got>>

\* What the second load makes empty() and size() return.
SaysEmpty(t) == pos[t] >= enq
SaysSize(t) == IF enq >= pos[t] THEN enq - pos[t] ELSE 0

ObserveReturn(t) ==
    /\ pc[t] = "observe"
    /\ Return(t)
    /\ UNCHANGED <<cells, enq, deq, log, got>>

Observe(t) == ObserveLoad(t) \/ ObserveReturn(t)

-----------------------------------------------------------------------------
Next == \E t \in Threads : Push(t) \/ Pop(t) \/ Observe(t)

Spec == Init /\ [][Next]_vars

-----------------------------------------------------------------------------
(* Properties *)

Writing(t) == pc[t] \in {"pushWrite", "pushStore"}
Reading(t) == pc[t] \in {"popRead", "popStore"}

\* A cell is in the hands of one thread at a time, from the CAS that won its
\* ticket to the store that hands it on: the plain accesses to data never race.
CellExclusive ==
    \A t, u \in Threads :
        /\ Writing(t) \/ Reading(t)
        /\ Writing(u) \/ Reading(u)
        /\ Cell(pos[t]) = Cell(pos[u])
        => t = u

\* A push reports "full" only if every place is taken, or a pop that has
\* claimed its value has not given the cell back yet; a pop reports "empty"
\* only if there is nothing, or a push still fills the cell that comes next.
FailureHasReason ==
    [][\A t \in Threads :
         /\ PushSeqFull(t) => enq - deq >= Capacity \/ \E u \in Threads : Reading(u)
         /\ PopSeqEmpty(t) => enq = deq \/ \E u \in Threads : Writing(u) /\ pos[u] = deq]_vars

\* empty() says "empty" only of a queue that is empty at its second load, and
\* size() never reports fewer values than there are then.
AnswerCoversQueue ==
    \A t \in Threads :
        ObserveReturn(t) => /\ SaysEmpty(t) => enq = deq
                            /\ SaysSize(t) >= enq - deq
ObserverNeverUnderestimates == [][AnswerCoversQueue]_vars

\* What the pops hand out, in ticket order: the value a pop has read, or the
\* one lying in the cell a pop has claimed.
HandedOut ==
    [k \in 1 .. Len(got) |->
        IF \E t \in Threads : pc[t] = "popRead" /\ pos[t] = k - 1
        THEN data[Cell(k - 1)]
        ELSE got[k]]

\* The two CAS are the points where the queue behaves like the abstract one of
\* Capacity places: a value goes in when a push wins its ticket, and comes out
\* when a pop wins that ticket.
Fifo == INSTANCE BoundedFifo WITH Bound <- Capacity, inp <- log, out <- HandedOut
FifoSpec == Fifo!Spec
=============================================================================
