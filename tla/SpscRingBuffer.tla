---------------------------- MODULE SpscRingBuffer ----------------------------
(***************************************************************************)
(* include/lwipc/ring_buffer_spsc.hpp: a ring of Capacity cells shared by  *)
(* one producer thread and one consumer thread.  head_ is written by the   *)
(* producer alone and tail_ by the consumer alone, so that a call reads    *)
(* one shared index, touches one cell, and stores its own index: these are *)
(* the steps of the model.  One cell is always left unused: the ring is    *)
(* full when incrementing head would meet tail.                            *)
(***************************************************************************)
EXTENDS Naturals, Sequences

CONSTANTS Capacity,   \* template parameter
          Values,     \* what the producer pushes
          Blank,      \* content of a cell never written or moved from
          MaxPushes   \* bound: how many values the producer pushes

ASSUME CapacityAssumption == Capacity \in Nat /\ Capacity >= 2
ASSUME ValuesAssumption == Blank \notin Values
ASSUME MaxPushesAssumption == MaxPushes \in Nat

VARIABLES buffer, head, tail,   \* the object's fields
          ppc, pval,            \* producer: step of try_push, its argument
          cpc, cval,            \* consumer: step of try_pop or empty, the value moved out
          chead,                \* consumer: head_ as empty() loaded it
          notEmpty,             \* the consumer's last completed call was empty(), false
          pushed, popped        \* histories of the calls that succeeded

prod == <<head, ppc, pval, pushed>>                         \* written by the producer
cons == <<tail, cpc, cval, chead, notEmpty, popped>>        \* written by the consumer
vars == <<buffer, prod, cons>>

Index == 0 .. Capacity - 1

Increment(i) == (i + 1) % Capacity

\* Mutant: the free cell is not kept.
RingFullNever == FALSE

RingFull == Increment(head) = tail

\* Mutant: the last value is taken for an empty ring.
RingEmptyEarly == Increment(tail) = head

RingEmpty == tail = head

TypeOK ==
    /\ buffer \in [Index -> Values \cup {Blank}]
    /\ head \in Index /\ tail \in Index /\ chead \in Index
    /\ ppc \in {"idle", "write", "store"}
    /\ cpc \in {"idle", "read", "store", "empty"}
    /\ pval \in Values \cup {Blank}
    /\ cval \in Values \cup {Blank}
    /\ notEmpty \in BOOLEAN
    /\ pushed \in Seq(Values)
    /\ popped \in Seq(Values \cup {Blank})

Init ==
    /\ buffer = [i \in Index |-> Blank]
    /\ head = 0 /\ tail = 0 /\ chead = 0
    /\ ppc = "idle" /\ pval = Blank
    /\ cpc = "idle" /\ cval = Blank
    /\ notEmpty = FALSE
    /\ pushed = << >> /\ popped = << >>

-----------------------------------------------------------------------------
(* try_push, both overloads *)

\* The load of tail_ finds a free cell.
PushCheck(v) ==
    /\ ppc = "idle"
    /\ Len(pushed) < MaxPushes
    /\ ~RingFull
    /\ ppc' = "write" /\ pval' = v
    /\ UNCHANGED <<buffer, head, pushed, cons>>

\* The load of tail_ finds the ring full: false, and nothing has changed.
PushFull ==
    /\ ppc = "idle"
    /\ RingFull
    /\ UNCHANGED vars

PushWrite ==
    /\ ppc = "write"
    /\ buffer' = [buffer EXCEPT ![head] = pval]
    /\ ppc' = "store"
    /\ UNCHANGED <<head, pval, pushed, cons>>

PushStore ==
    /\ ppc = "store"
    /\ head' = Increment(head)
    /\ pushed' = Append(pushed, pval)
    /\ ppc' = "idle" /\ pval' = Blank
    /\ UNCHANGED <<buffer, cons>>

-----------------------------------------------------------------------------
(* try_pop *)

PopCheck ==
    /\ cpc = "idle"
    /\ ~RingEmpty
    /\ cpc' = "read"
    /\ UNCHANGED <<buffer, tail, cval, chead, notEmpty, popped, prod>>

PopEmpty ==
    /\ cpc = "idle"
    /\ RingEmpty
    /\ notEmpty' = FALSE
    /\ UNCHANGED <<buffer, tail, cpc, cval, chead, popped, prod>>

\* std::move(buffer_[tail]) leaves a moved-from object in the cell.
PopRead ==
    /\ cpc = "read"
    /\ cval' = buffer[tail]
    /\ buffer' = [buffer EXCEPT ![tail] = Blank]
    /\ cpc' = "store"
    /\ UNCHANGED <<tail, chead, notEmpty, popped, prod>>

\* Mutant: tail_ is not stored.
PopStoreForgotten ==
    /\ cpc = "store"
    /\ popped' = Append(popped, cval)
    /\ cpc' = "idle" /\ cval' = Blank
    /\ notEmpty' = FALSE
    /\ UNCHANGED <<buffer, tail, chead, prod>>

PopStore ==
    /\ cpc = "store"
    /\ tail' = Increment(tail)
    /\ popped' = Append(popped, cval)
    /\ cpc' = "idle" /\ cval' = Blank
    /\ notEmpty' = FALSE
    /\ UNCHANGED <<buffer, chead, prod>>

-----------------------------------------------------------------------------
(* empty(), called by the consumer: two loads, head_ and then tail_ *)

EmptyLoadHead ==
    /\ cpc = "idle"
    /\ chead' = head
    /\ cpc' = "empty"
    /\ UNCHANGED <<buffer, tail, cval, notEmpty, popped, prod>>

EmptyLoadTail ==
    /\ cpc = "empty"
    /\ notEmpty' = (chead # tail)
    /\ chead' = 0
    /\ cpc' = "idle"
    /\ UNCHANGED <<buffer, tail, cval, popped, prod>>

-----------------------------------------------------------------------------
ProducerNext == PushFull \/ PushWrite \/ PushStore \/ \E v \in Values : PushCheck(v)

ConsumerNext == PopCheck \/ PopEmpty \/ PopRead \/ PopStore \/ EmptyLoadHead \/ EmptyLoadTail

Next == ProducerNext \/ ConsumerNext

Spec == Init /\ [][Next]_vars

-----------------------------------------------------------------------------
(* Properties *)

\* The non-atomic accesses of the two threads never meet in one cell: while the
\* producer is assigning buffer_[head], the consumer is not moving out of it.
NoDataRace == ~(ppc = "write" /\ cpc = "read" /\ head = tail)

\* If empty() told the consumer "not empty", its next try_pop returns a value:
\* the answer cannot be invalidated by the producer.
NotEmptyStays == [][PopEmpty => ~notEmpty]_vars

\* The ring implements the abstract queue of Capacity - 1 places: what try_pop
\* returned is what try_push took, in the same order, nothing twice, nothing
\* skipped, never a moved-from value.
Fifo == INSTANCE BoundedFifo WITH Bound <- Capacity - 1, inp <- pushed, out <- popped
FifoSpec == Fifo!Spec
=============================================================================
