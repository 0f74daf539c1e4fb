------------------------- MODULE SpscRingBuffer_proofs -------------------------
(***************************************************************************)
(* The single-producer single-consumer ring is correct for every capacity, *)
(* every set of values and every number of pushes: the two threads never   *)
(* touch one cell at a time, and the ring implements the abstract queue of *)
(* Capacity - 1 places.                                                    *)
(***************************************************************************)
EXTENDS SpscRingBuffer, RingArithmetic

\* The cell of a ticket.
Cell(k) == k % Capacity

\* All that the proofs need to know of it.
LEMMA CellFacts ==
  /\ \A k \in Nat : Cell(k) \in Index
  /\ \A k \in Nat : Increment(Cell(k)) = Cell(k + 1)
  /\ \A k \in Nat : Cell(k + Capacity) = Cell(k)
  /\ \A i, j \in Nat : Cell(i) = Cell(j) => i = j \/ i >= j + Capacity \/ j >= i + Capacity
<1>0. Capacity \in Nat /\ Capacity >= 1
  BY CapacityAssumption
<1>1. \A k \in Nat : Cell(k) \in Index
  BY <1>0, ModIsIndex, Zenon DEF Cell, Index
<1>2. \A k \in Nat : Increment(Cell(k)) = Cell(k + 1)
  BY <1>0, NextCell, Zenon DEF Cell, Increment
<1>3. \A k \in Nat : Cell(k + Capacity) = Cell(k)
  BY <1>0, SameCellNextLap, Zenon DEF Cell
<1>4. ASSUME NEW i \in Nat, NEW j \in Nat, Cell(i) = Cell(j)
      PROVE  i = j \/ i >= j + Capacity \/ j >= i + Capacity
  BY <1>0, <1>4, SameCellApart, Zenon DEF Cell
<1> QED
  BY <1>1, <1>2, <1>3, <1>4

\* What the properties rest on.  The k-th value pushed lives in cell
\* (k - 1) % Capacity until the consumer has moved it out.
IndInv ==
    /\ TypeOK
    /\ head = Cell(Len(pushed))
    /\ tail = Cell(Len(popped))
    /\ Len(popped) <= Len(pushed)
    /\ Len(pushed) - Len(popped) <= Capacity - 1
    /\ ppc # "idle" => pval \in Values /\ Len(pushed) - Len(popped) < Capacity - 1
    /\ ppc = "store" => buffer[head] = pval
    /\ cpc \in {"read", "store"} => Len(popped) < Len(pushed)
    /\ cpc = "store" => cval = pushed[Len(popped) + 1]
    /\ cpc = "empty" /\ chead # tail => Len(popped) < Len(pushed)
    /\ notEmpty => Len(popped) < Len(pushed)
    /\ \A k \in 1 .. Len(pushed) :
          k > Len(popped) => \/ buffer[Cell(k - 1)] = pushed[k]
                             \/ cpc = "store" /\ k = Len(popped) + 1

\* Where head_ and tail_ stand tells how much is queued.
LEMMA IndicesTellFill ==
  ASSUME IndInv
  PROVE  /\ RingEmpty <=> Len(popped) = Len(pushed)
         /\ RingFull <=> Len(pushed) - Len(popped) = Capacity - 1
<1> USE CapacityAssumption
<1> DEFINE a == Len(popped)
           b == Len(pushed)
<1>1. a \in Nat /\ b \in Nat /\ a <= b /\ b - a <= Capacity - 1
  BY DEF IndInv, TypeOK
<1>2. head = Cell(b) /\ tail = Cell(a)
  BY DEF IndInv
<1>3. Increment(head) = Cell(b + 1)
  BY <1>1, <1>2, CellFacts
<1> HIDE DEF a, b
<1>4. RingEmpty <=> a = b
  BY <1>1, <1>2, CellFacts DEF RingEmpty
<1>5. RingFull => b - a = Capacity - 1
  <2> SUFFICES ASSUME Cell(b + 1) = Cell(a)
               PROVE  b - a = Capacity - 1
    BY <1>2, <1>3 DEF RingFull
  <2>1. b + 1 \in Nat /\ a <= b + 1 /\ a # b + 1
    BY <1>1
  <2>2. ~(b + 1 < a + Capacity)
    BY <2>1, <1>1, CellFacts
  <2> QED
    BY <2>2, <1>1
<1>6. b - a = Capacity - 1 => RingFull
  <2> SUFFICES ASSUME b - a = Capacity - 1
               PROVE  Cell(b + 1) = Cell(a)
    BY <1>2, <1>3 DEF RingFull
  <2>1. b + 1 = a + Capacity
    BY <1>1
  <2> QED
    BY <2>1, <1>1, CellFacts
<1> QED
  BY <1>4, <1>5, <1>6 DEF a, b

LEMMA InitIndInv == Init => IndInv
<1> SUFFICES ASSUME Init PROVE IndInv
  OBVIOUS
<1>1. TypeOK
  BY CapacityAssumption DEF Init, TypeOK, Index
<1>2. Len(pushed) = 0 /\ Len(popped) = 0 /\ Cell(0) = 0
  BY CapacityAssumption DEF Init, Cell
<1> QED
  BY <1>1, <1>2, CapacityAssumption DEF Init, IndInv

\* The producer's steps.
LEMMA ProducerStep ==
  ASSUME IndInv, ProducerNext
  PROVE  IndInv'
<1> USE CapacityAssumption
<1> DEFINE a == Len(popped)
           b == Len(pushed)
<1>1. TypeOK /\ a \in Nat /\ b \in Nat /\ a <= b
  BY DEF IndInv, TypeOK
<1>2. head \in Index /\ tail \in Index /\ head = Cell(b) /\ tail = Cell(a)
  BY DEF IndInv, TypeOK
<1>3. CASE PushFull
  BY <1>3 DEF PushFull, vars, prod, cons, IndInv, TypeOK
<1>4. ASSUME NEW v \in Values, PushCheck(v)
      PROVE  IndInv'
  <2>1. b - a < Capacity - 1
    <3>1. ~RingFull /\ b - a <= Capacity - 1
      BY <1>4 DEF PushCheck, IndInv
    <3> QED
      BY <3>1, <1>1, IndicesTellFill
  <2>2. TypeOK'
    BY <1>4, <1>1 DEF PushCheck, cons, TypeOK
  <2> QED
    BY <1>4, <2>1, <2>2 DEF PushCheck, cons, IndInv
<1>5. CASE PushWrite
  <2>1. b - a < Capacity - 1 /\ pval \in Values
    BY <1>5 DEF PushWrite, IndInv
  <2>2. TypeOK'
    BY <1>5, <1>1 DEF PushWrite, cons, TypeOK
  <2>3. ASSUME NEW k \in 1 .. b, k > a
        PROVE  Cell(k - 1) # head
    <3>1. k - 1 \in Nat /\ k - 1 < b /\ b < (k - 1) + Capacity
      BY <1>1, <2>1, <2>3
    <3> QED
      BY <3>1, <1>1, <1>2, CellFacts
  <2>4. ASSUME NEW k \in 1 .. b, k > a
        PROVE  buffer'[Cell(k - 1)] = buffer[Cell(k - 1)]
    <3>1. Cell(k - 1) \in Index
      BY <1>1, <2>4, CellFacts, k - 1 \in Nat
    <3> QED
      BY <3>1, <2>3, <2>4, <1>5, <1>1 DEF PushWrite, TypeOK
  <2>5. buffer'[head] = pval
    BY <1>5, <1>1, <1>2 DEF PushWrite, TypeOK
  <2> QED
    BY <1>5, <2>1, <2>2, <2>4, <2>5 DEF PushWrite, cons, IndInv
<1>6. CASE PushStore
  <2>1. b - a < Capacity - 1 /\ pval \in Values /\ buffer[head] = pval
    BY <1>6 DEF PushStore, IndInv
  <2>2. /\ pushed' \in Seq(Values)
        /\ Len(pushed') = b + 1
        /\ pushed'[b + 1] = pval
        /\ \A k \in 1 .. b : pushed'[k] = pushed[k]
    BY <1>6, <1>1, <2>1 DEF PushStore, TypeOK
  <2>3. head' = Cell(b + 1) /\ head' \in Index
    BY <1>6, <1>1, <1>2, CellFacts, b + 1 \in Nat DEF PushStore
  <2>4. TypeOK'
    BY <1>6, <1>1, <2>2, <2>3 DEF PushStore, cons, TypeOK
  <2>5. buffer[Cell((b + 1) - 1)] = pushed'[b + 1]
    BY <1>1, <1>2, <2>1, <2>2
  <2>6. UNCHANGED <<buffer, tail, cpc, cval, chead, notEmpty, popped>> /\ ppc' = "idle"
    BY <1>6 DEF PushStore, cons
  <2>7. \A k \in 1 .. b + 1 :
           k > a => \/ buffer'[Cell(k - 1)] = pushed'[k]
                    \/ cpc' = "store" /\ k = a + 1
    BY <1>1, <2>2, <2>5, <2>6 DEF IndInv
  <2> QED
    BY <1>1, <2>1, <2>2, <2>3, <2>4, <2>6, <2>7 DEF IndInv
<1> QED
  BY <1>3, <1>4, <1>5, <1>6 DEF ProducerNext

\* The consumer's steps.
LEMMA ConsumerStep ==
  ASSUME IndInv, ConsumerNext
  PROVE  IndInv'
<1> USE CapacityAssumption
<1> DEFINE a == Len(popped)
           b == Len(pushed)
<1>1. TypeOK /\ a \in Nat /\ b \in Nat /\ a <= b
  BY DEF IndInv, TypeOK
<1>2. head \in Index /\ tail \in Index /\ head = Cell(b) /\ tail = Cell(a)
  BY DEF IndInv, TypeOK
<1>3. CASE PopCheck
  <2>1. a < b
    BY <1>1, <1>3, IndicesTellFill DEF PopCheck
  <2>2. TypeOK'
    BY <1>3, <1>1 DEF PopCheck, prod, TypeOK
  <2> QED
    BY <1>3, <2>1, <2>2 DEF PopCheck, prod, IndInv
<1>4. CASE PopEmpty
  <2>1. TypeOK'
    BY <1>4, <1>1 DEF PopEmpty, prod, TypeOK
  <2> QED
    BY <1>4, <2>1 DEF PopEmpty, prod, IndInv
<1>5. CASE PopRead
  <2>1. a < b /\ a + 1 \in 1 .. b /\ (a + 1) - 1 = a
    BY <1>5, <1>1 DEF PopRead, IndInv
  <2>2. buffer[tail] = pushed[a + 1] /\ pushed[a + 1] \in Values
    BY <1>5, <1>1, <1>2, <2>1 DEF PopRead, IndInv, TypeOK
  <2>3. TypeOK'
    BY <1>5, <1>1, <1>2, <2>2 DEF PopRead, prod, TypeOK
  <2>4. ASSUME NEW k \in 1 .. b, k > a + 1
        PROVE  buffer'[Cell(k - 1)] = buffer[Cell(k - 1)]
    <3>1. k - 1 \in Nat /\ a < k - 1 /\ k - 1 < a + Capacity
      BY <1>1, <2>4 DEF IndInv
    <3>2. Cell(k - 1) # tail
      BY <3>1, <1>1, <1>2, CellFacts
    <3>3. Cell(k - 1) \in Index
      BY <3>1, CellFacts
    <3> QED
      BY <3>2, <3>3, <1>5, <1>1 DEF PopRead, TypeOK
  <2>5. ppc = "store" => buffer'[head] = buffer[head]
    <3> SUFFICES ASSUME ppc = "store" PROVE head # tail
      BY <1>5, <1>1, <1>2 DEF PopRead, TypeOK
    <3> QED
      BY <1>1, <1>2, <2>1, CellFacts DEF IndInv
  <2>6. \A k \in 1 .. b :
           k > a => \/ buffer'[Cell(k - 1)] = pushed[k]
                    \/ cpc' = "store" /\ k = a + 1
    BY <1>1, <1>5, <2>4 DEF PopRead, IndInv
  <2> QED
    BY <1>5, <2>1, <2>2, <2>3, <2>5, <2>6 DEF PopRead, prod, IndInv
<1>6. CASE PopStore
  <2>1. a < b /\ cval = pushed[a + 1] /\ cval \in Values
    BY <1>6, <1>1 DEF PopStore, IndInv, TypeOK
  <2>2. /\ popped' \in Seq(Values \cup {Blank})
        /\ Len(popped') = a + 1
    BY <1>6, <1>1, <2>1 DEF PopStore, TypeOK
  <2>3. tail' = Cell(a + 1) /\ tail' \in Index
    BY <1>6, <1>1, <1>2, CellFacts, a + 1 \in Nat DEF PopStore
  <2>4. TypeOK'
    BY <1>6, <1>1, <2>2, <2>3 DEF PopStore, prod, TypeOK
  <2>5. UNCHANGED <<buffer, head, ppc, pval, chead, pushed>> /\ cpc' = "idle" /\ ~notEmpty'
    BY <1>6 DEF PopStore, prod
  <2> QED
    BY <1>1, <1>6, <2>1, <2>2, <2>3, <2>4, <2>5 DEF PopStore, IndInv
<1>7. CASE EmptyLoadHead
  <2>1. TypeOK'
    BY <1>7, <1>1 DEF EmptyLoadHead, prod, TypeOK
  <2>2. head # tail => a < b
    BY <1>1, <1>2
  <2> QED
    BY <1>7, <2>1, <2>2 DEF EmptyLoadHead, prod, IndInv
<1>8. CASE EmptyLoadTail
  <2>1. TypeOK'
    BY <1>8, <1>1 DEF EmptyLoadTail, prod, TypeOK, Index
  <2> QED
    BY <1>8, <2>1 DEF EmptyLoadTail, prod, IndInv
<1> QED
  BY <1>3, <1>4, <1>5, <1>6, <1>7, <1>8 DEF ConsumerNext

\* The invariant holds in every behaviour.
THEOREM Invariance == Spec => []IndInv
<1>1. IndInv /\ [Next]_vars => IndInv'
  <2> SUFFICES ASSUME IndInv, [Next]_vars PROVE IndInv'
    OBVIOUS
  <2>1. CASE UNCHANGED vars
    BY <2>1 DEF vars, prod, cons, IndInv, TypeOK
  <2> QED
    BY <2>1, ProducerStep, ConsumerStep DEF Next
<1> QED
  BY <1>1, InitIndInv, PTL DEF Spec

\* Every variable keeps its type.
THEOREM TypeCorrect == Spec => []TypeOK
BY Invariance, PTL DEF IndInv

\* The cell being written by try_push is never the cell being moved out of by try_pop.
THEOREM RaceFree == Spec => []NoDataRace
<1>1. IndInv => NoDataRace
  <2> SUFFICES ASSUME IndInv, ppc = "write", cpc = "read", head = tail
               PROVE  FALSE
    BY DEF NoDataRace
  <2> DEFINE a == Len(popped)
             b == Len(pushed)
  <2>1. a \in Nat /\ b \in Nat /\ a < b /\ b < a + Capacity
    BY CapacityAssumption DEF IndInv, TypeOK
  <2>2. Cell(a) = Cell(b)
    BY DEF IndInv
  <2> HIDE DEF a, b
  <2> QED
    BY <2>1, <2>2, CapacityAssumption, CellFacts
<1> QED
  BY <1>1, Invariance, PTL

\* Once empty() has told the consumer that something is there, try_pop does not
\* come back with nothing.
THEOREM NotEmptyMeansPop == Spec => NotEmptyStays
<1>1. IndInv /\ [Next]_vars => [PopEmpty => ~notEmpty]_vars
  <2> SUFFICES ASSUME IndInv, PopEmpty PROVE ~notEmpty
    OBVIOUS
  <2>1. Len(popped) = Len(pushed)
    BY IndicesTellFill DEF PopEmpty
  <2>2. Len(popped) \in Nat
    BY DEF IndInv, TypeOK
  <2> QED
    BY <2>1, <2>2 DEF IndInv
<1> QED
  BY <1>1, Invariance, PTL DEF Spec, NotEmptyStays

\* try_push and try_pop are a first-in first-out queue of Capacity - 1 places.
THEOREM ImplementsFifo == Spec => FifoSpec
<1>1. Init => Fifo!Init
  BY DEF Init, Fifo!Init
<1>2. IndInv /\ [Next]_vars => [Fifo!Next]_<<pushed, popped>>
  <2> SUFFICES ASSUME IndInv, Next, ~UNCHANGED <<pushed, popped>>
               PROVE  Fifo!Next
    BY DEF vars, prod, cons
  <2>1. CASE PushStore
    <3>1. Fifo!Push(pval) /\ pval \in Values
      BY <2>1 DEF PushStore, cons, IndInv, Fifo!Push
    <3> QED
      BY <3>1 DEF Fifo!Next
  <2>2. CASE PopStore
    <3>1. Fifo!Pop
      BY <2>2 DEF PopStore, prod, IndInv, Fifo!Pop
    <3> QED
      BY <3>1 DEF Fifo!Next
  <2> QED
    BY <2>1, <2>2 DEF Next, ProducerNext, ConsumerNext, PushFull, PushCheck, PushWrite,
       PopCheck, PopEmpty, PopRead, EmptyLoadHead, EmptyLoadTail, vars, prod, cons
<1> QED
  BY <1>1, <1>2, Invariance, PTL DEF Spec, FifoSpec, Fifo!Spec
=============================================================================
