------------------------- MODULE MpmcRingBuffer_proofs -------------------------
(***************************************************************************)
(* The multi-producer multi-consumer ring is correct for every number of   *)
(* threads, every set of values and every capacity of at least two cells.  *)
(* With one cell it is not (README, section 6): a filled cell of ticket p  *)
(* has sequence p + 1, the very number that makes it free for the next     *)
(* ticket.                                                                 *)
(***************************************************************************)
EXTENDS MpmcRingBuffer, RingArithmetic

ManyCells == Capacity >= 2

\* The parts of the inductive invariant.

Counts ==
    /\ Len(log) = enq /\ Len(got) = deq
    /\ deq <= enq /\ enq <= deq + Capacity

\* A push that has won its ticket owns the cell, and the sequence says "free".
Writers ==
    \A t \in Threads : Writing(t) =>
        /\ deq <= pos[t] /\ pos[t] < enq
        /\ seq[Cell(pos[t])] = pos[t]
        /\ val[t] = log[pos[t] + 1]
        /\ pc[t] = "pushStore" => data[Cell(pos[t])] = val[t]

\* A pop that has won its ticket owns the cell, and the sequence says "filled".
Readers ==
    \A t \in Threads : Reading(t) =>
        /\ enq <= pos[t] + Capacity /\ pos[t] < deq
        /\ seq[Cell(pos[t])] = pos[t] + 1
        /\ pc[t] = "popRead" => data[Cell(pos[t])] = log[pos[t] + 1]

\* No ticket is won twice.
Distinct ==
    \A t, u \in Threads :
        /\ pos[t] = pos[u]
        /\ (Writing(t) /\ Writing(u)) \/ (Reading(t) /\ Reading(u))
        => t = u

\* The lap of cells that starts at deq: first the filled ones, then the free ones,
\* except those a thread has in hand.
Lap ==
    \A k \in Nat : deq <= k /\ k < deq + Capacity =>
        IF k < enq
        THEN \/ seq[Cell(k)] = k + 1 /\ data[Cell(k)] = log[k + 1]
             \/ \E t \in Threads : Writing(t) /\ pos[t] = k
        ELSE \/ seq[Cell(k)] = k
             \/ \E t \in Threads : Reading(t) /\ pos[t] + Capacity = k

\* A sequence never falls behind a ticket that was won.
Passed ==
    /\ \A p \in Nat : p < enq => seq[Cell(p)] >= p
    /\ \A p \in Nat : p < deq => seq[Cell(p)] >= p + 1

\* What a thread has seen before its CAS stays true: sequences only grow.
Pending ==
    \A t \in Threads :
        /\ pc[t] \in {"pushSeq", "pushCas"} => pos[t] <= enq
        /\ pc[t] \in {"popSeq", "popCas", "observe"} => pos[t] <= deq
        /\ pc[t] = "pushCas" => seq[Cell(pos[t])] >= pos[t]
        /\ pc[t] = "popCas" => seq[Cell(pos[t])] >= pos[t] + 1
        /\ pc[t] \in Pushing => val[t] \in Values

\* A pop has come back with the value of its ticket, or is about to.
Delivered ==
    \A k \in 1 .. deq :
        got[k] = log[k] \/ \E t \in Threads : pc[t] = "popRead" /\ pos[t] = k - 1

IndInv ==
    /\ TypeOK /\ Counts /\ Writers /\ Readers
    /\ Distinct /\ Lap /\ Passed /\ Pending /\ Delivered

-----------------------------------------------------------------------------
\* What the proofs need to know of cells.
LEMMA CellFacts ==
  /\ \A p \in Nat : Cell(p) \in Index
  /\ \A p \in Nat : Cell(p + Capacity) = Cell(p)
  /\ \A p, q \in Nat : Cell(p) = Cell(q) => p = q \/ p >= q + Capacity \/ q >= p + Capacity
<1>0. Capacity \in Nat /\ Capacity >= 1
  BY CapacityAssumption
<1>1. \A p \in Nat : Cell(p) \in Index
  BY <1>0, ModIsIndex, Zenon DEF Cell, Index
<1>2. \A p \in Nat : Cell(p + Capacity) = Cell(p)
  BY <1>0, SameCellNextLap, Zenon DEF Cell
<1>3. ASSUME NEW p \in Nat, NEW q \in Nat, Cell(p) = Cell(q)
      PROVE  p = q \/ p >= q + Capacity \/ q >= p + Capacity
  BY <1>0, <1>3, SameCellApart, Zenon DEF Cell
<1> QED
  BY <1>1, <1>2, <1>3

LEMMA InitIndInv == Init => IndInv
<1> SUFFICES ASSUME Init PROVE IndInv
  OBVIOUS
<1> USE CapacityAssumption
<1>1. TypeOK
  BY DEF Init, TypeOK, Index
<1>2. \A t \in Threads : ~Writing(t) /\ ~Reading(t) /\ pc[t] = "idle"
  BY DEF Init, Writing, Reading
<1>3. ASSUME NEW k \in Nat, k < Capacity
      PROVE  seq[Cell(k)] = k
  BY <1>3 DEF Init, Cell, Index
<1>4. Counts /\ Passed /\ Delivered
  BY DEF Init, Counts, Passed, Delivered
<1>5. Lap
  BY <1>3 DEF Init, Lap
<1> QED
  BY <1>1, <1>2, <1>4, <1>5 DEF IndInv, Writers, Readers, Distinct, Pending, Pushing

-----------------------------------------------------------------------------
\* A CAS that can succeed finds a cell that is still as the thread saw it.
LEMMA PushCasFindsFree ==
  ASSUME ManyCells, IndInv, NEW t \in Threads, pc[t] = "pushCas", pos[t] = enq
  PROVE  /\ enq < deq + Capacity
         /\ seq[Cell(enq)] = enq
         /\ ~ \E u \in Threads : Reading(u) /\ pos[u] + Capacity = enq
<1> USE CapacityAssumption DEF ManyCells
<1>1. enq \in Nat /\ deq \in Nat /\ deq <= enq /\ enq <= deq + Capacity /\ seq \in [Index -> Nat]
  BY DEF IndInv, TypeOK, Counts
<1>2. seq[Cell(enq)] >= enq
  BY DEF IndInv, Pending
<1>3. ASSUME enq = deq + Capacity
      PROVE  FALSE
  <2>1. Cell(enq) = Cell(deq) /\ deq < enq /\ deq < deq + Capacity
    BY <1>1, <1>3, CellFacts
  <2>2. seq[Cell(deq)] = deq + 1 \/ seq[Cell(deq)] = deq
    BY <2>1, <1>1 DEF IndInv, Lap, Writers
  <2> QED
    BY <2>1, <2>2, <1>1, <1>2, <1>3
<1>4. enq < deq + Capacity
  BY <1>1, <1>3
<1>5. ASSUME NEW u \in Threads, Reading(u), pos[u] + Capacity = enq
      PROVE  FALSE
  <2>1. pos[u] \in Nat /\ seq[Cell(pos[u])] = pos[u] + 1
    BY <1>5 DEF IndInv, TypeOK, Readers
  <2>2. Cell(pos[u]) = Cell(enq)
    BY <1>5, <2>1, CellFacts
  <2> QED
    BY <1>1, <1>2, <1>5, <2>1, <2>2
<1>6. seq[Cell(enq)] = enq
  BY <1>1, <1>4, <1>5 DEF IndInv, Lap
<1> QED
  BY <1>4, <1>5, <1>6

LEMMA PopCasFindsFilled ==
  ASSUME ManyCells, IndInv, NEW t \in Threads, pc[t] = "popCas", pos[t] = deq
  PROVE  /\ deq < enq
         /\ seq[Cell(deq)] = deq + 1
         /\ data[Cell(deq)] = log[deq + 1]
         /\ ~ \E u \in Threads : Writing(u) /\ pos[u] = deq
<1> USE CapacityAssumption DEF ManyCells
<1>1. enq \in Nat /\ deq \in Nat /\ deq <= enq /\ deq < deq + Capacity /\ seq \in [Index -> Nat]
  BY DEF IndInv, TypeOK, Counts
<1>2. seq[Cell(deq)] >= deq + 1
  BY DEF IndInv, Pending
<1>3. ~ \E u \in Threads : Writing(u) /\ pos[u] = deq
  BY <1>1, <1>2 DEF IndInv, Writers
<1>4. ASSUME deq = enq
      PROVE  FALSE
  <2>1. PICK u \in Threads : Reading(u) /\ pos[u] + Capacity = deq
    BY <1>1, <1>2, <1>4 DEF IndInv, Lap
  <2>2. pos[u] \in Nat /\ seq[Cell(pos[u])] = pos[u] + 1
    BY <2>1 DEF IndInv, TypeOK, Readers
  <2>3. Cell(pos[u]) = Cell(deq)
    BY <2>1, <2>2, CellFacts
  <2> QED
    BY <1>1, <1>2, <2>1, <2>2, <2>3
<1>5. deq < enq
  BY <1>1, <1>4
<1>6. seq[Cell(deq)] = deq + 1 /\ data[Cell(deq)] = log[deq + 1]
  BY <1>1, <1>3, <1>5 DEF IndInv, Lap
<1> QED
  BY <1>3, <1>5, <1>6

-----------------------------------------------------------------------------
\* A step of thread t that touches nothing shared and neither takes nor gives up a cell.
LEMMA LocalStep ==
  ASSUME IndInv, NEW t \in Threads,
         TypeOK', Pending',
         UNCHANGED <<cells, enq, deq, log, got>>,
         ~Writing(t), ~Reading(t), ~Writing(t)', ~Reading(t)',
         \A u \in Threads \ {t} : pc'[u] = pc[u] /\ pos'[u] = pos[u] /\ val'[u] = val[u]
  PROVE  IndInv'
<1>1. \A u \in Threads : (Writing(u)' <=> Writing(u)) /\ (Reading(u)' <=> Reading(u))
  BY DEF Writing, Reading
<1>2. \A u \in Threads : Writing(u) \/ Reading(u) =>
        u # t /\ pc'[u] = pc[u] /\ pos'[u] = pos[u] /\ val'[u] = val[u]
  OBVIOUS
<1>3. UNCHANGED <<seq, data, enq, deq, log, got>>
  BY DEF cells
<1>4. Counts' /\ Passed'
  BY <1>3 DEF IndInv, Counts, Passed
<1>5. Writers'
  BY <1>1, <1>2, <1>3 DEF IndInv, Writers
<1>6. Readers'
  BY <1>1, <1>2, <1>3 DEF IndInv, Readers
<1>7. Distinct'
  BY <1>1, <1>2 DEF IndInv, Distinct
<1>8. Lap'
  BY <1>1, <1>2, <1>3 DEF IndInv, Lap
<1>9. Delivered'
  <2> SUFFICES ASSUME NEW k \in 1 .. deq, got[k] # log[k]
               PROVE  \E u \in Threads : pc'[u] = "popRead" /\ pos'[u] = k - 1
    BY <1>3 DEF Delivered
  <2>1. PICK u \in Threads : pc[u] = "popRead" /\ pos[u] = k - 1
    BY DEF IndInv, Delivered
  <2>2. Reading(u)
    BY <2>1 DEF Reading
  <2> QED
    BY <1>2, <2>1, <2>2
<1> QED
  BY <1>4, <1>5, <1>6, <1>7, <1>8, <1>9 DEF IndInv

LEMMA LocalSteps ==
  ASSUME IndInv, NEW t \in Threads,
         \/ \E v \in Values : PushCall(t, v)
         \/ PushLoad(t) \/ PushSeqFree(t) \/ PushSeqFull(t) \/ PushSeqBehind(t) \/ PushCasFails(t)
         \/ PopCall(t) \/ PopLoad(t) \/ PopSeqReady(t) \/ PopSeqEmpty(t) \/ PopSeqBehind(t) \/ PopCasFails(t)
         \/ ObserveLoad(t) \/ ObserveReturn(t)
  PROVE  IndInv'
<1> USE DEF Goto, Return, Pushing, Popping, Writing, Reading
<1>1. TypeOK /\ Pending /\ Counts
  BY DEF IndInv
<1>2. enq \in Nat /\ deq \in Nat /\ deq <= enq /\ seq \in [Index -> Nat]
  BY <1>1 DEF TypeOK, Counts
<1>3. ASSUME NEW v \in Values, PushCall(t, v) PROVE IndInv'
  <2>1. TypeOK'
    BY <1>3, <1>1 DEF PushCall, TypeOK, cells
  <2>2. Pending'
    BY <1>3, <1>1 DEF PushCall, TypeOK, Pending, cells
  <2> QED
    BY <1>3, <2>1, <2>2, <1>1, LocalStep DEF PushCall, TypeOK
<1>4. ASSUME PushLoad(t) PROVE IndInv'
  <2>1. TypeOK'
    BY <1>4, <1>1 DEF PushLoad, TypeOK, cells
  <2>2. Pending'
    BY <1>4, <1>1 DEF PushLoad, TypeOK, Pending, cells
  <2> QED
    BY <1>4, <2>1, <2>2, <1>1, LocalStep DEF PushLoad, TypeOK
<1>5. ASSUME PushSeqFree(t) PROVE IndInv'
  <2>1. TypeOK'
    BY <1>5, <1>1 DEF PushSeqFree, TypeOK, cells
  <2>2. Pending'
    BY <1>5, <1>1, <1>2 DEF PushSeqFree, Free, TypeOK, Pending, cells
  <2> QED
    BY <1>5, <2>1, <2>2, <1>1, LocalStep DEF PushSeqFree, TypeOK
<1>6. ASSUME PushSeqFull(t) PROVE IndInv'
  <2>1. TypeOK'
    BY <1>6, <1>1 DEF PushSeqFull, TypeOK, cells
  <2>2. Pending'
    BY <1>6, <1>1 DEF PushSeqFull, TypeOK, Pending, cells
  <2> QED
    BY <1>6, <2>1, <2>2, <1>1, LocalStep DEF PushSeqFull, TypeOK
<1>7. ASSUME PushSeqBehind(t) PROVE IndInv'
  <2>1. TypeOK'
    BY <1>7, <1>1 DEF PushSeqBehind, TypeOK, cells
  <2>2. Pending'
    BY <1>7, <1>1 DEF PushSeqBehind, TypeOK, Pending, cells
  <2> QED
    BY <1>7, <2>1, <2>2, <1>1, LocalStep DEF PushSeqBehind, TypeOK
<1>8. ASSUME PushCasFails(t) PROVE IndInv'
  <2>1. TypeOK'
    BY <1>8, <1>1 DEF PushCasFails, TypeOK, cells
  <2>2. Pending'
    BY <1>8, <1>1 DEF PushCasFails, TypeOK, Pending, cells
  <2> QED
    BY <1>8, <2>1, <2>2, <1>1, LocalStep DEF PushCasFails, TypeOK
<1>9. ASSUME PopCall(t) PROVE IndInv'
  <2>1. TypeOK'
    BY <1>9, <1>1 DEF PopCall, TypeOK, cells
  <2>2. Pending'
    BY <1>9, <1>1 DEF PopCall, TypeOK, Pending, cells
  <2> QED
    BY <1>9, <2>1, <2>2, <1>1, LocalStep DEF PopCall, TypeOK
<1>10. ASSUME PopLoad(t) PROVE IndInv'
  <2>1. TypeOK'
    BY <1>10, <1>1 DEF PopLoad, TypeOK, cells
  <2>2. Pending'
    BY <1>10, <1>1 DEF PopLoad, TypeOK, Pending, cells
  <2> QED
    BY <1>10, <2>1, <2>2, <1>1, LocalStep DEF PopLoad, TypeOK
<1>11. ASSUME PopSeqReady(t) PROVE IndInv'
  <2>1. TypeOK'
    BY <1>11, <1>1 DEF PopSeqReady, TypeOK, cells
  <2>2. Pending'
    BY <1>11, <1>1, <1>2 DEF PopSeqReady, Ready, TypeOK, Pending, cells
  <2> QED
    BY <1>11, <2>1, <2>2, <1>1, LocalStep DEF PopSeqReady, TypeOK
<1>12. ASSUME PopSeqEmpty(t) PROVE IndInv'
  <2>1. TypeOK'
    BY <1>12, <1>1 DEF PopSeqEmpty, TypeOK, cells
  <2>2. Pending'
    BY <1>12, <1>1 DEF PopSeqEmpty, TypeOK, Pending, cells
  <2> QED
    BY <1>12, <2>1, <2>2, <1>1, LocalStep DEF PopSeqEmpty, TypeOK
<1>13. ASSUME PopSeqBehind(t) PROVE IndInv'
  <2>1. TypeOK'
    BY <1>13, <1>1 DEF PopSeqBehind, TypeOK, cells
  <2>2. Pending'
    BY <1>13, <1>1 DEF PopSeqBehind, TypeOK, Pending, cells
  <2> QED
    BY <1>13, <2>1, <2>2, <1>1, LocalStep DEF PopSeqBehind, TypeOK
<1>14. ASSUME PopCasFails(t) PROVE IndInv'
  <2>1. TypeOK'
    BY <1>14, <1>1 DEF PopCasFails, TypeOK, cells
  <2>2. Pending'
    BY <1>14, <1>1 DEF PopCasFails, TypeOK, Pending, cells
  <2> QED
    BY <1>14, <2>1, <2>2, <1>1, LocalStep DEF PopCasFails, TypeOK
<1>15. ASSUME ObserveLoad(t) PROVE IndInv'
  <2>1. TypeOK'
    BY <1>15, <1>1 DEF ObserveLoad, TypeOK, cells
  <2>2. Pending'
    BY <1>15, <1>1 DEF ObserveLoad, TypeOK, Pending, cells
  <2> QED
    BY <1>15, <2>1, <2>2, <1>1, LocalStep DEF ObserveLoad, TypeOK
<1>16. ASSUME ObserveReturn(t) PROVE IndInv'
  <2>1. TypeOK'
    BY <1>16, <1>1 DEF ObserveReturn, TypeOK, cells
  <2>2. Pending'
    BY <1>16, <1>1 DEF ObserveReturn, TypeOK, Pending, cells
  <2> QED
    BY <1>16, <2>1, <2>2, <1>1, LocalStep DEF ObserveReturn, TypeOK
<1> QED
  BY <1>3, <1>4, <1>5, <1>6, <1>7, <1>8, <1>9, <1>10, <1>11, <1>12, <1>13, <1>14, <1>15, <1>16

-----------------------------------------------------------------------------
(* The six steps that move a cell from hand to hand. *)

LEMMA PushCasWinsStep ==
  ASSUME ManyCells, IndInv, NEW t \in Threads, PushCasWins(t)
  PROVE  IndInv'
<1> USE CapacityAssumption
<1>1. TypeOK /\ Counts
  BY DEF IndInv
<1>2. enq \in Nat /\ deq \in Nat /\ deq <= enq /\ seq \in [Index -> Nat] /\ log \in Seq(Values)
  BY <1>1 DEF TypeOK, Counts
<1>3. pc[t] = "pushCas" /\ pos[t] = enq /\ val[t] \in Values
  BY DEF PushCasWins, CasMaySucceed, IndInv, Pending, Pushing
<1>4. /\ enq < deq + Capacity
      /\ seq[Cell(enq)] = enq
      /\ ~ \E u \in Threads : Reading(u) /\ pos[u] + Capacity = enq
  BY <1>3, PushCasFindsFree
<1>5. /\ enq' = enq + 1 /\ pc' = [pc EXCEPT ![t] = "pushWrite"]
      /\ UNCHANGED <<seq, data, deq, pos, val, got>>
  BY <1>3 DEF PushCasWins, Goto, cells
<1>6. /\ log' \in Seq(Values) /\ Len(log') = enq + 1 /\ log'[enq + 1] = val[t]
      /\ \A k \in 1 .. enq : log'[k] = log[k]
  <2>1. log' = Append(log, val[t]) /\ Len(log) = enq
    BY <1>1 DEF PushCasWins, Counts
  <2> QED
    BY <1>2, <1>3, <2>1
<1>7. /\ \A u \in Threads : Writing(u)' <=> (Writing(u) \/ u = t)
      /\ \A u \in Threads : Reading(u)' <=> Reading(u)
      /\ ~Writing(t) /\ ~Reading(t) /\ pc'[t] = "pushWrite"
      /\ \A u \in Threads \ {t} : pc'[u] = pc[u]
  BY <1>1, <1>3, <1>5 DEF TypeOK, Writing, Reading
<1>8. TypeOK'
  BY <1>1, <1>2, <1>5, <1>6 DEF TypeOK, Pushing
<1>9. Counts'
  BY <1>1, <1>2, <1>4, <1>5, <1>6 DEF Counts
<1>10. Writers'
  <2> SUFFICES ASSUME NEW u \in Threads, Writing(u)'
               PROVE  /\ deq <= pos[u] /\ pos[u] < enq + 1
                      /\ seq[Cell(pos[u])] = pos[u]
                      /\ val[u] = log'[pos[u] + 1]
                      /\ pc'[u] = "pushStore" => data[Cell(pos[u])] = val[u]
    BY <1>5 DEF Writers
  <2>1. CASE u = t
    BY <2>1, <1>2, <1>3, <1>4, <1>6, <1>7
  <2>2. CASE u # t
    <3>1. Writing(u) /\ pc'[u] = pc[u]
      BY <2>2, <1>7
    <3>2. /\ deq <= pos[u] /\ pos[u] < enq /\ pos[u] \in Nat
          /\ seq[Cell(pos[u])] = pos[u]
          /\ val[u] = log[pos[u] + 1]
          /\ pc[u] = "pushStore" => data[Cell(pos[u])] = val[u]
      BY <3>1, <1>1 DEF IndInv, Writers, TypeOK
    <3>3. log'[pos[u] + 1] = log[pos[u] + 1]
      BY <3>2, <1>2, <1>6
    <3> QED
      BY <3>1, <3>2, <3>3, <1>2
  <2> QED
    BY <2>1, <2>2
<1>11. Readers'
  <2> SUFFICES ASSUME NEW u \in Threads, Reading(u)
               PROVE  /\ enq + 1 <= pos[u] + Capacity /\ pos[u] < deq
                      /\ seq[Cell(pos[u])] = pos[u] + 1
                      /\ pc[u] = "popRead" => data[Cell(pos[u])] = log'[pos[u] + 1]
    BY <1>5, <1>7 DEF Readers
  <2>1. /\ enq <= pos[u] + Capacity /\ pos[u] < deq /\ pos[u] \in Nat
        /\ seq[Cell(pos[u])] = pos[u] + 1
        /\ pc[u] = "popRead" => data[Cell(pos[u])] = log[pos[u] + 1]
    BY <1>1 DEF IndInv, Readers, TypeOK
  <2>2. pos[u] + Capacity # enq
    BY <1>4
  <2>3. log'[pos[u] + 1] = log[pos[u] + 1]
    BY <2>1, <1>2, <1>6
  <2> QED
    BY <2>1, <2>2, <2>3, <1>2
<1>12. Distinct'
  <2>1. \A u \in Threads : Writing(u) => pos[u] # pos[t]
    BY <1>2, <1>3 DEF IndInv, Writers
  <2> QED
    BY <2>1, <1>5, <1>7 DEF IndInv, Distinct
<1>13. Lap'
  <2> SUFFICES ASSUME NEW k \in Nat, deq <= k, k < deq + Capacity
               PROVE  IF k < enq + 1
                      THEN \/ seq[Cell(k)] = k + 1 /\ data[Cell(k)] = log'[k + 1]
                           \/ \E u \in Threads : Writing(u)' /\ pos[u] = k
                      ELSE \/ seq[Cell(k)] = k
                           \/ \E u \in Threads : Reading(u)' /\ pos[u] + Capacity = k
    BY <1>5 DEF Lap
  <2>1. CASE k < enq
    <3>1. log'[k + 1] = log[k + 1]
      BY <2>1, <1>2, <1>6
    <3>2. \/ seq[Cell(k)] = k + 1 /\ data[Cell(k)] = log[k + 1]
          \/ \E u \in Threads : Writing(u) /\ pos[u] = k
      BY <2>1 DEF IndInv, Lap
    <3> QED
      BY <2>1, <3>1, <3>2, <1>2, <1>7
  <2>2. CASE k = enq
    BY <2>2, <1>2, <1>3, <1>7
  <2>3. CASE k > enq
    <3>1. \/ seq[Cell(k)] = k
          \/ \E u \in Threads : Reading(u) /\ pos[u] + Capacity = k
      BY <2>3, <1>2 DEF IndInv, Lap
    <3> QED
      BY <2>3, <3>1, <1>2, <1>7
  <2> QED
    BY <2>1, <2>2, <2>3, <1>2
<1>14. Passed'
  <2> SUFFICES ASSUME NEW p \in Nat, p < enq + 1
               PROVE  seq[Cell(p)] >= p
    BY <1>5 DEF IndInv, Passed
  <2> QED
    BY <1>2, <1>4 DEF IndInv, Passed
<1>15. Pending'
  BY <1>2, <1>5, <1>7, <1>3, <1>1 DEF IndInv, Pending, Pushing, TypeOK
<1>16. Delivered'
  <2> SUFFICES ASSUME NEW k \in 1 .. deq, got[k] # log'[k]
               PROVE  \E u \in Threads : pc'[u] = "popRead" /\ pos[u] = k - 1
    BY <1>5 DEF Delivered
  <2>1. log'[k] = log[k]
    BY <1>2, <1>6
  <2>2. PICK u \in Threads : pc[u] = "popRead" /\ pos[u] = k - 1
    BY <2>1 DEF IndInv, Delivered
  <2> QED
    BY <2>2, <1>3, <1>7
<1> QED
  BY <1>8, <1>9, <1>10, <1>11, <1>12, <1>13, <1>14, <1>15, <1>16 DEF IndInv

LEMMA PushWriteStep ==
  ASSUME ManyCells, IndInv, NEW t \in Threads, PushWrite(t)
  PROVE  IndInv'
<1> USE CapacityAssumption
<1>1. TypeOK /\ Counts /\ pc[t] = "pushWrite"
  BY DEF IndInv, PushWrite
<1>2. enq \in Nat /\ deq \in Nat /\ deq <= enq /\ enq <= deq + Capacity /\ pos[t] \in Nat
  BY <1>1 DEF TypeOK, Counts
<1>3. /\ Writing(t) /\ deq <= pos[t] /\ pos[t] < enq /\ seq[Cell(pos[t])] = pos[t]
      /\ val[t] = log[pos[t] + 1] /\ val[t] \in Values
  BY <1>1 DEF IndInv, Writers, Writing, Pending, Pushing
<1>4. /\ data' = [data EXCEPT ![Cell(pos[t])] = val[t]]
      /\ pc' = [pc EXCEPT ![t] = "pushStore"]
      /\ UNCHANGED <<seq, enq, deq, pos, val, log, got>>
  BY DEF PushWrite, Goto
<1>5. /\ \A u \in Threads : (Writing(u)' <=> Writing(u)) /\ (Reading(u)' <=> Reading(u))
      /\ ~Reading(t) /\ pc'[t] = "pushStore"
      /\ \A u \in Threads \ {t} : pc'[u] = pc[u]
  BY <1>1, <1>4 DEF TypeOK, Writing, Reading
<1>6. TypeOK'
  BY <1>1, <1>3, <1>4 DEF TypeOK, Pushing
<1>7. \A p \in Nat : Cell(p) # Cell(pos[t]) => data'[Cell(p)] = data[Cell(p)]
  BY <1>1, <1>4, CellFacts DEF TypeOK
<1>8. data'[Cell(pos[t])] = val[t]
  BY <1>1, <1>2, <1>4, CellFacts DEF TypeOK
<1>9. Counts' /\ Passed' /\ Distinct'
  BY <1>4, <1>5 DEF IndInv, Counts, Passed, Distinct
<1>10. Writers'
  <2> SUFFICES ASSUME NEW u \in Threads, Writing(u)
               PROVE  /\ deq <= pos[u] /\ pos[u] < enq
                      /\ seq[Cell(pos[u])] = pos[u]
                      /\ val[u] = log[pos[u] + 1]
                      /\ pc'[u] = "pushStore" => data'[Cell(pos[u])] = val[u]
    BY <1>4, <1>5 DEF Writers
  <2>1. /\ deq <= pos[u] /\ pos[u] < enq /\ pos[u] \in Nat
        /\ seq[Cell(pos[u])] = pos[u]
        /\ val[u] = log[pos[u] + 1]
        /\ pc[u] = "pushStore" => data[Cell(pos[u])] = val[u]
    BY <1>1 DEF IndInv, Writers, TypeOK
  <2>2. CASE u = t
    BY <2>1, <2>2, <1>8
  <2>3. CASE u # t
    <3>1. Cell(pos[u]) # Cell(pos[t])
      BY <2>1, <2>3, <1>2, <1>3, CellFacts DEF IndInv, Distinct
    <3> QED
      BY <2>1, <2>3, <3>1, <1>5, <1>7
  <2> QED
    BY <2>2, <2>3
<1>11. Readers'
  <2> SUFFICES ASSUME NEW u \in Threads, Reading(u)
               PROVE  data'[Cell(pos[u])] = data[Cell(pos[u])]
    BY <1>1, <1>4, <1>5 DEF IndInv, Readers, TypeOK, Reading
  <2>1. enq <= pos[u] + Capacity /\ pos[u] < deq /\ pos[u] \in Nat
    BY <1>1 DEF IndInv, Readers, TypeOK
  <2>2. Cell(pos[u]) # Cell(pos[t])
    BY <2>1, <1>2, <1>3, CellFacts
  <2> QED
    BY <2>1, <2>2, <1>7
<1>12. Lap'
  <2> SUFFICES ASSUME NEW k \in Nat, deq <= k, k < deq + Capacity, k < enq
               PROVE  \/ seq[Cell(k)] = k + 1 /\ data'[Cell(k)] = log[k + 1]
                      \/ \E u \in Threads : Writing(u) /\ pos[u] = k
    BY <1>4, <1>5 DEF IndInv, Lap
  <2>1. CASE k = pos[t]
    BY <2>1, <1>3
  <2>2. CASE k # pos[t]
    <3>1. Cell(k) # Cell(pos[t])
      BY <2>2, <1>2, <1>3, CellFacts
    <3> QED
      BY <3>1, <1>7 DEF IndInv, Lap
  <2> QED
    BY <2>1, <2>2
<1>13. Pending'
  BY <1>1, <1>3, <1>4, <1>5 DEF IndInv, Pending, Pushing
<1>14. Delivered'
  BY <1>1, <1>4, <1>5 DEF IndInv, Delivered
<1> QED
  BY <1>6, <1>9, <1>10, <1>11, <1>12, <1>13, <1>14 DEF IndInv

LEMMA PushStoreStep ==
  ASSUME ManyCells, IndInv, NEW t \in Threads, PushStore(t)
  PROVE  IndInv'
<1> USE CapacityAssumption
<1>1. TypeOK /\ Counts /\ pc[t] = "pushStore"
  BY DEF IndInv, PushStore
<1>2. /\ enq \in Nat /\ deq \in Nat /\ deq <= enq /\ enq <= deq + Capacity /\ pos[t] \in Nat
      /\ seq \in [Index -> Nat]
  BY <1>1 DEF TypeOK, Counts
<1>3. /\ Writing(t) /\ deq <= pos[t] /\ pos[t] < enq /\ seq[Cell(pos[t])] = pos[t]
      /\ data[Cell(pos[t])] = log[pos[t] + 1]
  BY <1>1 DEF IndInv, Writers, Writing
<1>4. /\ seq' = [seq EXCEPT ![Cell(pos[t])] = pos[t] + 1]
      /\ pc' = [pc EXCEPT ![t] = "idle"] /\ pos' = [pos EXCEPT ![t] = 0]
      /\ val' = [val EXCEPT ![t] = Blank]
      /\ UNCHANGED <<data, enq, deq, log, got>>
  BY DEF PushStore, Return, Goto
<1>5. /\ \A u \in Threads : Writing(u)' <=> (Writing(u) /\ u # t)
      /\ \A u \in Threads : Reading(u)' <=> Reading(u)
      /\ ~Reading(t) /\ pc'[t] = "idle"
      /\ \A u \in Threads \ {t} : pc'[u] = pc[u] /\ pos'[u] = pos[u] /\ val'[u] = val[u]
  BY <1>1, <1>4 DEF TypeOK, Writing, Reading
<1>6. TypeOK'
  <2>1. seq' \in [Index -> Nat]
    BY <1>2, <1>4, pos[t] + 1 \in Nat
  <2> QED
    BY <1>1, <1>4, <2>1 DEF TypeOK
<1>7. \A p \in Nat : Cell(p) # Cell(pos[t]) => seq'[Cell(p)] = seq[Cell(p)]
  BY <1>2, <1>4, CellFacts
<1>8. seq'[Cell(pos[t])] = pos[t] + 1
  BY <1>2, <1>4, CellFacts
<1>9. \A p \in Nat : seq'[Cell(p)] >= seq[Cell(p)] /\ seq[Cell(p)] \in Nat /\ seq'[Cell(p)] \in Nat
  <2> SUFFICES ASSUME NEW p \in Nat
               PROVE  seq'[Cell(p)] >= seq[Cell(p)] /\ seq[Cell(p)] \in Nat /\ seq'[Cell(p)] \in Nat
    OBVIOUS
  <2>1. seq[Cell(p)] \in Nat
    BY <1>2, CellFacts
  <2>2. CASE Cell(p) = Cell(pos[t])
    BY <2>2, <1>2, <1>3, <1>8
  <2>3. CASE Cell(p) # Cell(pos[t])
    BY <2>1, <2>3, <1>7
  <2> QED
    BY <2>1, <2>2, <2>3
<1>10. Counts'
  BY <1>4 DEF IndInv, Counts
<1>11. Writers'
  <2> SUFFICES ASSUME NEW u \in Threads, Writing(u), u # t
               PROVE  seq'[Cell(pos[u])] = pos[u]
    BY <1>4, <1>5 DEF IndInv, Writers
  <2>1. deq <= pos[u] /\ pos[u] < enq /\ pos[u] \in Nat /\ seq[Cell(pos[u])] = pos[u]
    BY <1>1 DEF IndInv, Writers, TypeOK
  <2>2. Cell(pos[u]) # Cell(pos[t])
    BY <2>1, <1>2, <1>3, CellFacts DEF IndInv, Distinct
  <2> QED
    BY <2>1, <2>2, <1>7
<1>12. Readers'
  <2> SUFFICES ASSUME NEW u \in Threads, Reading(u)
               PROVE  seq'[Cell(pos[u])] = seq[Cell(pos[u])]
    BY <1>1, <1>4, <1>5 DEF IndInv, Readers
  <2>1. enq <= pos[u] + Capacity /\ pos[u] < deq /\ pos[u] \in Nat
    BY <1>1 DEF IndInv, Readers, TypeOK
  <2>2. Cell(pos[u]) # Cell(pos[t])
    BY <2>1, <1>2, <1>3, CellFacts
  <2> QED
    BY <2>1, <2>2, <1>7
<1>13. Distinct'
  BY <1>5 DEF IndInv, Distinct
<1>14. Lap'
  <2> SUFFICES ASSUME NEW k \in Nat, deq <= k, k < deq + Capacity
               PROVE  IF k < enq
                      THEN \/ seq'[Cell(k)] = k + 1 /\ data[Cell(k)] = log[k + 1]
                           \/ \E u \in Threads : Writing(u)' /\ pos'[u] = k
                      ELSE \/ seq'[Cell(k)] = k
                           \/ \E u \in Threads : Reading(u)' /\ pos'[u] + Capacity = k
    BY <1>4 DEF Lap
  <2>1. CASE k = pos[t]
    BY <2>1, <1>3, <1>8
  <2>2. CASE k # pos[t]
    <3>1. Cell(k) # Cell(pos[t])
      BY <2>2, <1>2, <1>3, CellFacts
    <3>2. seq'[Cell(k)] = seq[Cell(k)]
      BY <3>1, <1>7
    <3>3. CASE k < enq
      <4>1. \/ seq[Cell(k)] = k + 1 /\ data[Cell(k)] = log[k + 1]
            \/ \E u \in Threads : Writing(u) /\ pos[u] = k
        BY <3>3 DEF IndInv, Lap
      <4> QED
        BY <3>2, <3>3, <4>1, <2>2, <1>5
    <3>4. CASE ~(k < enq)
      <4>1. \/ seq[Cell(k)] = k
            \/ \E u \in Threads : Reading(u) /\ pos[u] + Capacity = k
        BY <3>4 DEF IndInv, Lap
      <4> QED
        BY <3>2, <3>4, <4>1, <1>5
    <3> QED
      BY <3>3, <3>4
  <2> QED
    BY <2>1, <2>2
<1>15. Passed'
  BY <1>2, <1>4, <1>9 DEF IndInv, Passed
<1>16. Pending'
  <2> SUFFICES ASSUME NEW u \in Threads, u # t
               PROVE  /\ pc[u] \in {"pushSeq", "pushCas"} => pos[u] <= enq
                      /\ pc[u] \in {"popSeq", "popCas", "observe"} => pos[u] <= deq
                      /\ pc[u] = "pushCas" => seq'[Cell(pos[u])] >= pos[u]
                      /\ pc[u] = "popCas" => seq'[Cell(pos[u])] >= pos[u] + 1
                      /\ pc[u] \in Pushing => val[u] \in Values
    BY <1>4, <1>5 DEF Pending, Pushing
  <2>1. pos[u] \in Nat
    BY <1>1 DEF TypeOK
  <2> QED
    BY <2>1, <1>9 DEF IndInv, Pending
<1>17. Delivered'
  BY <1>1, <1>4, <1>5 DEF IndInv, Delivered
<1> QED
  BY <1>6, <1>10, <1>11, <1>12, <1>13, <1>14, <1>15, <1>16, <1>17 DEF IndInv

LEMMA PopCasWinsStep ==
  ASSUME ManyCells, IndInv, NEW t \in Threads, PopCasWins(t)
  PROVE  IndInv'
<1> USE CapacityAssumption
<1>1. TypeOK /\ Counts
  BY DEF IndInv
<1>2. /\ enq \in Nat /\ deq \in Nat /\ deq <= enq /\ enq <= deq + Capacity
      /\ seq \in [Index -> Nat] /\ got \in Seq(Values \cup {Blank}) /\ Len(got) = deq
  BY <1>1 DEF TypeOK, Counts
<1>3. pc[t] = "popCas" /\ pos[t] = deq
  BY DEF PopCasWins, CasMaySucceed
<1>4. /\ deq < enq /\ seq[Cell(deq)] = deq + 1
      /\ data[Cell(deq)] = log[deq + 1]
      /\ ~ \E u \in Threads : Writing(u) /\ pos[u] = deq
  BY <1>3, PopCasFindsFilled
<1>5. /\ deq' = deq + 1 /\ pc' = [pc EXCEPT ![t] = "popRead"]
      /\ UNCHANGED <<seq, data, enq, pos, val, log>>
  BY <1>3 DEF PopCasWins, Goto, cells
<1>6. /\ got' \in Seq(Values \cup {Blank}) /\ Len(got') = deq + 1
      /\ \A k \in 1 .. deq : got'[k] = got[k]
  BY <1>2 DEF PopCasWins
<1>7. /\ \A u \in Threads : Reading(u)' <=> (Reading(u) \/ u = t)
      /\ \A u \in Threads : Writing(u)' <=> Writing(u)
      /\ ~Writing(t) /\ ~Reading(t) /\ pc'[t] = "popRead"
      /\ \A u \in Threads \ {t} : pc'[u] = pc[u]
  BY <1>1, <1>3, <1>5 DEF TypeOK, Writing, Reading
<1>8. TypeOK'
  BY <1>1, <1>2, <1>5, <1>6 DEF TypeOK, Popping
<1>9. Counts'
  BY <1>1, <1>2, <1>4, <1>5, <1>6 DEF Counts
<1>10. Writers'
  <2> SUFFICES ASSUME NEW u \in Threads, Writing(u)
               PROVE  deq + 1 <= pos[u]
    BY <1>5, <1>7 DEF IndInv, Writers
  <2>1. deq <= pos[u] /\ pos[u] \in Nat /\ pos[u] # deq
    BY <1>1, <1>4 DEF IndInv, Writers, TypeOK
  <2> QED
    BY <2>1, <1>2
<1>11. Readers'
  <2> SUFFICES ASSUME NEW u \in Threads, Reading(u)'
               PROVE  /\ enq <= pos[u] + Capacity /\ pos[u] < deq + 1
                      /\ seq[Cell(pos[u])] = pos[u] + 1
                      /\ pc'[u] = "popRead" => data[Cell(pos[u])] = log[pos[u] + 1]
    BY <1>5 DEF Readers
  <2>1. CASE u = t
    BY <2>1, <1>2, <1>3, <1>4
  <2>2. CASE u # t
    <3>1. Reading(u) /\ pc'[u] = pc[u] /\ pos[u] \in Nat
      BY <2>2, <1>1, <1>7 DEF TypeOK
    <3> QED
      BY <3>1, <1>2 DEF IndInv, Readers
  <2> QED
    BY <2>1, <2>2
<1>12. Distinct'
  <2>1. \A u \in Threads : Reading(u) => pos[u] # pos[t]
    BY <1>2, <1>3 DEF IndInv, Readers
  <2> QED
    BY <2>1, <1>5, <1>7 DEF IndInv, Distinct
<1>13. Lap'
  <2> SUFFICES ASSUME NEW k \in Nat, deq + 1 <= k, k < deq + 1 + Capacity
               PROVE  IF k < enq
                      THEN \/ seq[Cell(k)] = k + 1 /\ data[Cell(k)] = log[k + 1]
                           \/ \E u \in Threads : Writing(u) /\ pos[u] = k
                      ELSE \/ seq[Cell(k)] = k
                           \/ \E u \in Threads : Reading(u)' /\ pos[u] + Capacity = k
    BY <1>5, <1>7 DEF Lap
  <2>1. CASE k < deq + Capacity
    BY <2>1, <1>2, <1>7 DEF IndInv, Lap
  <2>2. CASE k = deq + Capacity
    BY <2>2, <1>2, <1>3, <1>7
  <2> QED
    BY <2>1, <2>2, <1>2
<1>14. Passed'
  <2> SUFFICES ASSUME NEW p \in Nat, p < deq + 1
               PROVE  seq[Cell(p)] >= p + 1
    BY <1>5 DEF IndInv, Passed
  <2> QED
    BY <1>2, <1>4 DEF IndInv, Passed
<1>15. Pending'
  BY <1>1, <1>2, <1>3, <1>5, <1>7 DEF IndInv, Pending, Pushing, TypeOK
<1>16. Delivered'
  <2> SUFFICES ASSUME NEW k \in 1 .. deq + 1, got'[k] # log[k]
               PROVE  \E u \in Threads : pc'[u] = "popRead" /\ pos[u] = k - 1
    BY <1>5 DEF Delivered
  <2>1. CASE k = deq + 1
    BY <2>1, <1>2, <1>3, <1>7
  <2>2. CASE k \in 1 .. deq
    <3>1. PICK u \in Threads : pc[u] = "popRead" /\ pos[u] = k - 1
      BY <2>2, <1>6 DEF IndInv, Delivered
    <3> QED
      BY <3>1, <1>3, <1>7
  <2> QED
    BY <2>1, <2>2, <1>2
<1> QED
  BY <1>8, <1>9, <1>10, <1>11, <1>12, <1>13, <1>14, <1>15, <1>16 DEF IndInv

LEMMA PopReadStep ==
  ASSUME ManyCells, IndInv, NEW t \in Threads, PopRead(t)
  PROVE  IndInv'
<1> USE CapacityAssumption
<1>1. TypeOK /\ Counts /\ pc[t] = "popRead"
  BY DEF IndInv, PopRead
<1>2. /\ enq \in Nat /\ deq \in Nat /\ deq <= enq /\ enq <= deq + Capacity /\ pos[t] \in Nat
      /\ got \in Seq(Values \cup {Blank}) /\ Len(got) = deq
  BY <1>1 DEF TypeOK, Counts
<1>3. /\ Reading(t) /\ enq <= pos[t] + Capacity /\ pos[t] < deq
      /\ data[Cell(pos[t])] = log[pos[t] + 1]
      /\ data[Cell(pos[t])] \in Values \cup {Blank}
  BY <1>1, CellFacts DEF IndInv, Readers, Reading, TypeOK
<1>4. /\ data' = [data EXCEPT ![Cell(pos[t])] = Blank]
      /\ val' = [val EXCEPT ![t] = data[Cell(pos[t])]]
      /\ pc' = [pc EXCEPT ![t] = "popStore"]
      /\ UNCHANGED <<seq, enq, deq, pos, log>>
  BY DEF PopRead, Goto
<1>5. /\ \A u \in Threads : (Writing(u)' <=> Writing(u)) /\ (Reading(u)' <=> Reading(u))
      /\ ~Writing(t) /\ pc'[t] = "popStore"
      /\ \A u \in Threads \ {t} : pc'[u] = pc[u] /\ val'[u] = val[u]
  BY <1>1, <1>4 DEF TypeOK, Writing, Reading
<1>6. /\ got' \in Seq(Values \cup {Blank}) /\ Len(got') = deq
      /\ got'[pos[t] + 1] = log[pos[t] + 1]
      /\ \A k \in 1 .. deq : k # pos[t] + 1 => got'[k] = got[k]
  BY <1>2, <1>3 DEF PopRead
<1>7. TypeOK'
  BY <1>1, <1>3, <1>4, <1>6 DEF TypeOK, Popping
<1>8. \A p \in Nat : Cell(p) # Cell(pos[t]) => data'[Cell(p)] = data[Cell(p)]
  BY <1>1, <1>4, CellFacts DEF TypeOK
<1>9. Counts' /\ Passed' /\ Distinct'
  BY <1>4, <1>5, <1>6 DEF IndInv, Counts, Passed, Distinct
<1>10. Writers'
  <2> SUFFICES ASSUME NEW u \in Threads, Writing(u)
               PROVE  data'[Cell(pos[u])] = data[Cell(pos[u])] /\ u # t
    BY <1>1, <1>4, <1>5 DEF IndInv, Writers
  <2>1. deq <= pos[u] /\ pos[u] < enq /\ pos[u] \in Nat /\ u # t
    BY <1>1, <1>5 DEF IndInv, Writers, TypeOK
  <2>2. /\ pos[u] \in Nat /\ pos[t] \in Nat
        /\ pos[u] # pos[t] /\ pos[u] < pos[t] + Capacity /\ pos[t] < pos[u] + Capacity
    BY <2>1, <1>2, <1>3
  <2>3. Cell(pos[u]) # Cell(pos[t])
    BY <2>2, CellFacts
  <2> QED
    BY <2>1, <2>3, <1>8
<1>11. Readers'
  <2> SUFFICES ASSUME NEW u \in Threads, Reading(u), u # t
               PROVE  data'[Cell(pos[u])] = data[Cell(pos[u])]
    BY <1>1, <1>4, <1>5 DEF IndInv, Readers
  <2>1. enq <= pos[u] + Capacity /\ pos[u] < deq /\ pos[u] \in Nat
    BY <1>1 DEF IndInv, Readers, TypeOK
  <2>2. /\ pos[u] \in Nat /\ pos[t] \in Nat
        /\ pos[u] # pos[t] /\ pos[u] < pos[t] + Capacity /\ pos[t] < pos[u] + Capacity
    BY <2>1, <1>2, <1>3 DEF IndInv, Distinct
  <2>3. Cell(pos[u]) # Cell(pos[t])
    BY <2>2, CellFacts
  <2> QED
    BY <2>1, <2>3, <1>8
<1>12. Lap'
  <2> SUFFICES ASSUME NEW k \in Nat, deq <= k, k < enq
               PROVE  data'[Cell(k)] = data[Cell(k)]
    BY <1>4, <1>5 DEF IndInv, Lap
  <2>1. k # pos[t] /\ k < pos[t] + Capacity /\ pos[t] < k + Capacity /\ pos[t] \in Nat
    BY <1>2, <1>3
  <2>2. Cell(k) = Cell(pos[t]) => k = pos[t] \/ k >= pos[t] + Capacity \/ pos[t] >= k + Capacity
    BY <2>1, CellFacts, Zenon
  <2>3. Cell(k) # Cell(pos[t])
    BY <2>1, <2>2, CapacityAssumption
  <2> QED
    BY <2>3, <1>8
<1>13. Pending'
  BY <1>1, <1>4, <1>5 DEF IndInv, Pending, Pushing
<1>14. Delivered'
  <2> SUFFICES ASSUME NEW k \in 1 .. deq, got'[k] # log[k]
               PROVE  \E u \in Threads : pc'[u] = "popRead" /\ pos[u] = k - 1
    BY <1>4 DEF Delivered
  <2>1. k # pos[t] + 1 /\ got[k] # log[k]
    BY <1>6
  <2>2. PICK u \in Threads : pc[u] = "popRead" /\ pos[u] = k - 1
    BY <2>1 DEF IndInv, Delivered
  <2>3. u # t
    BY <2>1, <2>2, <1>2
  <2> QED
    BY <2>2, <2>3, <1>5
<1> QED
  BY <1>7, <1>9, <1>10, <1>11, <1>12, <1>13, <1>14 DEF IndInv

LEMMA PopStoreStep ==
  ASSUME ManyCells, IndInv, NEW t \in Threads, PopStore(t)
  PROVE  IndInv'
<1> USE CapacityAssumption
<1>1. TypeOK /\ Counts /\ pc[t] = "popStore"
  BY DEF IndInv, PopStore
<1>2. /\ enq \in Nat /\ deq \in Nat /\ deq <= enq /\ enq <= deq + Capacity /\ pos[t] \in Nat
      /\ seq \in [Index -> Nat] /\ Capacity \in Nat /\ Capacity >= 2
  BY <1>1 DEF TypeOK, Counts, ManyCells
<1>3. Reading(t) /\ enq <= pos[t] + Capacity /\ pos[t] < deq /\ seq[Cell(pos[t])] = pos[t] + 1
  BY <1>1 DEF IndInv, Readers, Reading
<1>4. /\ seq' = [seq EXCEPT ![Cell(pos[t])] = pos[t] + Capacity]
      /\ pc' = [pc EXCEPT ![t] = "idle"] /\ pos' = [pos EXCEPT ![t] = 0]
      /\ val' = [val EXCEPT ![t] = Blank]
      /\ UNCHANGED <<data, enq, deq, log, got>>
  BY DEF PopStore, NextLap, Return, Goto
<1>5. /\ \A u \in Threads : Reading(u)' <=> (Reading(u) /\ u # t)
      /\ \A u \in Threads : Writing(u)' <=> Writing(u)
      /\ ~Writing(t) /\ pc'[t] = "idle"
      /\ \A u \in Threads \ {t} : pc'[u] = pc[u] /\ pos'[u] = pos[u] /\ val'[u] = val[u]
  BY <1>1, <1>4 DEF TypeOK, Writing, Reading
<1>6. TypeOK'
  <2>1. seq' \in [Index -> Nat]
    BY <1>2, <1>4, pos[t] + Capacity \in Nat
  <2> QED
    BY <1>1, <1>4, <2>1 DEF TypeOK
<1>7. \A p \in Nat : Cell(p) # Cell(pos[t]) => seq'[Cell(p)] = seq[Cell(p)]
  BY <1>2, <1>4, CellFacts
<1>8. seq'[Cell(pos[t])] = pos[t] + Capacity
  BY <1>2, <1>4, CellFacts
<1>9. \A p \in Nat : seq'[Cell(p)] >= seq[Cell(p)] /\ seq[Cell(p)] \in Nat /\ seq'[Cell(p)] \in Nat
  <2> SUFFICES ASSUME NEW p \in Nat
               PROVE  seq'[Cell(p)] >= seq[Cell(p)] /\ seq[Cell(p)] \in Nat /\ seq'[Cell(p)] \in Nat
    OBVIOUS
  <2>1. seq[Cell(p)] \in Nat
    BY <1>2, CellFacts
  <2>2. CASE Cell(p) = Cell(pos[t])
    BY <2>2, <1>2, <1>3, <1>8
  <2>3. CASE Cell(p) # Cell(pos[t])
    BY <2>1, <2>3, <1>7
  <2> QED
    BY <2>1, <2>2, <2>3
<1>10. Counts'
  BY <1>4 DEF IndInv, Counts
<1>11. Writers'
  <2> SUFFICES ASSUME NEW u \in Threads, Writing(u)
               PROVE  seq'[Cell(pos[u])] = seq[Cell(pos[u])]
    BY <1>1, <1>4, <1>5 DEF IndInv, Writers
  <2>1. deq <= pos[u] /\ pos[u] < enq /\ pos[u] \in Nat
    BY <1>1 DEF IndInv, Writers, TypeOK
  <2>2. /\ pos[u] \in Nat /\ pos[t] \in Nat
        /\ pos[u] # pos[t] /\ pos[u] < pos[t] + Capacity /\ pos[t] < pos[u] + Capacity
    BY <2>1, <1>2, <1>3
  <2>3. Cell(pos[u]) # Cell(pos[t])
    BY <2>2, CellFacts
  <2> QED
    BY <2>1, <2>3, <1>7
<1>12. Readers'
  <2> SUFFICES ASSUME NEW u \in Threads, Reading(u), u # t
               PROVE  seq'[Cell(pos[u])] = seq[Cell(pos[u])]
    BY <1>1, <1>4, <1>5 DEF IndInv, Readers
  <2>1. enq <= pos[u] + Capacity /\ pos[u] < deq /\ pos[u] \in Nat
    BY <1>1 DEF IndInv, Readers, TypeOK
  <2>2. /\ pos[u] \in Nat /\ pos[t] \in Nat
        /\ pos[u] # pos[t] /\ pos[u] < pos[t] + Capacity /\ pos[t] < pos[u] + Capacity
    BY <2>1, <1>2, <1>3 DEF IndInv, Distinct
  <2>3. Cell(pos[u]) # Cell(pos[t])
    BY <2>2, CellFacts
  <2> QED
    BY <2>1, <2>3, <1>7
<1>13. Distinct'
  BY <1>5 DEF IndInv, Distinct
<1>14. Lap'
  <2> SUFFICES ASSUME NEW k \in Nat, deq <= k, k < deq + Capacity
               PROVE  IF k < enq
                      THEN \/ seq'[Cell(k)] = k + 1 /\ data[Cell(k)] = log[k + 1]
                           \/ \E u \in Threads : Writing(u)' /\ pos'[u] = k
                      ELSE \/ seq'[Cell(k)] = k
                           \/ \E u \in Threads : Reading(u)' /\ pos'[u] + Capacity = k
    BY <1>4 DEF Lap
  <2>1. CASE k = pos[t] + Capacity
    <3>1. seq'[Cell(k)] = k /\ ~(k < enq)
      BY <2>1, <1>2, <1>3, <1>8, CellFacts
    <3> QED
      BY <3>1
  <2>2. CASE k # pos[t] + Capacity
    <3>1. Cell(k) # Cell(pos[t])
      <4>1. ~(k >= pos[t] + 2 * Capacity) /\ k # pos[t] /\ pos[t] + Capacity \in Nat
        BY <1>2, <1>3
      <4>2. Cell(k) # Cell(pos[t] + Capacity)
        BY <4>1, <2>2, <1>2, <1>3, CellFacts
      <4> QED
        BY <4>2, <1>2, CellFacts
    <3>2. seq'[Cell(k)] = seq[Cell(k)]
      BY <3>1, <1>7
    <3>3. CASE k < enq
      <4>1. \/ seq[Cell(k)] = k + 1 /\ data[Cell(k)] = log[k + 1]
            \/ \E u \in Threads : Writing(u) /\ pos[u] = k
        BY <3>3 DEF IndInv, Lap
      <4> QED
        BY <3>2, <3>3, <4>1, <1>5
    <3>4. CASE ~(k < enq)
      <4>1. \/ seq[Cell(k)] = k
            \/ \E u \in Threads : Reading(u) /\ pos[u] + Capacity = k
        BY <3>4 DEF IndInv, Lap
      <4> QED
        BY <3>2, <3>4, <4>1, <2>2, <1>5
    <3> QED
      BY <3>3, <3>4
  <2> QED
    BY <2>1, <2>2
<1>15. Passed'
  BY <1>2, <1>4, <1>9 DEF IndInv, Passed
<1>16. Pending'
  <2> SUFFICES ASSUME NEW u \in Threads, u # t
               PROVE  /\ pc[u] \in {"pushSeq", "pushCas"} => pos[u] <= enq
                      /\ pc[u] \in {"popSeq", "popCas", "observe"} => pos[u] <= deq
                      /\ pc[u] = "pushCas" => seq'[Cell(pos[u])] >= pos[u]
                      /\ pc[u] = "popCas" => seq'[Cell(pos[u])] >= pos[u] + 1
                      /\ pc[u] \in Pushing => val[u] \in Values
    BY <1>4, <1>5 DEF Pending, Pushing
  <2>1. pos[u] \in Nat
    BY <1>1 DEF TypeOK
  <2> QED
    BY <2>1, <1>9 DEF IndInv, Pending
<1>17. Delivered'
  BY <1>1, <1>4, <1>5 DEF IndInv, Delivered
<1> QED
  BY <1>6, <1>10, <1>11, <1>12, <1>13, <1>14, <1>15, <1>16, <1>17 DEF IndInv

-----------------------------------------------------------------------------
LEMMA Inductive == ManyCells /\ IndInv /\ [Next]_vars => IndInv'
<1> SUFFICES ASSUME ManyCells, IndInv, [Next]_vars PROVE IndInv'
  OBVIOUS
<1>1. CASE UNCHANGED vars
  BY <1>1 DEF vars, cells, IndInv, TypeOK, Counts, Writers, Readers, Distinct, Lap, Passed,
     Pending, Delivered, Writing, Reading
<1>2. ASSUME NEW t \in Threads, Push(t) \/ Pop(t) \/ Observe(t)
      PROVE  IndInv'
  BY <1>2, LocalSteps, PushCasWinsStep, PushWriteStep, PushStoreStep,
     PopCasWinsStep, PopReadStep, PopStoreStep DEF Push, Pop, Observe
<1> QED
  BY <1>1, <1>2 DEF Next

\* The invariant holds in every behaviour of a ring of at least two cells.
THEOREM Invariance ==
  ASSUME ManyCells
  PROVE  Spec => []IndInv
<1>1. IndInv /\ [Next]_vars => IndInv'
  BY Inductive
<1> QED
  BY InitIndInv, <1>1, PTL DEF Spec

\* Every variable keeps its type.
THEOREM TypeCorrect ==
  ASSUME ManyCells
  PROVE  Spec => []TypeOK
<1>1. IndInv => TypeOK
  BY DEF IndInv
<1> QED
  BY <1>1, Invariance, PTL

\* No two threads ever hold the same cell: the plain reads and writes of data do not race.
THEOREM OneHolderPerCell ==
  ASSUME ManyCells
  PROVE  Spec => []CellExclusive
<1>1. ASSUME IndInv PROVE CellExclusive
  <2> SUFFICES ASSUME NEW t \in Threads, NEW u \in Threads,
                      Writing(t) \/ Reading(t), Writing(u) \/ Reading(u),
                      Cell(pos[t]) = Cell(pos[u])
               PROVE  t = u
    BY DEF CellExclusive
  <2>1. /\ pos[t] \in Nat /\ pos[u] \in Nat /\ enq \in Nat /\ deq \in Nat
        /\ deq <= enq /\ enq <= deq + Capacity
    BY <1>1 DEF IndInv, TypeOK, Counts
  <2>2. ASSUME NEW x \in Threads
        PROVE  /\ Writing(x) => deq <= pos[x] /\ pos[x] < enq
               /\ Reading(x) => enq <= pos[x] + Capacity /\ pos[x] < deq
    BY <1>1 DEF IndInv, Writers, Readers
  <2>3. pos[t] < pos[u] + Capacity /\ pos[u] < pos[t] + Capacity
    <3> USE CapacityAssumption
    <3>1. CASE Writing(t) /\ Writing(u)
      BY <3>1, <2>1, <2>2
    <3>2. CASE Writing(t) /\ Reading(u)
      BY <3>2, <2>1, <2>2
    <3>3. CASE Reading(t) /\ Writing(u)
      BY <3>3, <2>1, <2>2
    <3>4. CASE Reading(t) /\ Reading(u)
      BY <3>4, <2>1, <2>2
    <3> QED
      BY <3>1, <3>2, <3>3, <3>4
  <2>4. pos[t] = pos[u]
    BY <2>1, <2>3, CapacityAssumption, CellFacts
  <2>5. (Writing(t) /\ Writing(u)) \/ (Reading(t) /\ Reading(u))
    BY <2>1, <2>2, <2>4
  <2> QED
    BY <1>1, <2>4, <2>5 DEF IndInv, Distinct
<1> QED
  BY <1>1, Invariance, PTL

\* A refusal always has a reason: no place left or a pop under way, nothing
\* there or a push under way.
THEOREM RefusalsAreHonest ==
  ASSUME ManyCells
  PROVE  Spec => FailureHasReason
<1>1. ASSUME IndInv, NEW t \in Threads
      PROVE  /\ PushSeqFull(t) => enq - deq >= Capacity \/ \E u \in Threads : Reading(u)
             /\ PopSeqEmpty(t) => enq = deq \/ \E u \in Threads : Writing(u) /\ pos[u] = deq
  <2> USE CapacityAssumption
  <2>1. /\ enq \in Nat /\ deq \in Nat /\ deq <= enq /\ enq <= deq + Capacity
        /\ pos[t] \in Nat /\ seq \in [Index -> Nat] /\ seq[Cell(pos[t])] \in Nat
    BY <1>1, CellFacts DEF IndInv, TypeOK, Counts
  <2>2. ASSUME PushSeqFull(t), ~(enq - deq >= Capacity)
        PROVE  \E u \in Threads : Reading(u)
    <3>1. pos[t] <= enq /\ seq[Cell(pos[t])] < pos[t]
      BY <1>1, <2>2 DEF PushSeqFull, Full, IndInv, Pending
    <3>2. pos[t] = enq
      BY <1>1, <2>1, <3>1 DEF IndInv, Passed
    <3>3. deq <= enq /\ enq < deq + Capacity /\ seq[Cell(enq)] # enq
      BY <2>1, <2>2, <3>1, <3>2
    <3> QED
      BY <1>1, <2>1, <3>3 DEF IndInv, Lap
  <2>3. ASSUME PopSeqEmpty(t), enq # deq
        PROVE  \E u \in Threads : Writing(u) /\ pos[u] = deq
    <3>1. pos[t] <= deq /\ seq[Cell(pos[t])] < pos[t] + 1
      BY <1>1, <2>3 DEF PopSeqEmpty, Empty, IndInv, Pending
    <3>2. pos[t] = deq
      BY <1>1, <2>1, <3>1 DEF IndInv, Passed
    <3>3. deq < enq /\ deq < deq + Capacity /\ seq[Cell(deq)] # deq + 1
      BY <2>1, <2>3, <3>1, <3>2
    <3> QED
      BY <1>1, <2>1, <3>3 DEF IndInv, Lap
  <2> QED
    BY <2>2, <2>3
<1>2. IndInv /\ [Next]_vars =>
        [\A t \in Threads :
           /\ PushSeqFull(t) => enq - deq >= Capacity \/ \E u \in Threads : Reading(u)
           /\ PopSeqEmpty(t) => enq = deq \/ \E u \in Threads : Writing(u) /\ pos[u] = deq]_vars
  BY <1>1
<1> QED
  BY <1>2, Invariance, PTL DEF Spec, FailureHasReason

\* What empty() and size() answer is never too little.
THEOREM ObserversAreHonest ==
  ASSUME ManyCells
  PROVE  Spec => ObserverNeverUnderestimates
<1>1. ASSUME IndInv, NEW t \in Threads, ObserveReturn(t)
      PROVE  /\ SaysEmpty(t) => enq = deq
             /\ SaysSize(t) >= enq - deq
  <2>1. /\ pos[t] \in Nat /\ enq \in Nat /\ deq \in Nat
        /\ pos[t] <= deq /\ deq <= enq
    BY <1>1 DEF ObserveReturn, IndInv, TypeOK, Counts, Pending
  <2> QED
    BY <2>1 DEF SaysEmpty, SaysSize
<1>2. IndInv /\ [Next]_vars => [AnswerCoversQueue]_vars
  BY <1>1 DEF AnswerCoversQueue
<1> QED
  BY <1>2, Invariance, PTL DEF Spec, ObserverNeverUnderestimates

\* What the pops hand out is what the pushes took, ticket by ticket.
InTicketOrder == HandedOut = [k \in 1 .. deq |-> log[k]]

LEMMA HandedOutIsLogged == IndInv => InTicketOrder
<1> SUFFICES ASSUME IndInv PROVE InTicketOrder
  OBVIOUS
<1>1. Len(got) = deq /\ deq \in Nat /\ enq \in Nat
  BY DEF IndInv, Counts, TypeOK
<1>2. ASSUME NEW k \in 1 .. deq
      PROVE  HandedOut[k] = log[k]
  <2>1. CASE \E t \in Threads : pc[t] = "popRead" /\ pos[t] = k - 1
    <3>1. PICK t \in Threads : pc[t] = "popRead" /\ pos[t] = k - 1
      BY <2>1
    <3>2. data[Cell(k - 1)] = log[(k - 1) + 1]
      BY <3>1 DEF IndInv, Readers, Reading
    <3> QED
      BY <1>1, <2>1, <3>2 DEF HandedOut
  <2>2. CASE ~ \E t \in Threads : pc[t] = "popRead" /\ pos[t] = k - 1
    BY <1>1, <2>2 DEF HandedOut, IndInv, Delivered
  <2> QED
    BY <2>1, <2>2
<1> QED
  BY <1>1, <1>2 DEF HandedOut, InTicketOrder

\* The two CAS are linearization points: the ring is a first-in first-out queue
\* of Capacity places, whatever the threads do.
THEOREM ImplementsFifo ==
  ASSUME ManyCells
  PROVE  Spec => FifoSpec
<1>1. Init => Fifo!Init
  BY DEF Init, HandedOut, Fifo!Init
<1>2. IndInv' => InTicketOrder'
  BY HandedOutIsLogged, PTL
<1>3. IndInv /\ IndInv' /\ [Next]_vars => [Fifo!Next]_<<log, HandedOut>>
  <2> SUFFICES ASSUME IndInv, IndInv', [Next]_vars, ~UNCHANGED <<log, deq>>
               PROVE  Fifo!Next
    BY <1>2, HandedOutIsLogged DEF InTicketOrder
  <2>1. PICK t \in Threads : Push(t) \/ Pop(t) \/ Observe(t)
    BY DEF Next, vars
  <2>2. /\ Len(log) = enq /\ enq \in Nat /\ deq \in Nat /\ enq' \in Nat /\ deq' \in Nat
        /\ log \in Seq(Values)
    BY DEF IndInv, Counts, TypeOK
  <2>3. HandedOut = [k \in 1 .. deq |-> log[k]] /\ HandedOut' = [k \in 1 .. deq' |-> log'[k]]
    BY <1>2, HandedOutIsLogged DEF InTicketOrder
  <2>4. CASE PushCasWins(t)
    <3>1. enq < deq + Capacity /\ val[t] \in Values
      BY <2>4, PushCasFindsFree DEF PushCasWins, CasMaySucceed, IndInv, Pending, Pushing
    <3>2. log' = Append(log, val[t]) /\ deq' = deq
      BY <2>4 DEF PushCasWins
    <3>3. HandedOut' = HandedOut
      BY <2>2, <2>3, <3>2 DEF IndInv, Counts
    <3>4. Len(HandedOut) = deq
      BY <2>2, <2>3
    <3>5. Fifo!Push(val[t])
      BY <2>2, <3>1, <3>2, <3>3, <3>4, CapacityAssumption DEF Fifo!Push
    <3> QED
      BY <3>1, <3>5 DEF Fifo!Next
  <2>5. CASE PopCasWins(t)
    <3>1. deq < enq
      BY <2>5, PopCasFindsFilled DEF PopCasWins, CasMaySucceed
    <3>2. log' = log /\ deq' = deq + 1
      BY <2>5 DEF PopCasWins, CasMaySucceed
    <3>3. Len(HandedOut) = deq
      BY <2>2, <2>3
    <3>4. HandedOut' = Append(HandedOut, log[deq + 1])
      BY <2>2, <2>3, <3>2, <3>3
    <3>5. Fifo!Pop
      BY <2>2, <3>1, <3>2, <3>3, <3>4 DEF Fifo!Pop
    <3> QED
      BY <3>5 DEF Fifo!Next
  <2> QED
    BY <2>1, <2>4, <2>5 DEF Push, Pop, Observe, PushCall, PushLoad, PushSeqFree, PushSeqFull,
       PushSeqBehind, PushCasFails, PushWrite, PushStore, PopCall, PopLoad, PopSeqReady,
       PopSeqEmpty, PopSeqBehind, PopCasFails, PopRead, PopStore, ObserveLoad, ObserveReturn
<1> QED
  BY <1>1, <1>3, Invariance, PTL DEF Spec, FifoSpec, Fifo!Spec
=============================================================================
