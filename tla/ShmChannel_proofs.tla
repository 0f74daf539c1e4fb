--------------------------- MODULE ShmChannel_proofs ---------------------------
(***************************************************************************)
(* Shared memory.  The ring of the channel, for every size, every set of   *)
(* payloads, any number of messages and any number of consumers that die:  *)
(* it implements the queue of BufferSize - 1 places, no message is         *)
(* skipped, and while no consumer has died a slot found by the indices is  *)
(* a free one.  Then the handles to the channel and the manager that hands *)
(* them out, for any number of processes, handles, users and deaths: a     *)
(* channel stays the one its creator initialized until somebody leaves,    *)
(* and nobody holds a handle that is closed.                               *)
(***************************************************************************)
EXTENDS ShmChannel, ShmTransport, RingArithmetic

\* The slot of the message after the k-th.
Cell(k) == k % BufferSize

\* All that the proofs need to know of it.
LEMMA CellFacts ==
  /\ \A k \in Nat : Cell(k) \in Index
  /\ \A k \in Nat : Following(Cell(k)) = Cell(k + 1)
  /\ \A k \in Nat : Cell(k + BufferSize) = Cell(k)
  /\ \A i, j \in Nat : Cell(i) = Cell(j) => i = j \/ i >= j + BufferSize \/ j >= i + BufferSize
<1>0. BufferSize \in Nat /\ BufferSize >= 1
  BY BufferSizeAssumption
<1>1. \A k \in Nat : Cell(k) \in Index
  BY <1>0, ModIsIndex, Zenon DEF Cell, Index
<1>2. \A k \in Nat : Following(Cell(k)) = Cell(k + 1)
  BY <1>0, NextCell, Zenon DEF Cell, Following
<1>3. \A k \in Nat : Cell(k + BufferSize) = Cell(k)
  BY <1>0, SameCellNextLap, Zenon DEF Cell
<1>4. ASSUME NEW i \in Nat, NEW j \in Nat, Cell(i) = Cell(j)
      PROVE  i = j \/ i >= j + BufferSize \/ j >= i + BufferSize
  BY <1>0, <1>4, SameCellApart, Zenon DEF Cell
<1> QED
  BY <1>1, <1>2, <1>3, <1>4

\* What was taken out of the ring and what was put into it.
a == Len(taken)
b == Len(published)

\* The indices count the messages modulo the size of the ring.
Indices ==
    /\ head = Cell(b) /\ tail = Cell(a)
    /\ a <= b /\ b - a <= BufferSize - 1 /\ b <= MaxPublished
    /\ \A k \in 1 .. b : published[k].seq = k

\* What publish has done of a message, by its step.
PubInv ==
    /\ ppc \in {"cas", "header", "payload", "ready", "head"} =>
          b - a < BufferSize - 1 /\ b < MaxPublished /\ payload \in Payloads
    /\ ppc \in {"header", "payload", "ready", "head"} => localSequence = b + 1
    /\ ppc \in {"idle", "cas", "count"} => localSequence = b
    /\ ppc \in {"payload", "ready", "head"} => slotSeq[head] = b + 1
    /\ ppc \in {"ready", "head"} => slotPayload[head] = payload
    /\ ppc = "head" => slotState[head] = "READY"
    /\ sent <= b /\ b <= sent + 1
    /\ ppc = "count" => b = sent + 1
    /\ ppc \notin {"count", "dead"} => sent = b

\* What consume has done of a message, by its step.
ConInv ==
    /\ cpc \in {"state", "copy", "callback", "reading", "tail"} => a < b
    /\ cpc = "callback" => viewSeq = a + 1
    /\ cpc \in {"reading", "tail"} => delivered = published[a + 1]
    /\ received <= a
    /\ cpc \in {"empty", "count"} => received < a

\* The messages in the ring lie in their slots.
Contents ==
    \A k \in 1 .. b : k > a =>
        /\ slotSeq[Cell(k - 1)] = k
        /\ slotPayload[Cell(k - 1)] = published[k].payload
        /\ \/ slotState[Cell(k - 1)] = "READY"
           \/ slotState[Cell(k - 1)] = "READING" /\ k = a + 1 /\ (cpc = "tail" \/ crashes > 0)

\* Unless a consumer has died, a slot is EMPTY, or holds a message, or is being
\* written, or is about to be released.
FreeSlots ==
    crashes = 0 =>
        \A i \in Index :
            \/ slotState[i] = "EMPTY"
            \/ \E k \in 1 .. b : k > a /\ i = Cell(k - 1)
            \/ i = head /\ ppc \in {"header", "payload", "ready", "head", "dead"}
            \/ cpc = "empty" /\ Following(i) = tail

\* The last callback saw the message before the one at tail, or the one at tail; in
\* the second case the next callback sees it again, or the slot is past READY.
AgainInv ==
    /\ cpc \in {"copy", "callback", "reading"} => slotState[tail] = "READY"
    /\ cpc = "tail" => slotState[tail] = "READING"
    /\ again => /\ a < b /\ delivered = published[a + 1]
                /\ cpc \in {"idle", "check", "state", "copy", "callback"}
    /\ ~again => \/ delivered.seq = a
                 \/ /\ a < b /\ delivered.seq = a + 1
                    /\ cpc = "reading" \/ slotState[tail] = "READING"

IndInv == TypeOK /\ Indices /\ PubInv /\ ConInv /\ Contents /\ FreeSlots /\ AgainInv

LEMMA Lengths ==
  ASSUME TypeOK
  PROVE  a \in Nat /\ b \in Nat /\ BufferSize \in Nat /\ BufferSize >= 1 /\ MaxPublished \in Nat
BY BufferSizeAssumption, BoundsAssumption DEF TypeOK, a, b

\* Where the two indices stand, seen from the messages in the ring.
LEMMA Positions ==
  ASSUME TypeOK, Indices
  PROVE  /\ \A k \in 1 .. b : k > a => /\ Cell(k - 1) \in Index
                                       /\ Cell(k - 1) # head
                                       /\ Following(Cell(k - 1)) # tail
                                       /\ k > a + 1 => Cell(k - 1) # tail
         /\ b - a < BufferSize - 1 => Following(head) # tail
         /\ ~Full => b - a < BufferSize - 1
         /\ tail = head <=> a = b
<1>1. a \in Nat /\ b \in Nat /\ BufferSize \in Nat /\ BufferSize >= 1
  BY Lengths
<1>2. head = Cell(b) /\ tail = Cell(a) /\ a <= b /\ b - a <= BufferSize - 1
  BY DEF Indices
<1>3. Following(head) = Cell(b + 1)
  BY <1>1, <1>2, CellFacts
<1>4. ASSUME NEW k \in 1 .. b, k > a
      PROVE  /\ Cell(k - 1) \in Index /\ Cell(k - 1) # head /\ Following(Cell(k - 1)) # tail
             /\ k > a + 1 => Cell(k - 1) # tail
  <2>1. k \in Nat /\ k - 1 \in Nat /\ k <= b /\ k < a + BufferSize
    BY <1>1, <1>2, <1>4
  <2>2. Cell(k - 1) \in Index
    BY <2>1, CellFacts
  <2>3. Cell(k - 1) # Cell(b)
    <3>1. k - 1 < b /\ b < (k - 1) + BufferSize
      BY <1>1, <1>2, <1>4, <2>1
    <3> QED
      BY <1>1, <2>1, <3>1, CellFacts
  <2>4. Following(Cell(k - 1)) = Cell(k)
    <3>1. (k - 1) + 1 = k
      BY <2>1
    <3> QED
      BY <2>1, <3>1, CellFacts
  <2>5. Cell(k) # Cell(a)
    BY <1>1, <1>4, <2>1, CellFacts
  <2>6. k > a + 1 => Cell(k - 1) # Cell(a)
    <3> SUFFICES ASSUME k > a + 1 PROVE Cell(k - 1) # Cell(a)
      OBVIOUS
    <3>1. a < k - 1 /\ k - 1 < a + BufferSize
      BY <1>1, <2>1
    <3> QED
      BY <1>1, <2>1, <3>1, CellFacts
  <2> QED
    BY <1>2, <2>2, <2>3, <2>4, <2>5, <2>6
<1>5. b - a < BufferSize - 1 => Cell(b + 1) # Cell(a)
  <2> SUFFICES ASSUME b - a < BufferSize - 1 PROVE Cell(b + 1) # Cell(a)
    OBVIOUS
  <2>1. b + 1 \in Nat /\ a < b + 1 /\ b + 1 < a + BufferSize
    BY <1>1, <1>2
  <2> QED
    BY <1>1, <2>1, CellFacts
<1>6. ~Full => b - a < BufferSize - 1
  <2> SUFFICES ASSUME b - a = BufferSize - 1 PROVE Cell(b + 1) = Cell(a)
    BY <1>1, <1>2, <1>3 DEF Full
  <2>1. b + 1 = a + BufferSize
    BY <1>1
  <2> QED
    BY <1>1, <2>1, CellFacts
<1>7. tail = head <=> a = b
  <2> SUFFICES ASSUME a # b PROVE Cell(a) # Cell(b)
    BY <1>2
  <2>1. a < b /\ b < a + BufferSize
    BY <1>1, <1>2
  <2> QED
    BY <1>1, <2>1, CellFacts
<1> QED
  BY <1>2, <1>3, <1>4, <1>5, <1>6, <1>7

LEMMA InitIndInv == Init => IndInv
<1> SUFFICES ASSUME Init PROVE IndInv
  OBVIOUS
<1> USE BufferSizeAssumption, BoundsAssumption
<1>1. a = 0 /\ b = 0 /\ Cell(0) = 0
  BY DEF Init, a, b, Cell
<1>2. TypeOK
  <2>1. << >> \in Seq(Messages) /\ 0 \in Index
    BY DEF Index
  <2>2. delivered \in Messages \cup {NoMessage}
    BY DEF Init
  <2> QED
    BY <2>1, <2>2 DEF Init, TypeOK
<1>3. Indices
  BY <1>1 DEF Init, Indices
<1>4. PubInv /\ Contents /\ FreeSlots
  BY <1>1 DEF Init, PubInv, Contents, FreeSlots
<1>5. ConInv
  <2>1. delivered.seq = 0
    BY DEF Init, NoMessage
  <2> QED
    BY <1>1, <2>1 DEF Init, ConInv
<1>6. AgainInv
  <2>1. delivered.seq = 0
    BY DEF Init, NoMessage
  <2> QED
    BY <1>1, <2>1 DEF Init, AgainInv
<1> QED
  BY <1>2, <1>3, <1>4, <1>5, <1>6 DEF IndInv

\* The message consume works on is the oldest one in the ring.
LEMMA Oldest ==
  ASSUME TypeOK, Indices, Contents, a < b
  PROVE  /\ a + 1 \in 1 .. b
         /\ published[a + 1] \in Messages /\ published[a + 1].seq = a + 1
         /\ published[a + 1] = [seq |-> slotSeq[tail], payload |-> slotPayload[tail]]
         /\ slotSeq[tail] = a + 1
<1>1. a \in Nat /\ b \in Nat
  BY Lengths
<1>2. a + 1 \in 1 .. b /\ a + 1 > a /\ (a + 1) - 1 = a
  BY <1>1
<1>3. tail = Cell(a)
  BY DEF Indices
<1>4. slotSeq[tail] = a + 1 /\ slotPayload[tail] = published[a + 1].payload
  BY <1>2, <1>3 DEF Contents
<1>5. published[a + 1].seq = a + 1
  BY <1>2 DEF Indices
<1>6. published[a + 1] \in Messages
  BY <1>2 DEF TypeOK, b
<1>7. published[a + 1] = [seq |-> published[a + 1].seq, payload |-> published[a + 1].payload]
  BY <1>6 DEF Messages
<1> QED
  BY <1>2, <1>4, <1>5, <1>6, <1>7

LEMMA TypeStep ==
  ASSUME IndInv, [Next]_vars
  PROVE  TypeOK'
<1> USE DEF IndInv
<1>0. /\ a \in Nat /\ b \in Nat /\ MaxPublished \in Nat /\ BufferSize \in Nat /\ BufferSize >= 1
      /\ MaxDropped \in Nat /\ MaxCrashes \in Nat
      /\ a <= b /\ b <= MaxPublished
  BY Lengths, BoundsAssumption DEF Indices
<1>1. \A i \in Index : Following(i) \in Index
  BY <1>0 DEF Following, Index
<1>2. ASSUME PublishFull \/ PublishSlotBusy PROVE TypeOK'
  BY <1>0, <1>2 DEF TypeOK, PublishFull, PublishSlotBusy, slots, con
<1>3. ASSUME NEW v \in Payloads, PublishCheck(v) PROVE TypeOK'
  BY <1>3 DEF TypeOK, PublishCheck, slots, con
<1>4. ASSUME PublishCas PROVE TypeOK'
  BY <1>0, <1>4 DEF TypeOK, PublishCas, PubInv, con
<1>5. ASSUME PublishHeader PROVE TypeOK'
  BY <1>5 DEF TypeOK, PublishHeader, con
<1>6. ASSUME PublishPayload PROVE TypeOK'
  BY <1>6 DEF TypeOK, PublishPayload, con
<1>7. ASSUME PublishReady PROVE TypeOK'
  BY <1>7 DEF TypeOK, PublishReady, con
<1>8. ASSUME PublishHead PROVE TypeOK'
  <2>1. [seq |-> localSequence, payload |-> payload] \in Messages
    BY <1>0, <1>8 DEF PublishHead, PubInv, Messages
  <2>2. published' \in Seq(Messages)
    BY <1>8, <2>1 DEF PublishHead, TypeOK
  <2> QED
    BY <1>1, <1>8, <2>2 DEF TypeOK, PublishHead, slots, con
<1>9. ASSUME PublishCount PROVE TypeOK'
  BY <1>0, <1>9 DEF TypeOK, PublishCount, PubInv, slots, con
<1>10. ASSUME PublisherDies PROVE TypeOK'
  BY <1>10 DEF TypeOK, PublisherDies, slots, con
<1>11. ASSUME ConsumeCall \/ ConsumeNothing \/ ConsumeCheck \/ ConsumeNotReady \/ ConsumeState
       PROVE  TypeOK'
  BY <1>11 DEF TypeOK, ConsumeCall, ConsumeNothing, ConsumeCheck, ConsumeNotReady, ConsumeState,
               slots, pub
<1>12. ASSUME ConsumeCopy PROVE TypeOK'
  BY <1>0, <1>12 DEF TypeOK, ConsumeCopy, slots, pub
<1>13. ASSUME ConsumeCallback \/ ConsumeThrows PROVE TypeOK'
  <2>1. delivered' \in Messages
    BY <1>0, <1>13, Oldest DEF ConsumeCallback, ConsumeThrows, ConInv
  <2>2. /\ UNCHANGED <<slots, tail, received, crashes, taken, pub>>
        /\ viewSeq' = 0 /\ again' \in BOOLEAN /\ cpc' \in {"idle", "reading"}
    BY <1>13 DEF ConsumeCallback, ConsumeThrows
  <2> QED
    BY <1>0, <2>1, <2>2 DEF TypeOK, slots, pub
<1>14. ASSUME ConsumeReading PROVE TypeOK'
  BY <1>14 DEF TypeOK, ConsumeReading, pub
<1>15. ASSUME ConsumeTail PROVE TypeOK'
  <2>1. delivered \in Messages
    BY <1>0, <1>15, Oldest DEF ConsumeTail, ConInv
  <2>2. taken' \in Seq(Messages)
    BY <1>15, <2>1 DEF ConsumeTail, TypeOK
  <2> QED
    BY <1>1, <1>15, <2>2 DEF TypeOK, ConsumeTail, slots, pub
<1>16. ASSUME ConsumeEmpty PROVE TypeOK'
  BY <1>16 DEF TypeOK, ConsumeEmpty, pub
<1>17. ASSUME ConsumeCount PROVE TypeOK'
  BY <1>0, <1>17 DEF TypeOK, ConsumeCount, ConInv, slots, pub
<1>18. ASSUME ConsumerDies PROVE TypeOK'
  BY <1>0, <1>18 DEF TypeOK, ConsumerDies, slots, pub
<1>19. ASSUME UNCHANGED vars PROVE TypeOK'
  BY <1>19 DEF TypeOK, vars, slots, pub, con
<1> QED
  BY <1>2, <1>3, <1>4, <1>5, <1>6, <1>7, <1>8, <1>9, <1>10, <1>11, <1>12, <1>13, <1>14, <1>15,
     <1>16, <1>17, <1>18, <1>19
  DEF Next, Publish, Consume, PublishTooLarge

\* What the consumer works on and what its callbacks saw is out of publish's reach.
LEMMA PublisherKeepsAgain ==
  ASSUME IndInv, UNCHANGED con, b' \in Nat, b' >= b,
         \A k \in 1 .. b : published'[k] = published[k],
         \A i \in Index : i # head => slotState'[i] = slotState[i]
  PROVE  AgainInv'
<1> USE DEF IndInv
<1>1. a' = a /\ a \in Nat /\ b \in Nat
  BY Lengths DEF a, con
<1>2. UNCHANGED <<tail, cpc, delivered, again>>
  BY DEF con
<1>3. a < b => slotState'[tail] = slotState[tail] /\ published'[a + 1] = published[a + 1] /\ a < b'
  <2> SUFFICES ASSUME a < b
               PROVE  slotState'[tail] = slotState[tail] /\ published'[a + 1] = published[a + 1] /\ a < b'
    OBVIOUS
  <2>1. tail # head /\ tail \in Index
    BY <1>1, Positions DEF TypeOK
  <2> QED
    BY <1>1, <2>1
<1>4. cpc \in {"copy", "callback", "reading", "tail"} => a < b
  BY DEF ConInv
<1> QED
  BY <1>1, <1>2, <1>3, <1>4 DEF AgainInv

\* A step of publish that leaves the ring as it is.
LEMMA PublisherKeepsRing ==
  ASSUME IndInv, TypeOK', PubInv', UNCHANGED <<slots, head, published, con>>,
         ppc \in {"header", "payload", "ready", "head", "dead"}
            => ppc' \in {"header", "payload", "ready", "head", "dead"}
  PROVE  IndInv'
<1> USE DEF IndInv
<1>1. a' = a /\ b' = b
  BY DEF a, b, con
<1>2. Indices'
  BY <1>1 DEF Indices, con
<1>3. ConInv'
  BY <1>1 DEF ConInv, con
<1>4. Contents'
  BY <1>1 DEF Contents, slots, con
<1>5. FreeSlots'
  BY <1>1 DEF FreeSlots, slots, con
<1>6. AgainInv'
  BY <1>1, Lengths, PublisherKeepsAgain DEF slots
<1> QED
  BY <1>2, <1>3, <1>4, <1>5, <1>6

\* A step of publish that writes the slot at head, which is not in use.
LEMMA PublisherWritesHead ==
  ASSUME IndInv, TypeOK', PubInv', UNCHANGED <<head, published, con>>,
         \A i \in Index : i # head => /\ slotState'[i] = slotState[i]
                                      /\ slotSeq'[i] = slotSeq[i]
                                      /\ slotPayload'[i] = slotPayload[i],
         ppc' \in {"header", "payload", "ready", "head"}
  PROVE  IndInv'
<1> USE DEF IndInv
<1>1. a' = a /\ b' = b
  BY DEF a, b, con
<1>2. Indices'
  BY <1>1 DEF Indices, con
<1>3. ConInv'
  BY <1>1 DEF ConInv, con
<1>4. Contents'
  <2> SUFFICES ASSUME NEW k \in 1 .. b, k > a
               PROVE  /\ slotSeq'[Cell(k - 1)] = k
                      /\ slotPayload'[Cell(k - 1)] = published[k].payload
                      /\ \/ slotState'[Cell(k - 1)] = "READY"
                         \/ /\ slotState'[Cell(k - 1)] = "READING" /\ k = a + 1
                            /\ cpc = "tail" \/ crashes > 0
    BY <1>1 DEF Contents, con
  <2>1. Cell(k - 1) \in Index /\ Cell(k - 1) # head
    BY Positions
  <2> QED
    BY <2>1 DEF Contents
<1>5. FreeSlots'
  <2> SUFFICES ASSUME crashes = 0, NEW i \in Index, i # head
               PROVE  \/ slotState'[i] = "EMPTY"
                      \/ \E k \in 1 .. b : k > a /\ i = Cell(k - 1)
                      \/ cpc = "empty" /\ Following(i) = tail
    BY <1>1 DEF FreeSlots, con
  <2> QED
    BY DEF FreeSlots
<1>6. AgainInv'
  BY <1>1, Lengths, PublisherKeepsAgain
<1> QED
  BY <1>2, <1>3, <1>4, <1>5, <1>6

LEMMA PublishStep ==
  ASSUME IndInv, Publish, TypeOK'
  PROVE  IndInv'
<1> USE DEF IndInv
<1>0. /\ a \in Nat /\ b \in Nat /\ MaxPublished \in Nat /\ BufferSize \in Nat /\ BufferSize >= 1
      /\ a <= b /\ b - a <= BufferSize - 1
      /\ head \in Index /\ sent \in Nat
      /\ slotSeq \in [Index -> 0 .. MaxPublished] /\ slotPayload \in [Index -> Payloads \cup {Blank}]
      /\ slotState \in [Index -> {"EMPTY", "WRITING", "READY", "READING"}]
  <2>1. a \in Nat /\ b \in Nat /\ MaxPublished \in Nat /\ BufferSize \in Nat /\ BufferSize >= 1
    BY Lengths
  <2>2. a <= b /\ b - a <= BufferSize - 1
    BY DEF Indices
  <2>3. sent \in 0 .. MaxPublished /\ head \in Index
    BY DEF TypeOK
  <2>4. /\ slotSeq \in [Index -> 0 .. MaxPublished]
        /\ slotPayload \in [Index -> Payloads \cup {Blank}]
        /\ slotState \in [Index -> {"EMPTY", "WRITING", "READY", "READING"}]
    BY DEF TypeOK
  <2> QED
    BY <2>1, <2>2, <2>3, <2>4
<1>1. ASSUME PublishTooLarge PROVE IndInv'
  BY <1>1 DEF PublishTooLarge, vars, slots, pub, con, TypeOK, Indices, PubInv, ConInv, Contents,
              FreeSlots, AgainInv, a, b
<1>2. ASSUME PublishFull \/ PublishSlotBusy PROVE IndInv'
  <2>1. PubInv'
    BY <1>2 DEF PublishFull, PublishSlotBusy, PubInv, a, b, con
  <2> QED
    BY <1>2, <2>1, PublisherKeepsRing DEF PublishFull, PublishSlotBusy
<1>3. ASSUME NEW v \in Payloads, PublishCheck(v) PROVE IndInv'
  <2>1. b - a < BufferSize - 1 /\ b < MaxPublished
    BY <1>0, <1>3, Positions DEF PublishCheck, b
  <2>2. a' = a /\ b' = b
    BY <1>3 DEF PublishCheck, a, b, con
  <2>3. PubInv'
    BY <1>3, <2>1, <2>2 DEF PublishCheck, PubInv
  <2> QED
    BY <1>3, <2>3, PublisherKeepsRing DEF PublishCheck
<1>4. ASSUME PublishCas PROVE IndInv'
  <2>1. a' = a /\ b' = b
    BY <1>4 DEF PublishCas, a, b, con
  <2>2. PubInv'
    BY <1>0, <1>4, <2>1 DEF PublishCas, PubInv
  <2> QED
    BY <1>0, <1>4, <2>2, PublisherWritesHead DEF PublishCas
<1>5. ASSUME PublishHeader PROVE IndInv'
  <2>1. a' = a /\ b' = b
    BY <1>5 DEF PublishHeader, a, b, con
  <2>2. PubInv'
    BY <1>0, <1>5, <2>1 DEF PublishHeader, PubInv
  <2> QED
    BY <1>0, <1>5, <2>2, PublisherWritesHead DEF PublishHeader
<1>6. ASSUME PublishPayload PROVE IndInv'
  <2>1. a' = a /\ b' = b
    BY <1>6 DEF PublishPayload, a, b, con
  <2>2. PubInv'
    BY <1>0, <1>6, <2>1 DEF PublishPayload, PubInv
  <2> QED
    BY <1>0, <1>6, <2>2, PublisherWritesHead DEF PublishPayload
<1>7. ASSUME PublishReady PROVE IndInv'
  <2>1. a' = a /\ b' = b
    BY <1>7 DEF PublishReady, a, b, con
  <2>2. PubInv'
    BY <1>0, <1>7, <2>1 DEF PublishReady, PubInv
  <2> QED
    BY <1>0, <1>7, <2>2, PublisherWritesHead DEF PublishReady
<1>8. ASSUME PublishHead PROVE IndInv'
  <2> DEFINE m == [seq |-> localSequence, payload |-> payload]
  <2>1. /\ published' = Append(published, m) /\ head' = Following(head) /\ ppc = "head"
        /\ ppc' = "count" /\ UNCHANGED <<slots, sent, localSequence, con>>
        /\ m.seq = b + 1 /\ m.payload = payload
    BY <1>8 DEF PublishHead, PubInv
  <2>2. published \in Seq(Messages)
    BY DEF TypeOK
  <2> HIDE DEF m
  <2>3. /\ a' = a /\ b' = b + 1 /\ published'[b + 1] = m
        /\ \A k \in 1 .. b : published'[k] = published[k]
    BY <1>0, <2>1, <2>2 DEF a, b, con
  <2>4. b - a < BufferSize - 1 /\ b < MaxPublished /\ sent = b /\ localSequence = b + 1
    BY <2>1 DEF PubInv
  <2>5. head = Cell(b) /\ head' = Cell(b + 1)
    BY <1>0, <2>1, CellFacts DEF Indices
  <2>6. Indices'
    <3>1. \A k \in 1 .. b + 1 : published'[k].seq = k
      BY <1>0, <2>1, <2>3 DEF Indices
    <3>2. tail' = Cell(a')
      BY <2>1, <2>3 DEF Indices, con
    <3> QED
      BY <1>0, <2>3, <2>4, <2>5, <3>1, <3>2 DEF Indices
  <2>7. PubInv'
    BY <1>0, <2>1, <2>3, <2>4 DEF PubInv
  <2>8. ConInv'
    <3>1. a < b => published'[a + 1] = published[a + 1]
      BY <1>0, <2>3
    <3>2. UNCHANGED <<received, cpc, viewSeq, delivered, crashes>>
      BY <2>1 DEF con
    <3> QED
      BY <1>0, <2>3, <3>1, <3>2 DEF ConInv
  <2>9. Contents'
    <3> SUFFICES ASSUME NEW k \in 1 .. b + 1, k > a
                 PROVE  /\ slotSeq[Cell(k - 1)] = k
                        /\ slotPayload[Cell(k - 1)] = published'[k].payload
                        /\ \/ slotState[Cell(k - 1)] = "READY"
                           \/ /\ slotState[Cell(k - 1)] = "READING" /\ k = a + 1
                              /\ cpc = "tail" \/ crashes > 0
      BY <2>1, <2>3 DEF Contents, slots, con
    <3>1. CASE k \in 1 .. b
      BY <2>3, <3>1 DEF Contents
    <3>2. CASE k = b + 1
      <4>1. Cell(k - 1) = head
        BY <1>0, <2>5, <3>2
      <4> QED
        BY <2>1, <2>3, <3>2, <4>1 DEF PubInv
    <3> QED
      BY <1>0, <3>1, <3>2
  <2>10. FreeSlots'
    <3> SUFFICES ASSUME crashes = 0, NEW i \in Index
                 PROVE  \/ slotState[i] = "EMPTY"
                        \/ \E k \in 1 .. b + 1 : k > a /\ i = Cell(k - 1)
                        \/ cpc = "empty" /\ Following(i) = tail
      BY <2>1, <2>3 DEF FreeSlots, slots, con
    <3>1. CASE i = head
      <4>1. b + 1 \in 1 .. b + 1 /\ b + 1 > a /\ i = Cell((b + 1) - 1)
        BY <1>0, <2>5, <3>1
      <4> QED
        BY <4>1
    <3>2. CASE i # head
      <4>1. 1 .. b \subseteq 1 .. b + 1
        BY <1>0
      <4> QED
        BY <3>2, <4>1 DEF FreeSlots
    <3> QED
      BY <3>1, <3>2
  <2>11. AgainInv'
    <3>1. slotState' = slotState /\ b' \in Nat /\ b' >= b
      BY <1>0, <2>1, <2>3 DEF slots
    <3> QED
      BY <2>1, <2>3, <3>1, PublisherKeepsAgain
  <2> QED
    BY <2>6, <2>7, <2>8, <2>9, <2>10, <2>11
<1>9. ASSUME PublishCount PROVE IndInv'
  <2>1. a' = a /\ b' = b
    BY <1>9 DEF PublishCount, a, b, con
  <2>2. PubInv'
    BY <1>0, <1>9, <2>1 DEF PublishCount, PubInv
  <2> QED
    BY <1>9, <2>2, PublisherKeepsRing DEF PublishCount
<1>10. ASSUME PublisherDies PROVE IndInv'
  <2>1. a' = a /\ b' = b
    BY <1>10 DEF PublisherDies, a, b, con
  <2>2. PubInv'
    BY <1>0, <1>10, <2>1 DEF PublisherDies, PubInv
  <2> QED
    BY <1>10, <2>2, PublisherKeepsRing DEF PublisherDies
<1> QED
  BY <1>1, <1>2, <1>3, <1>4, <1>5, <1>6, <1>7, <1>8, <1>9, <1>10 DEF Publish

\* A step of a consumer that leaves the ring as it is, and FreeSlots true.
LEMMA ConsumerKeepsRing ==
  ASSUME IndInv, TypeOK', ConInv', AgainInv', UNCHANGED <<slots, tail, taken, pub>>,
         cpc = "tail" => cpc' = "tail" \/ crashes' > 0,
         cpc = "empty" => cpc' = "empty" \/ crashes' > 0,
         crashes' >= crashes
  PROVE  IndInv'
<1> USE DEF IndInv
<1>1. a' = a /\ b' = b
  BY DEF a, b, pub
<1>2. crashes \in Nat /\ crashes' \in Nat
  BY BoundsAssumption DEF TypeOK
<1>3. Indices'
  BY <1>1 DEF Indices, pub
<1>4. PubInv'
  BY <1>1 DEF PubInv, slots, pub
<1>5. Contents'
  BY <1>1, <1>2 DEF Contents, slots, pub
<1>6. FreeSlots'
  BY <1>1, <1>2 DEF FreeSlots, slots, pub
<1> QED
  BY <1>3, <1>4, <1>5, <1>6

LEMMA ConsumeStep ==
  ASSUME IndInv, Consume \/ ConsumerDies, TypeOK'
  PROVE  IndInv'
<1> USE DEF IndInv
<1>1. a \in Nat /\ b \in Nat /\ MaxPublished \in Nat /\ BufferSize \in Nat /\ BufferSize >= 1
  BY Lengths
<1>2. /\ a <= b /\ b - a <= BufferSize - 1
      /\ head = Cell(b) /\ tail = Cell(a)
  BY DEF Indices
<1>3. tail \in Index /\ slotState \in [Index -> {"EMPTY", "WRITING", "READY", "READING"}]
  BY DEF TypeOK
<1>4. received \in Nat /\ crashes \in Nat
  BY BoundsAssumption DEF TypeOK
<1>5. ASSUME ConsumeCall \/ ConsumeNothing \/ ConsumeCheck \/ ConsumeNotReady \/ ConsumeState
      PROVE  IndInv'
  <2>1. UNCHANGED <<slots, tail, received, viewSeq, delivered, again, crashes, taken, pub>>
    BY <1>5 DEF ConsumeCall, ConsumeNothing, ConsumeCheck, ConsumeNotReady, ConsumeState
  <2>2. a' = a /\ b' = b
    BY <2>1 DEF a, b, pub
  <2>3. ConInv'
    <3>1. tail # head => a < b
      BY <1>1, <1>2
    <3>2. cpc \notin {"reading", "tail", "empty", "callback"}
      BY <1>5 DEF ConsumeCall, ConsumeNothing, ConsumeCheck, ConsumeNotReady, ConsumeState
    <3>3. /\ cpc' \in {"check", "idle", "state", "copy"}
          /\ cpc' \in {"state", "copy"} => a < b
      BY <1>5, <3>1
      DEF ConsumeCall, ConsumeNothing, ConsumeCheck, ConsumeNotReady, ConsumeState, ConInv
    <3> QED
      BY <2>1, <2>2, <3>2, <3>3 DEF ConInv
  <2>4. cpc \notin {"tail", "empty", "reading"}
    BY <1>5 DEF ConsumeCall, ConsumeNothing, ConsumeCheck, ConsumeNotReady, ConsumeState
  <2>5. AgainInv'
    <3>1. /\ cpc' \in {"check", "idle", "state", "copy"}
          /\ cpc' = "copy" => slotState[tail] = "READY"
      BY <1>5 DEF ConsumeCall, ConsumeNothing, ConsumeCheck, ConsumeNotReady, ConsumeState
    <3>2. UNCHANGED <<slotState, published>>
      BY <2>1 DEF slots, pub
    <3> QED
      BY <2>1, <2>2, <2>4, <3>1, <3>2 DEF AgainInv
  <2> QED
    BY <1>4, <2>1, <2>3, <2>4, <2>5, ConsumerKeepsRing
<1>6. ASSUME ConsumeCopy PROVE IndInv'
  <2>1. a' = a /\ b' = b
    BY <1>6 DEF ConsumeCopy, a, b, pub
  <2>2. a < b
    BY <1>6 DEF ConsumeCopy, ConInv
  <2>3. viewSeq' = a + 1
    BY <1>6, <2>2, Oldest DEF ConsumeCopy
  <2>4. ConInv'
    BY <1>6, <2>1, <2>2, <2>3 DEF ConsumeCopy, ConInv
  <2>5. AgainInv'
    BY <1>6, <2>1 DEF ConsumeCopy, AgainInv, slots, pub
  <2> QED
    BY <1>4, <1>6, <2>4, <2>5, ConsumerKeepsRing DEF ConsumeCopy
<1>7. ASSUME ConsumeCallback PROVE IndInv'
  <2>1. a' = a /\ b' = b /\ published' = published
    BY <1>7 DEF ConsumeCallback, a, b, pub
  <2>2. a < b /\ viewSeq = a + 1
    BY <1>7 DEF ConsumeCallback, ConInv
  <2>3. delivered' = published[a + 1] /\ delivered'.seq = a + 1
    BY <1>7, <2>2, Oldest DEF ConsumeCallback
  <2>4. ConInv'
    BY <1>7, <2>1, <2>2, <2>3 DEF ConsumeCallback, ConInv
  <2>5. AgainInv'
    BY <1>7, <2>1, <2>2, <2>3 DEF ConsumeCallback, AgainInv, slots
  <2> QED
    BY <1>4, <1>7, <2>4, <2>5, ConsumerKeepsRing DEF ConsumeCallback
<1>8. ASSUME ConsumeThrows PROVE IndInv'
  <2>1. a' = a /\ b' = b
    BY <1>8 DEF ConsumeThrows, a, b, pub
  <2>2. a < b /\ viewSeq = a + 1 /\ published' = published
    BY <1>8 DEF ConsumeThrows, ConInv, pub
  <2>3. delivered' = published[a + 1]
    BY <1>8, <2>2, Oldest DEF ConsumeThrows
  <2>4. ConInv'
    BY <1>8, <2>1 DEF ConsumeThrows, ConInv
  <2>5. AgainInv'
    BY <1>8, <2>1, <2>2, <2>3 DEF ConsumeThrows, AgainInv
  <2> QED
    BY <1>4, <1>8, <2>4, <2>5, ConsumerKeepsRing DEF ConsumeThrows
<1>9. ASSUME ConsumeReading PROVE IndInv'
  <2>1. a' = a /\ b' = b
    BY <1>9 DEF ConsumeReading, a, b, pub
  <2>2. a < b /\ a + 1 \in 1 .. b /\ (a + 1) - 1 = a
    BY <1>1, <1>9 DEF ConsumeReading, ConInv
  <2>3. Indices'
    BY <1>9, <2>1 DEF ConsumeReading, Indices, pub
  <2>4. tail # head
    BY <1>1, <1>2, <2>2, Positions
  <2>5. PubInv'
    <3>1. slotState'[head] = slotState[head]
      BY <1>3, <1>9, <2>4 DEF ConsumeReading, TypeOK
    <3>2. /\ UNCHANGED <<head, sent, ppc, payload, localSequence, slotSeq, slotPayload>>
      BY <1>9 DEF ConsumeReading, pub
    <3> QED
      BY <2>1, <3>1, <3>2 DEF PubInv
  <2>6. ConInv'
    BY <1>9, <2>1 DEF ConsumeReading, ConInv, pub
  <2>7. Contents'
    <3> SUFFICES ASSUME NEW k \in 1 .. b, k > a
                 PROVE  /\ slotSeq[Cell(k - 1)] = k
                        /\ slotPayload[Cell(k - 1)] = published[k].payload
                        /\ \/ slotState'[Cell(k - 1)] = "READY"
                           \/ slotState'[Cell(k - 1)] = "READING" /\ k = a + 1
      BY <1>9, <2>1 DEF Contents, ConsumeReading, pub
    <3>1. slotSeq[Cell(k - 1)] = k /\ slotPayload[Cell(k - 1)] = published[k].payload
      BY DEF Contents
    <3>2. CASE k = a + 1
      <4>1. Cell(k - 1) = tail
        BY <1>2, <2>2, <3>2
      <4> QED
        BY <1>3, <1>9, <3>1, <3>2, <4>1 DEF ConsumeReading
    <3>3. CASE k > a + 1
      <4>1. Cell(k - 1) \in Index /\ Cell(k - 1) # tail
        BY <3>3, Positions
      <4>2. slotState[Cell(k - 1)] = "READY"
        BY <1>1, <3>3 DEF Contents
      <4> QED
        BY <1>3, <1>9, <3>1, <4>1, <4>2 DEF ConsumeReading
    <3> QED
      BY <1>1, <3>2, <3>3
  <2>8. FreeSlots'
    <3> SUFFICES ASSUME crashes = 0, NEW i \in Index
                 PROVE  \/ slotState'[i] = "EMPTY"
                        \/ \E k \in 1 .. b : k > a /\ i = Cell(k - 1)
                        \/ i = head /\ ppc \in {"header", "payload", "ready", "head", "dead"}
      BY <1>9, <2>1 DEF FreeSlots, ConsumeReading, pub
    <3>1. CASE i = tail
      <4>1. a + 1 > a /\ i = Cell((a + 1) - 1)
        BY <1>1, <1>2, <2>2, <3>1
      <4> QED
        BY <2>2, <4>1
    <3>2. CASE i # tail
      BY <1>3, <1>9, <3>2 DEF ConsumeReading, FreeSlots
    <3> QED
      BY <3>1, <3>2
  <2>9. AgainInv'
    <3>1. slotState'[tail] = "READING"
      BY <1>3, <1>9 DEF ConsumeReading
    <3> QED
      BY <1>9, <2>1, <3>1 DEF ConsumeReading, AgainInv
  <2> QED
    BY <2>3, <2>5, <2>6, <2>7, <2>8, <2>9
<1>10. ASSUME ConsumeTail PROVE IndInv'
  <2>1. a < b /\ delivered = published[a + 1] /\ a + 1 \in 1 .. b
    BY <1>1, <1>10 DEF ConsumeTail, ConInv
  <2>2. taken \in Seq(Messages)
    BY DEF TypeOK
  <2>3. a' = a + 1 /\ b' = b
    BY <1>10, <2>2 DEF ConsumeTail, a, b, pub
  <2>4. tail' = Cell(a + 1)
    BY <1>1, <1>2, <1>10, CellFacts DEF ConsumeTail
  <2>5. Indices'
    BY <1>1, <1>2, <1>10, <2>1, <2>3, <2>4 DEF ConsumeTail, Indices, pub
  <2>6. PubInv'
    <3>1. UNCHANGED <<head, sent, ppc, payload, localSequence, slots>>
      BY <1>10 DEF ConsumeTail, pub
    <3> QED
      BY <1>1, <2>3, <3>1 DEF PubInv, slots
  <2>7. ConInv'
    <3>1. received' = received /\ cpc' = "empty" /\ received <= a
      BY <1>10 DEF ConsumeTail, ConInv
    <3> QED
      BY <1>1, <1>4, <2>3, <3>1 DEF ConInv
  <2>8. Contents'
    <3> SUFFICES ASSUME NEW k \in 1 .. b, k > a + 1
                 PROVE  /\ slotSeq[Cell(k - 1)] = k
                        /\ slotPayload[Cell(k - 1)] = published[k].payload
                        /\ slotState[Cell(k - 1)] = "READY"
      BY <1>10, <2>3 DEF Contents, ConsumeTail, slots, pub
    <3> QED
      BY <1>1 DEF Contents
  <2>9. FreeSlots'
    <3> SUFFICES ASSUME crashes = 0, NEW i \in Index
                 PROVE  \/ slotState[i] = "EMPTY"
                        \/ \E k \in 1 .. b : k > a + 1 /\ i = Cell(k - 1)
                        \/ i = head /\ ppc \in {"header", "payload", "ready", "head", "dead"}
                        \/ Following(i) = tail'
      BY <1>10, <2>3 DEF FreeSlots, ConsumeTail, slots, pub
    <3>1. cpc = "tail" /\ tail' = Following(tail)
      BY <1>10 DEF ConsumeTail
    <3>2. CASE \E k \in 1 .. b : k > a /\ i = Cell(k - 1)
      <4>1. PICK k \in 1 .. b : k > a /\ i = Cell(k - 1)
        BY <3>2
      <4>2. CASE k = a + 1
        <5>1. i = tail
          BY <1>1, <1>2, <4>1, <4>2
        <5> QED
          BY <3>1, <5>1
      <4>3. CASE k > a + 1
        BY <4>1, <4>3
      <4> QED
        BY <1>1, <4>1, <4>2, <4>3
    <3> QED
      BY <3>1, <3>2 DEF FreeSlots
  <2>10. AgainInv'
    <3>1. delivered.seq = a + 1
      BY <2>1, Oldest
    <3>2. UNCHANGED <<delivered, again>> /\ cpc' = "empty" /\ ~again
      BY <1>10 DEF ConsumeTail, AgainInv
    <3> QED
      BY <2>3, <3>1, <3>2 DEF AgainInv
  <2> QED
    BY <2>5, <2>6, <2>7, <2>8, <2>9, <2>10
<1>11. ASSUME ConsumeEmpty PROVE IndInv'
  <2>1. a' = a /\ b' = b
    BY <1>11 DEF ConsumeEmpty, a, b, pub
  <2>2. Indices'
    BY <1>11, <2>1 DEF ConsumeEmpty, Indices, pub
  <2>3. PubInv'
    <3>1. ppc = "head" => slotState'[head] = slotState[head]
      <4> SUFFICES ASSUME ppc = "head" PROVE slotState'[head] = slotState[head]
        OBVIOUS
      <4>1. b - a < BufferSize - 1 /\ head \in Index
        BY DEF PubInv, TypeOK
      <4>2. Following(head) # tail
        BY <4>1, Positions
      <4> QED
        BY <1>11, <4>1, <4>2 DEF ConsumeEmpty
    <3>2. UNCHANGED <<head, sent, ppc, payload, localSequence, slotSeq, slotPayload>>
      BY <1>11 DEF ConsumeEmpty, pub
    <3> QED
      BY <2>1, <3>1, <3>2 DEF PubInv
  <2>4. ConInv'
    BY <1>11, <2>1 DEF ConsumeEmpty, ConInv
  <2>5. Contents'
    <3> SUFFICES ASSUME NEW k \in 1 .. b, k > a
                 PROVE  /\ slotSeq[Cell(k - 1)] = k
                        /\ slotPayload[Cell(k - 1)] = published[k].payload
                        /\ \/ slotState'[Cell(k - 1)] = "READY"
                           \/ slotState'[Cell(k - 1)] = "READING" /\ k = a + 1 /\ crashes > 0
      BY <1>11, <2>1 DEF Contents, ConsumeEmpty, pub
    <3>1. Cell(k - 1) \in Index /\ Following(Cell(k - 1)) # tail
      BY Positions
    <3>2. slotState'[Cell(k - 1)] = slotState[Cell(k - 1)] /\ cpc # "tail"
      BY <1>11, <3>1 DEF ConsumeEmpty
    <3> QED
      BY <3>2 DEF Contents
  <2>6. FreeSlots'
    <3> SUFFICES ASSUME crashes = 0, NEW i \in Index
                 PROVE  \/ slotState'[i] = "EMPTY"
                        \/ \E k \in 1 .. b : k > a /\ i = Cell(k - 1)
                        \/ i = head /\ ppc \in {"header", "payload", "ready", "head", "dead"}
      BY <1>11, <2>1 DEF FreeSlots, ConsumeEmpty, pub
    <3>1. CASE Following(i) = tail
      BY <1>11, <3>1 DEF ConsumeEmpty
    <3>2. CASE Following(i) # tail
      <4>1. slotState'[i] = slotState[i]
        BY <1>11, <3>2 DEF ConsumeEmpty
      <4> QED
        BY <3>2, <4>1 DEF FreeSlots
    <3> QED
      BY <3>1, <3>2
  <2>7. AgainInv'
    <3>1. UNCHANGED <<tail, delivered, again, published>> /\ cpc = "empty" /\ cpc' = "count"
      BY <1>11 DEF ConsumeEmpty, pub
    <3>2. a < b => slotState'[tail] = slotState[tail]
      <4> SUFFICES ASSUME a < b PROVE slotState'[tail] = slotState[tail]
        OBVIOUS
      <4>1. a + 1 \in 1 .. b /\ a + 1 > a /\ Cell((a + 1) - 1) = tail
        BY <1>1, <1>2
      <4>2. Following(tail) # tail
        BY <4>1, Positions
      <4> QED
        BY <1>3, <1>11, <4>2 DEF ConsumeEmpty
    <3> QED
      BY <2>1, <3>1, <3>2 DEF AgainInv
  <2> QED
    BY <2>2, <2>3, <2>4, <2>5, <2>6, <2>7
<1>12. ASSUME ConsumeCount PROVE IndInv'
  <2>1. a' = a /\ b' = b
    BY <1>12 DEF ConsumeCount, a, b, pub
  <2>2. received < a
    BY <1>12 DEF ConsumeCount, ConInv
  <2>3. ConInv'
    BY <1>1, <1>4, <1>12, <2>1, <2>2 DEF ConsumeCount, ConInv
  <2>4. AgainInv'
    BY <1>12, <2>1 DEF ConsumeCount, AgainInv, slots, pub
  <2> QED
    BY <1>4, <1>12, <2>3, <2>4, ConsumerKeepsRing DEF ConsumeCount
<1>13. ASSUME ConsumerDies PROVE IndInv'
  <2>1. a' = a /\ b' = b
    BY <1>13 DEF ConsumerDies, a, b, pub
  <2>2. crashes' > 0 /\ crashes' >= crashes
    BY <1>4, <1>13 DEF ConsumerDies
  <2>3. ConInv'
    BY <1>13, <2>1, <2>2 DEF ConsumerDies, ConInv
  <2>4. AgainInv'
    <3>1. /\ UNCHANGED <<tail, delivered, published, slotState>> /\ cpc' = "idle"
          /\ again' = (again \/ cpc = "reading")
      BY <1>13 DEF ConsumerDies, slots, pub
    <3>2. cpc = "reading" => a < b /\ delivered = published[a + 1]
      BY DEF ConInv
    <3> QED
      BY <2>1, <3>1, <3>2 DEF AgainInv
  <2> QED
    BY <1>13, <2>2, <2>3, <2>4, ConsumerKeepsRing DEF ConsumerDies
<1> QED
  BY <1>5, <1>6, <1>7, <1>8, <1>9, <1>10, <1>11, <1>12, <1>13 DEF Consume

\* Every step of publisher and consumers, and every death, keeps the invariant.
LEMMA StepIndInv == IndInv /\ [Next]_vars => IndInv'
<1> SUFFICES ASSUME IndInv, [Next]_vars PROVE IndInv'
  OBVIOUS
<1>1. TypeOK'
  BY TypeStep
<1>2. CASE Next
  BY <1>1, <1>2, PublishStep, ConsumeStep DEF Next
<1>3. CASE UNCHANGED vars
  BY <1>3 DEF vars, slots, pub, con, IndInv, TypeOK, Indices, PubInv, ConInv, Contents, FreeSlots,
              AgainInv, a, b
<1> QED
  BY <1>2, <1>3

\* The invariant holds in every behaviour.
THEOREM Invariance == Spec => []IndInv
BY InitIndInv, StepIndInv, PTL DEF Spec

\* Every variable keeps its type.
THEOREM TypeCorrect == Spec => []TypeOK
BY Invariance, PTL DEF IndInv

\* A slot between tail and head is READY, or READING under a consumer that has
\* called its callback: the slot states publish and consume check never
\* contradict head and tail.
THEOREM SlotStatesMatch == Spec => []SlotsMatchIndices
<1>1. IndInv => SlotsMatchIndices
  <2> SUFFICES ASSUME IndInv, NEW i \in InUse
               PROVE  \/ slotState[i] = "READY"
                      \/ slotState[i] = "READING" /\ i = tail /\ (cpc = "tail" \/ crashes > 0)
    BY DEF SlotsMatchIndices
  <2> USE DEF IndInv
  <2>1. a \in Nat /\ b \in Nat
    BY Lengths
  <2>2. PICK k \in a .. b - 1 : i = Cell(k)
    BY DEF InUse, Cell, a, b
  <2>3. k + 1 \in 1 .. b /\ k + 1 > a /\ (k + 1) - 1 = k
    BY <2>1, <2>2
  <2>4. \/ slotState[i] = "READY"
        \/ slotState[i] = "READING" /\ k + 1 = a + 1 /\ (cpc = "tail" \/ crashes > 0)
    BY <2>2, <2>3 DEF Contents
  <2>5. k + 1 = a + 1 => i = tail
    BY <2>1, <2>2 DEF Indices
  <2> QED
    BY <2>4, <2>5
<1> QED
  BY <1>1, Invariance, PTL

\* Consumers never count a message that publish has not published.
THEOREM StatisticsNeverCross == Spec => []StatisticsAgree
<1>1. IndInv => StatisticsAgree
  <2> SUFFICES ASSUME IndInv PROVE received <= sent + 1
    BY DEF StatisticsAgree
  <2> USE DEF IndInv
  <2>1. a \in Nat /\ b \in Nat
    BY Lengths
  <2>2. received \in Nat /\ sent \in Nat
    BY BoundsAssumption DEF TypeOK
  <2> QED
    BY <2>1, <2>2 DEF Indices, PubInv, ConInv
<1> QED
  BY <1>1, Invariance, PTL

\* A callback sees the message after the one the callback before it saw, whatever publish
\* drops, or that very message again when the callback before threw, or its consumer died
\* before it marked the slot READING.
THEOREM NothingSkipped == Spec => NeverSkips
<1> DEFINE Seen == IF again THEN delivered' = delivered ELSE delivered'.seq = delivered.seq + 1
<1>1. IndInv /\ [Next]_vars => [ConsumeCallback \/ ConsumeThrows => Seen]_vars
  <2> SUFFICES ASSUME IndInv, ConsumeCallback \/ ConsumeThrows
               PROVE  Seen
    OBVIOUS
  <2> USE DEF IndInv
  <2>1. /\ cpc = "callback" /\ delivered' = [seq |-> viewSeq, payload |-> slotPayload[tail]]
        /\ a < b /\ viewSeq = a + 1
    BY DEF ConsumeCallback, ConsumeThrows, ConInv
  <2>2. delivered' = published[a + 1] /\ delivered'.seq = a + 1
    BY <2>1, Oldest
  <2>3. slotState[tail] = "READY"
    BY <2>1 DEF AgainInv
  <2>4. CASE again
    BY <2>2, <2>4 DEF AgainInv
  <2>5. CASE ~again
    <3>1. delivered.seq = a
      BY <2>1, <2>3, <2>5 DEF AgainInv
    <3> QED
      BY <2>2, <2>5, <3>1
  <2> QED
    BY <2>4, <2>5
<1> QED
  BY <1>1, Invariance, PTL DEF Spec, NeverSkips

\* Until a consumer dies inside consume, publish finds the slot it takes EMPTY.
THEOREM SlotAtHeadIsFree == Spec => DropHasReason
<1>1. IndInv /\ [Next]_vars => [PublishSlotBusy => crashes > 0]_vars
  <2> SUFFICES ASSUME IndInv, PublishSlotBusy, crashes = 0 PROVE FALSE
    BY BoundsAssumption DEF IndInv, TypeOK
  <2> USE DEF IndInv
  <2>1. ppc = "cas" /\ slotState[head] # "EMPTY" /\ head \in Index
    BY DEF PublishSlotBusy, SlotFree, TypeOK
  <2>2. Following(head) # tail
    BY <2>1, Positions DEF PubInv
  <2>3. \A k \in 1 .. b : k > a => Cell(k - 1) # head
    BY Positions
  <2> QED
    BY <2>1, <2>2, <2>3 DEF FreeSlots
<1> QED
  BY <1>1, Invariance, PTL DEF Spec, DropHasReason

\* The ring is a first-in first-out queue of BufferSize - 1 places: publish puts
\* a message in when it moves head, consume takes the oldest out when it moves
\* tail, and no other step of the two shows.
THEOREM ImplementsFifo == Spec => FifoSpec
<1>1. Init => Fifo!Init
  BY DEF Init, Fifo!Init
<1>2. IndInv /\ [Next]_vars => [Fifo!Next]_<<published, taken>>
  <2> SUFFICES ASSUME IndInv, Next, ~UNCHANGED <<published, taken>>
               PROVE  Fifo!Next
    BY DEF vars, pub, con
  <2> USE DEF IndInv
  <2>1. CASE PublishHead
    <3>1. [seq |-> localSequence, payload |-> payload] \in Messages
      <4>1. b \in Nat /\ MaxPublished \in Nat
        BY Lengths
      <4> QED
        BY <2>1, <4>1 DEF PublishHead, PubInv, Messages
    <3>2. Fifo!Push([seq |-> localSequence, payload |-> payload])
      BY <2>1 DEF PublishHead, PubInv, Fifo!Push, con, a, b
    <3> QED
      BY <3>1, <3>2 DEF Fifo!Next
  <2>2. CASE ConsumeTail
    <3>1. Fifo!Pop
      BY <2>2 DEF ConsumeTail, ConInv, Fifo!Pop, pub, a, b
    <3> QED
      BY <3>1 DEF Fifo!Next
  <2>3. CASE Publish /\ ~PublishHead
    <3>1. UNCHANGED <<published, taken>>
      BY <2>3 DEF Publish, PublishTooLarge, PublishFull, PublishCas, PublishSlotBusy, PublishHeader,
         PublishPayload, PublishReady, PublishCount, PublisherDies, PublishCheck, vars, pub, con
    <3> QED
      BY <3>1
  <2>4. CASE (Consume \/ ConsumerDies) /\ ~ConsumeTail
    <3>1. UNCHANGED <<published, taken>>
      BY <2>4 DEF Consume, ConsumerDies, ConsumeCall, ConsumeNothing, ConsumeCheck, ConsumeNotReady,
         ConsumeState, ConsumeCopy, ConsumeCallback, ConsumeThrows, ConsumeReading, ConsumeEmpty,
         ConsumeCount, pub
    <3> QED
      BY <3>1
  <2> QED
    BY <2>1, <2>2, <2>3, <2>4 DEF Next
<1> QED
  BY <1>1, <1>2, Invariance, PTL DEF Spec, FifoSpec, Fifo!Spec

-----------------------------------------------------------------------------
(* The handles to a channel *)

\* Who maps what: a handle that has begun nothing or has ended maps nothing, and until
\* somebody has left, everybody is where the name leads.
PlaceInv ==
    /\ \A h \in Handles : pc[h] \in {"free", "gone"} => seg[h] = 0 /\ ~is_creator[h]
    /\ \A h \in Handles : pc[h] = "check" => ~is_creator[h]
    /\ \A h \in Handles : pc[h] \in Creating \cup {"destroy"} => is_creator[h]
    /\ \A h \in Handles : ~left => pc[h] \notin Closing /\ (seg[h] # 0 => seg[h] = link)

\* A segment that does not exist starts from zero bytes.
ZeroInv == \A s \in Segments : ~Exists(s) => ~initialized[s] /\ unread[s] = 0 /\ s \notin joined

\* A segment that no create has found has one creator: while that one makes it, it is
\* not initialized, empty, and nobody is about to store into it; then it is initialized.
OwnInv ==
    /\ \A g, h \in Handles :
          g # h /\ is_creator[g] /\ is_creator[h] /\ seg[g] = seg[h] /\ seg[h] # 0 => seg[h] \in joined
    /\ \A h \in Handles :
          pc[h] \in Creating /\ seg[h] \notin joined =>
              ~initialized[seg[h]] /\ unread[seg[h]] = 0 /\ \A g \in pending : seg[g] # seg[h]
    /\ \A h \in Handles : pc[h] = "open" /\ is_creator[h] /\ seg[h] \notin joined => initialized[seg[h]]

LifecycleInv == LifecycleTypeOK /\ PlaceInv /\ ZeroInv /\ OwnInv

LEMMA ReclaimFacts ==
  ASSUME LifecycleTypeOK, Reclaim
  PROVE  /\ sized' \in [Segments -> BOOLEAN] /\ named' \in [Segments -> BOOLEAN]
         /\ initialized' \in [Segments -> BOOLEAN] /\ unread' \in [Segments -> 0 .. MaxUnread]
         /\ joined' \subseteq Segments
         /\ \A s \in Segments :
               IF Exists(s)' THEN /\ initialized'[s] = initialized[s] /\ unread'[s] = unread[s]
                                  /\ s \in joined' <=> s \in joined
               ELSE ~initialized'[s] /\ unread'[s] = 0 /\ s \notin joined'
<1> USE LifecycleAssumption
<1>1. ASSUME NEW s \in Segments PROVE Exists(s)' \in BOOLEAN
  BY DEF Exists
<1> QED
  BY <1>1 DEF Reclaim, LifecycleTypeOK

\* Some handles go, and what was theirs only goes with them.
LEMMA LeaveStep ==
  ASSUME LifecycleInv, Reclaim, link' \in {link, 0}, seg' \in [Handles -> 0 .. MaxSegments],
         pc' \in [Handles -> {"free", "check", "open", "gone"} \cup Creating \cup Closing],
         is_creator' \in [Handles -> BOOLEAN], left' \in BOOLEAN, pending' \subseteq pending,
         \A h \in Handles :
            \/ pc'[h] = pc[h] /\ seg'[h] = seg[h] /\ is_creator'[h] = is_creator[h]
            \/ /\ pc'[h] \in {"free", "unlink", "again", "gone"} /\ seg'[h] = 0 /\ h \notin pending'
               /\ is_creator'[h] => is_creator[h]
               /\ pc'[h] \in {"free", "gone"} => ~is_creator'[h],
         ~left' => ~left /\ link' = link /\ \A h \in Handles : pc'[h] \notin Closing
  PROVE  LifecycleInv'
<1> USE LifecycleAssumption
<1>1. LifecycleTypeOK /\ PlaceInv /\ ZeroInv /\ OwnInv
  BY DEF LifecycleInv
<1>2. /\ sized' \in [Segments -> BOOLEAN] /\ named' \in [Segments -> BOOLEAN]
      /\ initialized' \in [Segments -> BOOLEAN] /\ unread' \in [Segments -> 0 .. MaxUnread]
      /\ joined' \subseteq Segments
      /\ \A s \in Segments :
            IF Exists(s)' THEN /\ initialized'[s] = initialized[s] /\ unread'[s] = unread[s]
                               /\ s \in joined' <=> s \in joined
            ELSE ~initialized'[s] /\ unread'[s] = 0 /\ s \notin joined'
  BY <1>1, ReclaimFacts
<1>3. \A h \in Handles : seg'[h] # 0 =>
         /\ seg'[h] \in Segments /\ seg'[h] = seg[h] /\ pc'[h] = pc[h] /\ is_creator'[h] = is_creator[h]
         /\ initialized'[seg[h]] = initialized[seg[h]] /\ unread'[seg[h]] = unread[seg[h]]
         /\ seg[h] \in joined' <=> seg[h] \in joined
  <2> SUFFICES ASSUME NEW h \in Handles, seg'[h] # 0
               PROVE  /\ seg'[h] \in Segments /\ seg'[h] = seg[h] /\ pc'[h] = pc[h] /\ is_creator'[h] = is_creator[h]
                      /\ initialized'[seg[h]] = initialized[seg[h]] /\ unread'[seg[h]] = unread[seg[h]]
                      /\ seg[h] \in joined' <=> seg[h] \in joined
    OBVIOUS
  <2>1. seg'[h] \in Segments /\ seg'[h] = seg[h] /\ pc'[h] = pc[h] /\ is_creator'[h] = is_creator[h]
    BY DEF Segments
  <2>2. Exists(seg[h])'
    BY <2>1 DEF Exists
  <2> QED
    BY <1>2, <2>1, <2>2
<1>4. \A h \in Handles : pc'[h] \in {"check", "open", "destroy"} \cup Creating => seg'[h] # 0 /\ pc'[h] = pc[h]
  BY <1>1 DEF LifecycleTypeOK, Creating
<1>5. \A h \in pending' : h \in Handles /\ pc'[h] = "open" /\ seg'[h] # 0 /\ seg'[h] = seg[h]
  BY <1>1 DEF LifecycleTypeOK
<1>6. LifecycleTypeOK'
  <2>1. link' \in 0 .. MaxSegments
    BY <1>1 DEF LifecycleTypeOK
  <2>2. pending' \subseteq {h \in Handles : pc'[h] = "open"}
    BY <1>5
  <2> QED
    BY <1>2, <1>4, <2>1, <2>2 DEF LifecycleTypeOK
<1>7. PlaceInv'
  <2>1. \A h \in Handles : pc'[h] \in {"free", "gone"} => seg'[h] = 0 /\ ~is_creator'[h]
    BY <1>1 DEF PlaceInv
  <2>2. \A h \in Handles : pc'[h] = "check" => ~is_creator'[h]
    BY <1>1 DEF PlaceInv
  <2>3. \A h \in Handles : pc'[h] \in Creating \cup {"destroy"} => is_creator'[h]
    BY <1>1 DEF PlaceInv, Creating
  <2>4. \A h \in Handles : ~left' => pc'[h] \notin Closing /\ (seg'[h] # 0 => seg'[h] = link')
    BY <1>1, <1>3 DEF PlaceInv
  <2> QED
    BY <2>1, <2>2, <2>3, <2>4 DEF PlaceInv
<1>8. ZeroInv'
  <2> SUFFICES ASSUME NEW s \in Segments, ~Exists(s)' PROVE ~initialized'[s] /\ unread'[s] = 0 /\ s \notin joined'
    BY DEF ZeroInv
  <2> QED
    BY <1>2
<1>9. OwnInv'
  <2>1. \A g, h \in Handles :
          g # h /\ is_creator'[g] /\ is_creator'[h] /\ seg'[g] = seg'[h] /\ seg'[h] # 0 => seg'[h] \in joined'
    BY <1>1, <1>3 DEF OwnInv
  <2>2. \A h \in Handles :
          pc'[h] \in Creating /\ seg'[h] \notin joined' =>
              ~initialized'[seg'[h]] /\ unread'[seg'[h]] = 0 /\ \A g \in pending' : seg'[g] # seg'[h]
    BY <1>1, <1>3, <1>4, <1>5 DEF OwnInv
  <2>3. \A h \in Handles : pc'[h] = "open" /\ is_creator'[h] /\ seg'[h] \notin joined' => initialized'[seg'[h]]
    BY <1>1, <1>3, <1>4 DEF OwnInv
  <2> QED
    BY <2>1, <2>2, <2>3 DEF OwnInv
<1> QED
  BY <1>6, <1>7, <1>8, <1>9 DEF LifecycleInv

LEMMA CreateNothingStep ==
  ASSUME LifecycleInv, NEW h \in Handles, CreateNothing(h)
  PROVE  LifecycleInv'
<1> USE LifecycleAssumption DEF CreateNothing, Goto, segments, Segments, Creating, Closing
<1>1. LifecycleTypeOK'
  BY DEF LifecycleInv, LifecycleTypeOK
<1>2. PlaceInv'
  BY DEF LifecycleInv, LifecycleTypeOK, PlaceInv
<1>3. ZeroInv'
  BY DEF LifecycleInv, LifecycleTypeOK, PlaceInv, ZeroInv, Exists
<1>4. OwnInv'
  BY DEF LifecycleInv, LifecycleTypeOK, PlaceInv, OwnInv
<1> QED
  BY <1>1, <1>2, <1>3, <1>4 DEF LifecycleInv

LEMMA TruncateStep ==
  ASSUME LifecycleInv, NEW h \in Handles, Truncate(h)
  PROVE  LifecycleInv'
<1> USE LifecycleAssumption DEF Truncate, Goto, segments, Segments, Creating, Closing
<1>1. LifecycleTypeOK'
  BY DEF LifecycleInv, LifecycleTypeOK
<1>2. PlaceInv'
  BY DEF LifecycleInv, LifecycleTypeOK, PlaceInv
<1>3. ZeroInv'
  BY DEF LifecycleInv, LifecycleTypeOK, PlaceInv, ZeroInv, Exists
<1>4. OwnInv'
  BY DEF LifecycleInv, LifecycleTypeOK, PlaceInv, OwnInv
<1> QED
  BY <1>1, <1>2, <1>3, <1>4 DEF LifecycleInv

LEMMA UninitializeStep ==
  ASSUME LifecycleInv, NEW h \in Handles, Uninitialize(h)
  PROVE  LifecycleInv'
<1> USE LifecycleAssumption DEF Uninitialize, Goto, segments, Segments, Creating, Closing
<1>1. LifecycleTypeOK'
  BY DEF LifecycleInv, LifecycleTypeOK
<1>2. PlaceInv'
  BY DEF LifecycleInv, LifecycleTypeOK, PlaceInv
<1>3. ZeroInv'
  BY DEF LifecycleInv, LifecycleTypeOK, PlaceInv, ZeroInv, Exists
<1>4. OwnInv'
  BY DEF LifecycleInv, LifecycleTypeOK, PlaceInv, OwnInv
<1> QED
  BY <1>1, <1>2, <1>3, <1>4 DEF LifecycleInv

LEMMA BlankNameStep ==
  ASSUME LifecycleInv, NEW h \in Handles, BlankName(h)
  PROVE  LifecycleInv'
<1> USE LifecycleAssumption DEF BlankName, Goto, segments, Segments, Creating, Closing
<1>1. LifecycleTypeOK'
  BY DEF LifecycleInv, LifecycleTypeOK
<1>2. PlaceInv'
  BY DEF LifecycleInv, LifecycleTypeOK, PlaceInv
<1>3. ZeroInv'
  BY DEF LifecycleInv, LifecycleTypeOK, PlaceInv, ZeroInv, Exists
<1>4. OwnInv'
  BY DEF LifecycleInv, LifecycleTypeOK, PlaceInv, OwnInv
<1> QED
  BY <1>1, <1>2, <1>3, <1>4 DEF LifecycleInv

LEMMA SetNameStep ==
  ASSUME LifecycleInv, NEW h \in Handles, SetName(h)
  PROVE  LifecycleInv'
<1> USE LifecycleAssumption DEF SetName, Goto, segments, Segments, Creating, Closing
<1>1. LifecycleTypeOK'
  BY DEF LifecycleInv, LifecycleTypeOK
<1>2. PlaceInv'
  BY DEF LifecycleInv, LifecycleTypeOK, PlaceInv
<1>3. ZeroInv'
  BY DEF LifecycleInv, LifecycleTypeOK, PlaceInv, ZeroInv, Exists
<1>4. OwnInv'
  BY DEF LifecycleInv, LifecycleTypeOK, PlaceInv, OwnInv
<1> QED
  BY <1>1, <1>2, <1>3, <1>4 DEF LifecycleInv

LEMMA ResetStep ==
  ASSUME LifecycleInv, NEW h \in Handles, Reset(h)
  PROVE  LifecycleInv'
<1> USE LifecycleAssumption DEF Reset, Goto, segments, Segments, Creating, Closing
<1>1. LifecycleTypeOK'
  BY DEF LifecycleInv, LifecycleTypeOK
<1>2. PlaceInv'
  BY DEF LifecycleInv, LifecycleTypeOK, PlaceInv
<1>3. ZeroInv'
  BY DEF LifecycleInv, LifecycleTypeOK, PlaceInv, ZeroInv, Exists
<1>4. OwnInv'
  BY DEF LifecycleInv, LifecycleTypeOK, PlaceInv, OwnInv
<1> QED
  BY <1>1, <1>2, <1>3, <1>4 DEF LifecycleInv

LEMMA FinishStep ==
  ASSUME LifecycleInv, NEW h \in Handles, Finish(h)
  PROVE  LifecycleInv'
<1> USE LifecycleAssumption DEF Finish, Goto, segments, Segments, Creating, Closing
<1>1. LifecycleTypeOK'
  BY DEF LifecycleInv, LifecycleTypeOK
<1>2. PlaceInv'
  BY DEF LifecycleInv, LifecycleTypeOK, PlaceInv
<1>3. ZeroInv'
  BY DEF LifecycleInv, LifecycleTypeOK, PlaceInv, ZeroInv, Exists
<1>4. OwnInv'
  BY DEF LifecycleInv, LifecycleTypeOK, PlaceInv, OwnInv
<1> QED
  BY <1>1, <1>2, <1>3, <1>4 DEF LifecycleInv

LEMMA OpenFindsStep ==
  ASSUME LifecycleInv, NEW h \in Handles, OpenFinds(h)
  PROVE  LifecycleInv'
<1> USE LifecycleAssumption DEF OpenFinds, Goto, segments, Segments, Creating, Closing
<1>1. LifecycleTypeOK'
  BY DEF LifecycleInv, LifecycleTypeOK
<1>2. PlaceInv'
  BY DEF LifecycleInv, LifecycleTypeOK, PlaceInv
<1>3. ZeroInv'
  BY DEF LifecycleInv, LifecycleTypeOK, PlaceInv, ZeroInv, Exists
<1>4. OwnInv'
  BY DEF LifecycleInv, LifecycleTypeOK, PlaceInv, OwnInv
<1> QED
  BY <1>1, <1>2, <1>3, <1>4 DEF LifecycleInv

LEMMA OpenNothingStep ==
  ASSUME LifecycleInv, NEW h \in Handles, OpenNothing(h)
  PROVE  LifecycleInv'
<1> USE LifecycleAssumption DEF OpenNothing, Goto, segments, Segments, Creating, Closing
<1>1. LifecycleTypeOK'
  BY DEF LifecycleInv, LifecycleTypeOK
<1>2. PlaceInv'
  BY DEF LifecycleInv, LifecycleTypeOK, PlaceInv
<1>3. ZeroInv'
  BY DEF LifecycleInv, LifecycleTypeOK, PlaceInv, ZeroInv, Exists
<1>4. OwnInv'
  BY DEF LifecycleInv, LifecycleTypeOK, PlaceInv, OwnInv
<1> QED
  BY <1>1, <1>2, <1>3, <1>4 DEF LifecycleInv

LEMMA OpenSucceedsStep ==
  ASSUME LifecycleInv, NEW h \in Handles, OpenSucceeds(h)
  PROVE  LifecycleInv'
<1> USE LifecycleAssumption DEF OpenSucceeds, Goto, segments, Segments, Creating, Closing
<1>1. LifecycleTypeOK'
  BY DEF LifecycleInv, LifecycleTypeOK
<1>2. PlaceInv'
  BY DEF LifecycleInv, LifecycleTypeOK, PlaceInv
<1>3. ZeroInv'
  BY DEF LifecycleInv, LifecycleTypeOK, PlaceInv, ZeroInv, Exists
<1>4. OwnInv'
  BY DEF LifecycleInv, LifecycleTypeOK, PlaceInv, OwnInv
<1> QED
  BY <1>1, <1>2, <1>3, <1>4 DEF LifecycleInv

LEMMA CloseStep ==
  ASSUME LifecycleInv, NEW h \in Handles, Close(h)
  PROVE  LifecycleInv'
<1> USE LifecycleAssumption DEF Close, Goto, segments, Segments, Creating, Closing
<1>1. LifecycleTypeOK'
  BY DEF LifecycleInv, LifecycleTypeOK
<1>2. PlaceInv'
  BY DEF LifecycleInv, LifecycleTypeOK, PlaceInv
<1>3. ZeroInv'
  BY DEF LifecycleInv, LifecycleTypeOK, PlaceInv, ZeroInv, Exists
<1>4. OwnInv'
  BY DEF LifecycleInv, LifecycleTypeOK, PlaceInv, OwnInv
<1> QED
  BY <1>1, <1>2, <1>3, <1>4 DEF LifecycleInv

LEMMA DestroyStep ==
  ASSUME LifecycleInv, NEW h \in Handles, Destroy(h)
  PROVE  LifecycleInv'
<1> USE LifecycleAssumption DEF Destroy, Goto, segments, Segments, Creating, Closing
<1>1. LifecycleTypeOK'
  BY DEF LifecycleInv, LifecycleTypeOK
<1>2. PlaceInv'
  BY DEF LifecycleInv, LifecycleTypeOK, PlaceInv
<1>3. ZeroInv'
  BY DEF LifecycleInv, LifecycleTypeOK, PlaceInv, ZeroInv, Exists
<1>4. OwnInv'
  BY DEF LifecycleInv, LifecycleTypeOK, PlaceInv, OwnInv
<1> QED
  BY <1>1, <1>2, <1>3, <1>4 DEF LifecycleInv

LEMMA PublishTestStep ==
  ASSUME LifecycleInv, NEW h \in Handles, PublishTest(h)
  PROVE  LifecycleInv'
<1> USE LifecycleAssumption DEF PublishTest, Goto, segments, Segments, Creating, Closing
<1>1. LifecycleTypeOK'
  BY DEF LifecycleInv, LifecycleTypeOK
<1>2. PlaceInv'
  BY DEF LifecycleInv, LifecycleTypeOK, PlaceInv
<1>3. ZeroInv'
  BY DEF LifecycleInv, LifecycleTypeOK, PlaceInv, ZeroInv, Exists
<1>4. OwnInv'
  BY DEF LifecycleInv, LifecycleTypeOK, PlaceInv, OwnInv
<1> QED
  BY <1>1, <1>2, <1>3, <1>4 DEF LifecycleInv

LEMMA PublishStoreStep ==
  ASSUME LifecycleInv, NEW h \in Handles, PublishStore(h)
  PROVE  LifecycleInv'
<1> USE LifecycleAssumption DEF PublishStore, Goto, segments, Segments, Creating, Closing
<1>1. LifecycleTypeOK'
  <2>1. seg[h] \in Segments /\ unread[seg[h]] \in 0 .. MaxUnread
    BY DEF LifecycleInv, LifecycleTypeOK
  <2>2. Room(seg[h]) => unread[seg[h]] + 1 \in 0 .. MaxUnread
    BY <2>1 DEF Room
  <2>3. unread' \in [Segments -> 0 .. MaxUnread]
    BY <2>2 DEF LifecycleInv, LifecycleTypeOK
  <2> QED
    BY <2>3 DEF LifecycleInv, LifecycleTypeOK
<1>2. PlaceInv'
  BY DEF LifecycleInv, LifecycleTypeOK, PlaceInv
<1>3. ZeroInv'
  BY DEF LifecycleInv, LifecycleTypeOK, PlaceInv, ZeroInv, Exists
<1>4. OwnInv'
  BY DEF LifecycleInv, LifecycleTypeOK, PlaceInv, OwnInv
<1> QED
  BY <1>1, <1>2, <1>3, <1>4 DEF LifecycleInv

LEMMA ConsumeMessageStep ==
  ASSUME LifecycleInv, NEW h \in Handles, ConsumeMessage(h)
  PROVE  LifecycleInv'
<1> USE LifecycleAssumption DEF ConsumeMessage, handles, segments, Segments, Creating, Closing
<1>1. LifecycleTypeOK'
  <2>1. seg[h] \in Segments /\ unread[seg[h]] \in 0 .. MaxUnread
    BY DEF LifecycleInv, LifecycleTypeOK
  <2>2. unread[seg[h]] - 1 \in 0 .. MaxUnread
    BY <2>1
  <2>3. unread' \in [Segments -> 0 .. MaxUnread]
    BY <2>2 DEF LifecycleInv, LifecycleTypeOK
  <2> QED
    BY <2>3 DEF LifecycleInv, LifecycleTypeOK
<1>2. PlaceInv'
  BY DEF LifecycleInv, LifecycleTypeOK, PlaceInv
<1>3. ZeroInv'
  BY DEF LifecycleInv, LifecycleTypeOK, PlaceInv, ZeroInv, Exists
<1>4. OwnInv'
  BY DEF LifecycleInv, LifecycleTypeOK, PlaceInv, OwnInv
<1> QED
  BY <1>1, <1>2, <1>3, <1>4 DEF LifecycleInv

LEMMA CreateFindsStep ==
  ASSUME LifecycleInv, NEW h \in Handles, CreateOpen(h), CreateFinds(h)
  PROVE  LifecycleInv'
<1> USE LifecycleAssumption DEF CreateOpen, CreateFinds, Goto, Segments, Creating, Closing
<1>1. LifecycleTypeOK'
  BY DEF LifecycleInv, LifecycleTypeOK
<1>2. PlaceInv'
  BY DEF LifecycleInv, LifecycleTypeOK, PlaceInv
<1>3. ZeroInv'
  BY DEF LifecycleInv, LifecycleTypeOK, PlaceInv, ZeroInv, Exists
<1>4. OwnInv'
  BY DEF LifecycleInv, LifecycleTypeOK, PlaceInv, OwnInv
<1> QED
  BY <1>1, <1>2, <1>3, <1>4 DEF LifecycleInv

\* The new segment is nobody's, and starts from zero bytes.
LEMMA CreateMakesStep ==
  ASSUME LifecycleInv, NEW h \in Handles, CreateOpen(h), CreateMakes(h)
  PROVE  LifecycleInv'
<1> USE LifecycleAssumption
<1>1. /\ link = 0 /\ link' \in Segments /\ ~Exists(link')
      /\ seg' = [seg EXCEPT ![h] = link'] /\ joined' = joined
      /\ pc[h] = "free" /\ pc' = [pc EXCEPT ![h] = "truncate"]
      /\ is_creator' = [is_creator EXCEPT ![h] = TRUE]
      /\ UNCHANGED <<sized, named, initialized, unread, pending, left>>
  BY DEF CreateOpen, CreateMakes, NewSegment, Goto
<1>2. /\ ~initialized[link'] /\ unread[link'] = 0 /\ link' \notin joined
      /\ \A g \in Handles : seg[g] # link'
  BY <1>1 DEF LifecycleInv, ZeroInv, Exists
<1> USE DEF Segments, Creating, Closing
<1>3. LifecycleTypeOK'
  BY <1>1 DEF LifecycleInv, LifecycleTypeOK
<1>4. PlaceInv'
  BY <1>1 DEF LifecycleInv, LifecycleTypeOK, PlaceInv
<1>5. ZeroInv'
  BY <1>1 DEF LifecycleInv, LifecycleTypeOK, PlaceInv, ZeroInv, Exists
<1>6. OwnInv'
  BY <1>1, <1>2 DEF LifecycleInv, LifecycleTypeOK, PlaceInv, OwnInv
<1> QED
  BY <1>3, <1>4, <1>5, <1>6 DEF LifecycleInv

LEMMA CreateFailsStep ==
  ASSUME LifecycleInv, NEW h \in Handles, CreateFails(h)
  PROVE  LifecycleInv'
<1> USE LifecycleAssumption DEF CreateFails, Unmap, Goto, LifecycleInv, LifecycleTypeOK, Closing
<1> QED
  BY LeaveStep

LEMMA OpenRefusesStep ==
  ASSUME LifecycleInv, NEW h \in Handles, OpenRefuses(h)
  PROVE  LifecycleInv'
<1> USE LifecycleAssumption DEF OpenRefuses, Unmap, Goto, LifecycleInv, LifecycleTypeOK, Closing
<1> QED
  BY LeaveStep

LEMMA UnlinkStep ==
  ASSUME LifecycleInv, NEW h \in Handles, Unlink(h)
  PROVE  LifecycleInv'
<1> USE LifecycleAssumption DEF Unlink, Unmap, Goto, LifecycleInv, LifecycleTypeOK, Closing
<1>1. left
  BY DEF PlaceInv
<1> QED
  BY <1>1, LeaveStep

LEMMA UnlinkAgainStep ==
  ASSUME LifecycleInv, NEW h \in Handles, UnlinkAgain(h)
  PROVE  LifecycleInv'
<1> USE LifecycleAssumption
<1>1. /\ pc[h] = "again" /\ pc' = [pc EXCEPT ![h] = "gone"] /\ seg' = [seg EXCEPT ![h] = 0] /\ Reclaim
      /\ is_creator' = [is_creator EXCEPT ![h] = FALSE] /\ link' = 0 /\ pending' = pending /\ left' = left
  BY DEF UnlinkAgain, Unmap, Goto
<1>2. left
  BY <1>1 DEF LifecycleInv, PlaceInv, Closing
<1>3. /\ seg' \in [Handles -> 0 .. MaxSegments] /\ is_creator' \in [Handles -> BOOLEAN]
      /\ pc' \in [Handles -> {"free", "check", "open", "gone"} \cup Creating \cup Closing]
      /\ left' \in BOOLEAN
  BY <1>1 DEF LifecycleInv, LifecycleTypeOK
<1>4. h \notin pending'
  BY <1>1 DEF LifecycleInv, LifecycleTypeOK
<1>5. pc'[h] = "gone" /\ seg'[h] = 0 /\ ~is_creator'[h]
  BY <1>1 DEF LifecycleInv, LifecycleTypeOK
<1>6. \A g \in Handles : g # h => pc'[g] = pc[g] /\ seg'[g] = seg[g] /\ is_creator'[g] = is_creator[g]
  BY <1>1 DEF LifecycleInv, LifecycleTypeOK
<1> QED
  BY <1>1, <1>2, <1>3, <1>4, <1>5, <1>6, LeaveStep

LEMMA VanishStep ==
  ASSUME LifecycleInv, NEW H \in SUBSET Handles, Vanish(H)
  PROVE  LifecycleInv'
<1> USE LifecycleAssumption
<1>1. /\ pc' = [h \in Handles |-> IF h \in H /\ pc[h] # "free" THEN "gone" ELSE pc[h]]
      /\ seg' = [h \in Handles |-> IF h \in H THEN 0 ELSE seg[h]]
      /\ is_creator' = [h \in Handles |-> h \notin H /\ is_creator[h]]
      /\ pending' = pending \ H
      /\ link' = link /\ left' = left /\ Reclaim
  BY DEF Vanish
<1>2. /\ seg' \in [Handles -> 0 .. MaxSegments] /\ is_creator' \in [Handles -> BOOLEAN]
      /\ pc' \in [Handles -> {"free", "check", "open", "gone"} \cup Creating \cup Closing]
      /\ left' \in BOOLEAN
  BY <1>1 DEF LifecycleInv, LifecycleTypeOK
<1>3. ASSUME NEW h \in Handles
      PROVE  \/ pc'[h] = pc[h] /\ seg'[h] = seg[h] /\ is_creator'[h] = is_creator[h]
             \/ /\ pc'[h] \in {"free", "unlink", "again", "gone"} /\ seg'[h] = 0 /\ h \notin pending'
                /\ is_creator'[h] => is_creator[h]
                /\ pc'[h] \in {"free", "gone"} => ~is_creator'[h]
  <2>1. CASE h \in H
    BY <1>1, <2>1
  <2>2. CASE h \notin H
    BY <1>1, <2>2 DEF LifecycleInv, LifecycleTypeOK
  <2> QED
    BY <2>1, <2>2
<1>4. ~left => \A h \in Handles : pc'[h] \notin Closing
  BY <1>1 DEF LifecycleInv, PlaceInv, Closing
<1> QED
  BY <1>1, <1>2, <1>3, <1>4, LeaveStep

\* Nobody's life is touched.
LEMMA LifecycleKept ==
  ASSUME LifecycleInv, UNCHANGED lifecycle
  PROVE  LifecycleInv'
<1> USE DEF lifecycle, segments, handles
<1>1. LifecycleTypeOK'
  BY DEF LifecycleInv, LifecycleTypeOK
<1>2. PlaceInv'
  BY DEF LifecycleInv, PlaceInv
<1>3. ZeroInv'
  BY DEF LifecycleInv, ZeroInv, Exists
<1>4. OwnInv'
  BY DEF LifecycleInv, OwnInv
<1> QED
  BY <1>1, <1>2, <1>3, <1>4 DEF LifecycleInv

LEMMA LifecycleStart ==
  ASSUME LifecycleInit
  PROVE  LifecycleInv
<1> USE LifecycleAssumption DEF LifecycleInit
<1>1. LifecycleTypeOK
  <2>1. 0 \in 0 .. MaxSegments /\ 0 \in 0 .. MaxUnread
    OBVIOUS
  <2> QED
    BY <2>1 DEF LifecycleTypeOK, Creating
<1>2. PlaceInv
  BY DEF PlaceInv, Creating, Closing
<1>3. ZeroInv /\ OwnInv
  BY DEF ZeroInv, OwnInv, Creating
<1> QED
  BY <1>1, <1>2, <1>3 DEF LifecycleInv

\* A close, by whichever way the handle loses its last holder.
LEMMA HandleStep ==
  ASSUME LifecycleInv, NEW h \in Handles,
         \/ CreateOpen(h) \/ CreateNothing(h) \/ OpenFinds(h) \/ OpenNothing(h)
         \/ Truncate(h) \/ CreateFails(h) \/ Uninitialize(h) \/ BlankName(h) \/ SetName(h)
         \/ Reset(h) \/ OpenRefuses(h) \/ Finish(h) \/ OpenSucceeds(h) \/ Close(h)
         \/ Destroy(h) \/ Unlink(h) \/ UnlinkAgain(h)
         \/ PublishUninitialized(h) \/ PublishTest(h) \/ PublishStore(h) \/ ConsumeMessage(h)
  PROVE  LifecycleInv'
<1>1. CASE CreateOpen(h)
  BY <1>1, CreateFindsStep, CreateMakesStep DEF CreateOpen
<1>2. CASE PublishUninitialized(h)
  BY <1>2, LifecycleKept DEF PublishUninitialized
<1> QED
  BY <1>1, <1>2, CreateNothingStep, OpenFindsStep, OpenNothingStep, TruncateStep, CreateFailsStep, UninitializeStep,
     BlankNameStep, SetNameStep, ResetStep, OpenRefusesStep, FinishStep, OpenSucceedsStep, CloseStep, DestroyStep,
     UnlinkStep, UnlinkAgainStep, PublishTestStep, PublishStoreStep, ConsumeMessageStep

-----------------------------------------------------------------------------
(* The manager *)

ManagerTypeOK ==
    /\ channels \in [Processes -> Handles \cup {NoHandle}]
    /\ mutex \in [Processes -> Handles \cup {NoHandle}]
    /\ users \in [Handles -> 0 .. MaxUsers]
    /\ deaths \in 0 .. MaxDeaths

\* Whatever the map or a user holds is open, and a publish under way has a user.
HeldIsOpen ==
    /\ \A p \in Processes : channels[p] # NoHandle => pc[channels[p]] = "open" /\ Owner[channels[p]] = p
    /\ \A h \in Handles : users[h] > 0 => pc[h] = "open"
    /\ \A h \in pending : users[h] > 0

TransportInv == LifecycleInv /\ ManagerTypeOK /\ HeldIsOpen

\* Only a close and a death take an open handle away.
LEMMA OpenStays ==
  ASSUME LifecycleTypeOK, NEW h \in Handles,
         \/ CreateOpen(h) \/ CreateNothing(h) \/ OpenFinds(h) \/ OpenNothing(h)
         \/ Truncate(h) \/ CreateFails(h) \/ Uninitialize(h) \/ BlankName(h) \/ SetName(h)
         \/ Reset(h) \/ OpenRefuses(h) \/ Finish(h) \/ OpenSucceeds(h)
         \/ Destroy(h) \/ Unlink(h) \/ UnlinkAgain(h)
         \/ PublishUninitialized(h) \/ PublishTest(h) \/ PublishStore(h) \/ ConsumeMessage(h)
  PROVE  \A g \in Handles : pc[g] = "open" => pc'[g] = "open"
  BY DEF LifecycleTypeOK, CreateOpen, CreateNothing, OpenFinds, OpenNothing, Truncate, CreateFails, Uninitialize,
         BlankName, SetName, Reset, OpenRefuses, Finish, OpenSucceeds, Destroy, Unlink, UnlinkAgain,
         PublishUninitialized, PublishTest, PublishStore, ConsumeMessage, Unmap, Goto, lifecycle, handles

LEMMA CreateKnownStep ==
  ASSUME TransportInv, NEW p \in Processes, CreateKnown(p)
  PROVE  TransportInv'
<1> USE OwnerAssumption, UsersAssumption
<1>1. /\ channels[p] \in Handles /\ users[channels[p]] < MaxUsers
      /\ users' = [users EXCEPT ![channels[p]] = @ + 1]
      /\ UNCHANGED lifecycle /\ channels' = channels /\ mutex' = mutex /\ deaths' = deaths
      /\ pc' = pc /\ pending' = pending
  BY DEF CreateKnown, Known, TransportInv, ManagerTypeOK, lifecycle, handles
<1>2. LifecycleInv'
  BY <1>1, LifecycleKept DEF TransportInv
<1>3. users[channels[p]] + 1 \in 0 .. MaxUsers
  BY <1>1 DEF TransportInv, ManagerTypeOK
<1>4. ManagerTypeOK'
  BY <1>1, <1>3 DEF TransportInv, ManagerTypeOK
<1>5. HeldIsOpen'
  BY <1>1, <1>3 DEF TransportInv, ManagerTypeOK, HeldIsOpen, LifecycleInv, LifecycleTypeOK
<1> QED
  BY <1>2, <1>4, <1>5 DEF TransportInv

\* A step of a handle that closes nothing and that the manager does not see.
LEMMA InnerStep ==
  ASSUME TransportInv, NEW h \in Handles, CreatePublisher(h) \/ CreateSubscriber(h) \/ Construct(h)
                                          \/ Destruct(h) \/ DestructEnds(h) \/ Use(h)
  PROVE  TransportInv'
<1> USE OwnerAssumption, UsersAssumption
<1> DEFINE A == \/ CreateOpen(h) \/ CreateNothing(h) \/ OpenFinds(h) \/ OpenNothing(h)
                \/ Truncate(h) \/ CreateFails(h) \/ Uninitialize(h) \/ BlankName(h) \/ SetName(h)
                \/ Reset(h) \/ OpenRefuses(h)
                \/ Destroy(h) \/ Unlink(h) \/ UnlinkAgain(h)
                \/ PublishUninitialized(h) \/ PublishTest(h) \/ PublishStore(h) \/ ConsumeMessage(h)
<1>1. A /\ channels' = channels /\ users' = users /\ deaths' = deaths
  BY DEF CreatePublisher, CreateSubscriber, Construct, Destruct, DestructEnds, Use, manager
<1>2. mutex' = mutex \/ mutex' = [mutex EXCEPT ![Owner[h]] = h]
      \/ mutex' = [mutex EXCEPT ![Owner[h]] = IF @ = h THEN NoHandle ELSE @]
  BY DEF CreatePublisher, CreateSubscriber, Construct, Destruct, DestructEnds, Use, manager, Lock, Unlock
<1>3. \A g \in pending' : g \in pending \/ (g = h /\ users[h] > 0)
  <2>1. CASE Use(h)
    BY <2>1 DEF Use, PublishUninitialized, PublishTest, PublishStore, ConsumeMessage, lifecycle, handles
  <2>2. CASE CreatePublisher(h) \/ CreateSubscriber(h)
    BY <2>2 DEF CreatePublisher, CreateSubscriber, CreateOpen, CreateNothing, OpenFinds, OpenNothing, segments
  <2>3. CASE Construct(h)
    BY <2>3 DEF Construct, Truncate, CreateFails, Uninitialize, BlankName, SetName, Reset, OpenRefuses, segments
  <2>4. CASE Destruct(h) \/ DestructEnds(h)
    BY <2>4 DEF Destruct, DestructEnds, Destroy, Unlink, UnlinkAgain, segments
  <2> QED
    BY <2>1, <2>2, <2>3, <2>4
<1>4. \A g \in Handles : pc[g] = "open" => pc'[g] = "open"
  BY <1>1, OpenStays DEF TransportInv, LifecycleInv
<1>5. LifecycleInv'
  BY <1>1, HandleStep DEF TransportInv
<1> HIDE DEF A
<1>6. ManagerTypeOK'
  BY <1>1, <1>2 DEF TransportInv, ManagerTypeOK
<1>7. HeldIsOpen'
  <2>1. \A p \in Processes : channels[p] # NoHandle => channels[p] \in Handles
    BY DEF TransportInv, ManagerTypeOK
  <2>2. \A g \in pending' : users[g] > 0
    BY <1>3 DEF TransportInv, HeldIsOpen
  <2> QED
    BY <1>1, <1>4, <2>1, <2>2 DEF TransportInv, HeldIsOpen
<1> QED
  BY <1>5, <1>6, <1>7 DEF TransportInv

LEMMA RegisterStep ==
  ASSUME TransportInv, NEW h \in Handles, Register(h)
  PROVE  TransportInv'
<1> USE OwnerAssumption, UsersAssumption
<1>1. /\ Finish(h) \/ OpenSucceeds(h)
      /\ channels' = [channels EXCEPT ![Owner[h]] = h]
      /\ users' = [users EXCEPT ![h] = 1]
      /\ mutex' = [mutex EXCEPT ![Owner[h]] = IF @ = h THEN NoHandle ELSE @]
      /\ deaths' = deaths
  BY DEF Register, Unlock
<1>2. LifecycleInv'
  BY <1>1, HandleStep DEF TransportInv
<1>3. ManagerTypeOK'
  BY <1>1 DEF TransportInv, ManagerTypeOK
<1>4. pc'[h] = "open" /\ pending' = pending /\ \A g \in Handles : pc[g] = "open" => pc'[g] = "open"
  BY <1>1 DEF Finish, OpenSucceeds, Goto, TransportInv, LifecycleInv, LifecycleTypeOK
<1>5. /\ \A p \in Processes : channels'[p] = IF p = Owner[h] THEN h ELSE channels[p]
      /\ \A g \in Handles : users'[g] = IF g = h THEN 1 ELSE users[g]
      /\ pending \subseteq Handles
      /\ \A p \in Processes : channels[p] # NoHandle => channels[p] \in Handles
  BY <1>1 DEF TransportInv, ManagerTypeOK, LifecycleInv, LifecycleTypeOK
<1>6. HeldIsOpen'
  BY <1>4, <1>5 DEF TransportInv, HeldIsOpen
<1> QED
  BY <1>2, <1>3, <1>6 DEF TransportInv

LEMMA DestroyChannelStep ==
  ASSUME TransportInv, NEW p \in Processes, DestroyChannel(p)
  PROVE  TransportInv'
<1> USE OwnerAssumption, UsersAssumption
<1>1. PICK h \in Handles : h = channels[p]
  BY DEF DestroyChannel, Known, TransportInv, ManagerTypeOK
<1>2. /\ channels' = [channels EXCEPT ![p] = NoHandle] /\ users' = users /\ deaths' = deaths
      /\ \/ users[h] = 0 /\ Close(h) /\ mutex' = [mutex EXCEPT ![Owner[h]] = h]
         \/ UNCHANGED <<lifecycle, mutex>>
  BY <1>1 DEF DestroyChannel, Lock
<1>3. LifecycleInv'
  BY <1>2, HandleStep, LifecycleKept DEF TransportInv
<1>4. ManagerTypeOK'
  BY <1>2 DEF TransportInv, ManagerTypeOK
<1>5. /\ pending' = pending
      /\ \A g \in Handles : pc[g] = "open" => pc'[g] = "open" \/ (g = h /\ users[h] = 0)
  <2>1. CASE users[h] = 0 /\ Close(h)
    BY <2>1 DEF Close, Goto, TransportInv, LifecycleInv, LifecycleTypeOK
  <2>2. CASE UNCHANGED lifecycle
    BY <2>2 DEF lifecycle, segments, handles
  <2> QED
    BY <1>2, <2>1, <2>2
<1>6. /\ \A q \in Processes : channels'[q] # NoHandle => q # p /\ channels'[q] = channels[q] /\ channels[q] \in Handles
      /\ \A g \in Handles : users[g] \in Nat
  BY <1>2 DEF TransportInv, ManagerTypeOK
<1>7. \A q \in Processes : q # p /\ channels[q] # NoHandle => channels[q] # h
  BY <1>1 DEF TransportInv, HeldIsOpen
<1>8. HeldIsOpen'
  BY <1>2, <1>5, <1>6, <1>7 DEF TransportInv, HeldIsOpen
<1> QED
  BY <1>3, <1>4, <1>8 DEF TransportInv

LEMMA ReleaseStep ==
  ASSUME TransportInv, NEW h \in Handles, Release(h)
  PROVE  TransportInv'
<1> USE OwnerAssumption, UsersAssumption
<1>1. /\ users[h] > 0
      /\ users[h] = 1 => h \notin pending
      /\ users' = [users EXCEPT ![h] = @ - 1]
      /\ channels' = channels /\ mutex' = mutex /\ deaths' = deaths
      /\ \/ users[h] = 1 /\ channels[Owner[h]] # h /\ Close(h)
         \/ UNCHANGED lifecycle
  BY DEF Release
<1>2. LifecycleInv'
  BY <1>1, HandleStep, LifecycleKept DEF TransportInv
<1>3. users[h] - 1 \in 0 .. MaxUsers /\ \A g \in Handles : users[g] \in Nat
  BY <1>1 DEF TransportInv, ManagerTypeOK
<1>4. ManagerTypeOK'
  BY <1>1, <1>3 DEF TransportInv, ManagerTypeOK
<1>5. /\ pending' = pending /\ pending \subseteq Handles
      /\ \A g \in Handles : pc[g] = "open" => pc'[g] = "open" \/ (g = h /\ users[h] = 1 /\ channels[Owner[h]] # h)
  <2>1. pending \subseteq Handles
    BY DEF TransportInv, LifecycleInv, LifecycleTypeOK
  <2>2. CASE users[h] = 1 /\ channels[Owner[h]] # h /\ Close(h)
    BY <2>1, <2>2 DEF Close, Goto, TransportInv, LifecycleInv, LifecycleTypeOK
  <2>3. CASE UNCHANGED lifecycle
    BY <2>1, <2>3 DEF lifecycle, segments, handles
  <2> QED
    BY <1>1, <2>2, <2>3
<1>6. \A g \in Handles : users'[g] = IF g = h THEN users[h] - 1 ELSE users[g]
  BY <1>1 DEF TransportInv, ManagerTypeOK
<1>7. \A p \in Processes : channels[p] # NoHandle => channels[p] \in Handles /\ Owner[channels[p]] = p
  BY DEF TransportInv, ManagerTypeOK, HeldIsOpen
<1>8. HeldIsOpen'
  <2>1. \A p \in Processes : channels[p] # NoHandle => pc'[channels[p]] = "open"
    BY <1>5, <1>7 DEF TransportInv, HeldIsOpen
  <2>2. \A g \in Handles : users'[g] > 0 => pc'[g] = "open"
    BY <1>3, <1>5, <1>6 DEF TransportInv, HeldIsOpen
  <2>3. \A g \in pending : users'[g] > 0
    BY <1>1, <1>3, <1>5, <1>6 DEF TransportInv, HeldIsOpen
  <2> QED
    BY <1>1, <1>5, <1>7, <2>1, <2>2, <2>3 DEF HeldIsOpen
<1> QED
  BY <1>2, <1>4, <1>8 DEF TransportInv

LEMMA ProcessDiesStep ==
  ASSUME TransportInv, NEW p \in Processes, ProcessDies(p)
  PROVE  TransportInv'
<1> USE OwnerAssumption, UsersAssumption
<1> DEFINE H == {h \in Handles : Owner[h] = p}
<1>1. /\ deaths < MaxDeaths /\ deaths' = deaths + 1 /\ Vanish(H) /\ H \in SUBSET Handles
      /\ channels' = [channels EXCEPT ![p] = NoHandle]
      /\ mutex' = [mutex EXCEPT ![p] = NoHandle]
      /\ users' = [h \in Handles |-> IF Owner[h] = p THEN 0 ELSE users[h]]
  BY DEF ProcessDies
<1>2. LifecycleInv'
  BY <1>1, VanishStep DEF TransportInv
<1>3. ManagerTypeOK'
  BY <1>1 DEF TransportInv, ManagerTypeOK
<1>4. \A h \in Handles : h \notin H => pc'[h] = pc[h]
  BY <1>1 DEF Vanish, TransportInv, LifecycleInv, LifecycleTypeOK
<1>5. pending' = pending \ H /\ pending \subseteq Handles
  BY <1>1 DEF Vanish, TransportInv, LifecycleInv, LifecycleTypeOK
<1>6. \A q \in Processes : channels'[q] # NoHandle => q # p /\ channels'[q] = channels[q] /\ channels[q] \in Handles
  BY <1>1 DEF TransportInv, ManagerTypeOK
<1>7. HeldIsOpen'
  BY <1>1, <1>4, <1>5, <1>6 DEF TransportInv, HeldIsOpen
<1> QED
  BY <1>2, <1>3, <1>7 DEF TransportInv

\* The inductive invariant holds in every reachable state.
THEOREM TransportInvariance == TransportSpec => []TransportInv
<1> USE OwnerAssumption, UsersAssumption
<1>1. TransportInit => TransportInv
  <2> SUFFICES ASSUME TransportInit PROVE TransportInv
    OBVIOUS
  <2>1. LifecycleInv
    BY LifecycleStart DEF TransportInit
  <2>2. ManagerTypeOK
    BY DEF TransportInit, ManagerTypeOK
  <2>3. HeldIsOpen
    BY DEF TransportInit, LifecycleInit, HeldIsOpen
  <2> QED
    BY <2>1, <2>2, <2>3 DEF TransportInv
<1>2. TransportInv /\ [TransportNext]_transportVars => TransportInv'
  <2> SUFFICES ASSUME TransportInv, [TransportNext]_transportVars PROVE TransportInv'
    OBVIOUS
  <2>1. CASE UNCHANGED transportVars
    <3>1. LifecycleInv'
      BY <2>1, LifecycleKept DEF TransportInv, transportVars
    <3>2. ManagerTypeOK' /\ HeldIsOpen'
      BY <2>1 DEF TransportInv, ManagerTypeOK, HeldIsOpen, transportVars, manager, lifecycle, handles
    <3> QED
      BY <3>1, <3>2 DEF TransportInv
  <2>2. ASSUME NEW p \in Processes, CreateKnown(p) \/ DestroyChannel(p) \/ ProcessDies(p)
        PROVE  TransportInv'
    BY <2>2, CreateKnownStep, DestroyChannelStep, ProcessDiesStep
  <2>3. ASSUME NEW h \in Handles, CreatePublisher(h) \/ CreateSubscriber(h) \/ GoOn(h) \/ Release(h) \/ Use(h)
        PROVE  TransportInv'
    BY <2>3, InnerStep, RegisterStep, ReleaseStep DEF GoOn
  <2> QED
    BY <2>1, <2>2, <2>3 DEF TransportNext
<1> QED
  BY <1>1, <1>2, PTL DEF TransportSpec

\* Every variable keeps its type; a handle that makes, uses or destroys a channel maps a
\* segment.
THEOREM TransportTypeCorrect == TransportSpec => []TransportTypeOK
<1>1. TransportInv => TransportTypeOK
  BY DEF TransportInv, LifecycleInv, ManagerTypeOK, TransportTypeOK
<1> QED
  BY <1>1, TransportInvariance, PTL

\* No map and no user holds a handle whose destructor has begun, or one that is still
\* being made: destroyChannel and the last user close it, and only once.
THEOREM NothingHeldIsClosed == TransportSpec => []HeldIsOpen
<1>1. TransportInv => HeldIsOpen
  BY DEF TransportInv
<1> QED
  BY <1>1, TransportInvariance, PTL

\* A creator that met nobody else's channel keeps its own initialized, and until somebody
\* leaves every open handle is on the segment the name leads to.
THEOREM ChannelStaysFound == TransportSpec => []StillFound
<1>1. TransportInv => StillFound
  BY DEF TransportInv, LifecycleInv, LifecycleTypeOK, PlaceInv, OwnInv, StillFound
<1> QED
  BY <1>1, TransportInvariance, PTL

\* A segment that goes with its last mapping has no unread messages unless somebody left.
LEMMA GoingLosesNothing ==
  ASSUME LifecycleInv, Reclaim, link' \in {link, 0}, ~left => link' = link,
         NEW s \in Segments, unread'[s] < unread[s]
  PROVE  left /\ ~Exists(s)'
<1>1. /\ LifecycleTypeOK /\ PlaceInv /\ ZeroInv /\ unread[s] \in Nat
  BY LifecycleAssumption DEF LifecycleInv, LifecycleTypeOK
<1>2. ~Exists(s)'
  BY <1>1, ReclaimFacts
<1>3. Exists(s)
  <2> SUFFICES ASSUME ~Exists(s) PROVE FALSE
    OBVIOUS
  <2>1. unread[s] = 0 /\ unread'[s] = 0
    BY <1>1, <1>2, ReclaimFacts DEF ZeroInv
  <2> QED
    BY <2>1
<1>4. ~left => s = link
  BY <1>1, <1>3 DEF Exists, PlaceInv, Segments
<1>5. s = link' => Exists(s)'
  BY DEF Exists
<1> QED
  BY <1>2, <1>4, <1>5

\* Unread messages leave a channel by being consumed, by a create that found another one's
\* channel, or with a channel that lost its name and its last mapping after somebody left.
THEOREM LossesHaveReason == TransportSpec => LossHasReason
<1> DEFINE Lost(s) == unread'[s] < unread[s]
           Reason(s) == \/ \E h \in Handles : ConsumeMessage(h) /\ seg[h] = s
                        \/ \E h \in Handles : Reset(h) /\ seg[h] = s /\ s \in joined
                        \/ left /\ ~Exists(s)'
<1>1. ASSUME LifecycleInv, NEW H \in SUBSET Handles, Vanish(H), NEW s \in Segments, Lost(s)
      PROVE  Reason(s)
  <2>1. Reclaim /\ link' = link
    BY <1>1 DEF Vanish
  <2> QED
    BY <1>1, <2>1, GoingLosesNothing
<1>2. ASSUME LifecycleInv, NEW h \in Handles, CreateFails(h) \/ OpenRefuses(h) \/ Unlink(h) \/ UnlinkAgain(h),
             NEW s \in Segments, Lost(s)
      PROVE  Reason(s)
  <2>1. Reclaim /\ link' \in {link, 0}
    BY <1>2 DEF CreateFails, OpenRefuses, Unlink, UnlinkAgain, Unmap
  <2>2. ~left => link' = link
    BY <1>2 DEF CreateFails, OpenRefuses, Unlink, UnlinkAgain, LifecycleInv, PlaceInv, Closing
  <2> QED
    BY <1>2, <2>1, <2>2, GoingLosesNothing
<1>3. ASSUME LifecycleInv, NEW h \in Handles, Reset(h), NEW s \in Segments, Lost(s)
      PROVE  Reason(s)
  <2>1. unread' = [unread EXCEPT ![seg[h]] = 0] /\ pc[h] \in Creating
    BY <1>3 DEF Reset, Creating
  <2>2. unread \in [Segments -> 0 .. MaxUnread] /\ unread[s] \in Nat
    BY <1>3, LifecycleAssumption DEF LifecycleInv, LifecycleTypeOK
  <2>3. seg[h] = s /\ unread[s] # 0
    BY <1>3, <2>1, <2>2
  <2>4. s \in joined
    BY <1>3, <2>1, <2>3 DEF LifecycleInv, OwnInv
  <2> QED
    BY <1>3, <2>3, <2>4
<1>4. ASSUME LifecycleInv, NEW h \in Handles, ConsumeMessage(h) \/ PublishStore(h), NEW s \in Segments, Lost(s)
      PROVE  Reason(s)
  <2>1. unread \in [Segments -> 0 .. MaxUnread] /\ unread[s] \in Nat
    BY <1>4, LifecycleAssumption DEF LifecycleInv, LifecycleTypeOK
  <2>2. CASE ConsumeMessage(h)
    <3>1. unread' = [unread EXCEPT ![seg[h]] = @ - 1]
      BY <2>2 DEF ConsumeMessage
    <3> QED
      BY <1>4, <2>1, <2>2, <3>1
  <2>3. CASE PublishStore(h)
    <3>1. unread' = IF Room(seg[h]) THEN [unread EXCEPT ![seg[h]] = @ + 1] ELSE unread
      BY <2>3 DEF PublishStore
    <3>2. unread'[s] \in Nat /\ unread'[s] >= unread[s]
      BY <2>1, <3>1
    <3> QED
      BY <1>4, <2>1, <3>2
  <2> QED
    BY <1>4, <2>2, <2>3
<1>5. ASSUME LifecycleInv, UNCHANGED unread, NEW s \in Segments, Lost(s)
      PROVE  Reason(s)
  BY <1>5, LifecycleAssumption DEF LifecycleInv, LifecycleTypeOK
<1> HIDE DEF Lost, Reason
<1>6. ASSUME TransportInv, TransportNext, NEW s \in Segments, Lost(s)
      PROVE  Reason(s)
  <2>1. LifecycleInv
    BY <1>6 DEF TransportInv
  <2>2. ASSUME NEW p \in Processes, CreateKnown(p) \/ DestroyChannel(p) \/ ProcessDies(p) PROVE Reason(s)
    <3>1. CASE CreateKnown(p) \/ DestroyChannel(p)
      <4>1. UNCHANGED unread
        BY <3>1 DEF CreateKnown, DestroyChannel, Close, lifecycle, segments
      <4> QED
        BY <1>5, <1>6, <2>1, <4>1
    <3>2. CASE ProcessDies(p)
      <4>1. PICK H \in SUBSET Handles : Vanish(H)
        BY <3>2 DEF ProcessDies
      <4> QED
        BY <1>1, <1>6, <2>1, <4>1
    <3> QED
      BY <2>2, <3>1, <3>2
  <2>3. ASSUME NEW h \in Handles, CreatePublisher(h) \/ CreateSubscriber(h) \/ Release(h) PROVE Reason(s)
    <3>1. UNCHANGED unread
      BY <2>3 DEF CreatePublisher, CreateSubscriber, Release, CreateOpen, CreateNothing, OpenFinds, OpenNothing,
                  Close, lifecycle, segments
    <3> QED
      BY <1>5, <1>6, <2>1, <3>1
  <2>4. ASSUME NEW h \in Handles, Use(h) PROVE Reason(s)
    <3>1. ConsumeMessage(h) \/ PublishStore(h) \/ UNCHANGED unread
      BY <2>4 DEF Use, PublishUninitialized, PublishTest, lifecycle, segments
    <3> QED
      BY <1>4, <1>5, <1>6, <2>1, <3>1
  <2>5. ASSUME NEW h \in Handles, GoOn(h) PROVE Reason(s)
    <3>1. \/ CreateFails(h) \/ OpenRefuses(h) \/ Unlink(h) \/ UnlinkAgain(h) \/ Reset(h)
          \/ UNCHANGED unread
      BY <2>5 DEF GoOn, Construct, Register, Destruct, DestructEnds, Truncate, Uninitialize, BlankName, SetName,
                  Finish, OpenSucceeds, Destroy, segments
    <3> QED
      BY <1>2, <1>3, <1>5, <1>6, <2>1, <3>1
  <2> QED
    BY <1>6, <2>2, <2>3, <2>4, <2>5 DEF TransportNext
<1>7. TransportInv /\ [TransportNext]_transportVars =>
         [\A s \in Segments : Lost(s) => Reason(s)]_lifecycle
  BY <1>6 DEF transportVars
<1>8. TransportInv /\ [TransportNext]_transportVars =>
         [\A s \in Segments : unread'[s] < unread[s] =>
             \/ \E h \in Handles : ConsumeMessage(h) /\ seg[h] = s
             \/ \E h \in Handles : Reset(h) /\ seg[h] = s /\ s \in joined
             \/ left /\ ~Exists(s)']_lifecycle
  BY <1>7 DEF Lost, Reason
<1> QED
  BY <1>8, TransportInvariance, PTL DEF TransportSpec, LossHasReason

=============================================================================
