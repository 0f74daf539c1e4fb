-------------------------- MODULE CompareAndSwap_proofs --------------------------
(***************************************************************************)
(* The two components in which a compare-and-swap decides who goes on: the *)
(* readers-writer lock, for every number of guards below WRITE_LOCK_BIT,   *)
(* and a channel whose handle several threads publish through, for any     *)
(* threads, any ring (of one slot even) and any number of calls.           *)
(***************************************************************************)
EXTENDS AtomicRWLock, SharedPublisher, FiniteSetTheorems, TLAPS

(* AtomicRWLock *)

IndInv ==
    /\ TypeOK
    /\ \A g, h \in Holders : pc[g] = "writing" /\ pc[h] = "writing" => g = h
    /\ Writers # {} => Readers = {} /\ state = WriteBit
    /\ Writers = {} => state = Cardinality(Readers)
    /\ \A h \in Holders : pc[h] = "cas" => ~WriteLocked(current[h])

\* There are never so many readers that their count reaches the writer bit.
LEMMA ReadersFit ==
  ASSUME TypeOK
  PROVE  /\ IsFiniteSet(Readers)
         /\ Cardinality(Readers) \in Nat
         /\ Cardinality(Readers) < WriteBit
         /\ \A h \in Holders \ Readers : Cardinality(Readers) + 1 < WriteBit
<1> USE HoldersAssumption, WriteBitAssumption
<1>1. Readers \subseteq Holders
  BY DEF Readers
<1>2. IsFiniteSet(Readers) /\ Cardinality(Readers) <= Cardinality(Holders)
  BY <1>1, FS_Subset
<1>3. Cardinality(Readers) \in Nat /\ Cardinality(Holders) \in Nat
  BY <1>2, FS_CardinalityType
<1>4. ASSUME NEW h \in Holders \ Readers
      PROVE  Cardinality(Readers) + 1 < WriteBit
  <2>1. IsFiniteSet(Readers \cup {h}) /\ Cardinality(Readers \cup {h}) = Cardinality(Readers) + 1
    BY <1>2, FS_AddElement
  <2>2. Readers \cup {h} \subseteq Holders
    BY <1>1
  <2>3. Cardinality(Readers \cup {h}) <= Cardinality(Holders)
    BY <2>2, FS_Subset
  <2> QED
    BY <1>3, <2>1, <2>3
<1> QED
  BY <1>2, <1>3, <1>4

LEMMA InitIndInv == Init => IndInv
<1> SUFFICES ASSUME Init PROVE IndInv
  OBVIOUS
<1>1. Readers = {} /\ Writers = {}
  BY DEF Init, Readers, Writers
<1> QED
  BY <1>1, FS_EmptySet, WriteBitAssumption DEF Init, IndInv, TypeOK, Word

LEMMA Inductive == IndInv /\ [Next]_vars => IndInv'
<1> SUFFICES ASSUME IndInv, [Next]_vars PROVE IndInv'
  OBVIOUS
<1> USE WriteBitAssumption
<1>1. TypeOK /\ state \in Nat /\ state <= WriteBit
  BY DEF IndInv, TypeOK, Word
<1>2. CASE UNCHANGED vars
  BY <1>2 DEF vars, IndInv, TypeOK, Readers, Writers
<1>3. ASSUME NEW h \in Holders, ReadLoad(h) \/ ReadCasFails(h)
      PROVE  IndInv'
  <2>1. TypeOK'
    BY <1>1, <1>3 DEF ReadLoad, ReadCasFails, ReadSaw, Goto, TypeOK, Word
  <2>2. Readers' = Readers /\ Writers' = Writers
    BY <1>1, <1>3 DEF ReadLoad, ReadCasFails, ReadSaw, Goto, TypeOK, Readers, Writers
  <2>3. state' = state /\ \A g \in Holders : pc'[g] = "writing" => pc[g] = "writing"
    BY <1>1, <1>3 DEF ReadLoad, ReadCasFails, ReadSaw, Goto, TypeOK
  <2>4. \A g \in Holders : pc'[g] = "cas" => ~WriteLocked(current'[g])
    BY <1>1, <1>3 DEF ReadLoad, ReadCasFails, ReadSaw, Goto, TypeOK, IndInv
  <2> QED
    BY <2>1, <2>2, <2>3, <2>4 DEF IndInv
<1>4. ASSUME NEW h \in Holders, ReadCasWins(h)
      PROVE  IndInv'
  <2>1. /\ pc[h] = "cas" /\ state = current[h] /\ state' = (state + 1) % (2 * WriteBit)
        /\ pc' = [pc EXCEPT ![h] = "reading"] /\ current' = [current EXCEPT ![h] = 0]
        /\ refused' = refused
    BY <1>4 DEF ReadCasWins, Goto
  <2>2. h \in Holders \ Readers /\ Writers' = Writers /\ Readers' = Readers \cup {h}
    BY <1>1, <2>1 DEF TypeOK, Readers, Writers
  <2>3. state < WriteBit
    BY <1>1, <2>1 DEF IndInv, WriteLocked
  <2>4. Writers = {} /\ state = Cardinality(Readers)
    BY <2>3 DEF IndInv
  <2>5. state + 1 < WriteBit
    BY <1>1, <2>2, <2>4, ReadersFit
  <2>6. state' = state + 1
    BY <1>1, <2>1, <2>5
  <2>7. Cardinality(Readers') = Cardinality(Readers) + 1
    BY <1>1, <2>2, ReadersFit, FS_AddElement
  <2>8. TypeOK'
    BY <1>1, <2>1, <2>5, <2>6 DEF TypeOK, Word
  <2> QED
    BY <1>1, <2>1, <2>2, <2>4, <2>6, <2>7, <2>8 DEF IndInv, TypeOK
<1>5. ASSUME NEW h \in Holders, UnlockRead(h)
      PROVE  IndInv'
  <2>1. /\ pc[h] = "reading" /\ state' = (state - 1) % (2 * WriteBit)
        /\ pc' = [pc EXCEPT ![h] = "idle"] /\ UNCHANGED <<current, refused>>
    BY <1>5 DEF UnlockRead, Goto
  <2>2. h \in Readers /\ Writers' = Writers /\ Readers' = Readers \ {h}
    BY <1>1, <2>1 DEF TypeOK, Readers, Writers
  <2>3. Writers = {} /\ state = Cardinality(Readers)
    BY <2>2 DEF IndInv
  <2>4. Cardinality(Readers') = state - 1
    BY <1>1, <2>2, <2>3, ReadersFit, FS_RemoveElement
  <2>5. state >= 1
    <3>1. IsFiniteSet(Readers) /\ (Cardinality(Readers) = 0 <=> Readers = {})
      BY <1>1, ReadersFit, FS_EmptySet
    <3> QED
      BY <3>1, <2>2, <2>3, <1>1
  <2>6. state' = state - 1
    BY <1>1, <2>1, <2>5
  <2>7. TypeOK'
    BY <1>1, <2>1, <2>5, <2>6 DEF TypeOK, Word
  <2> QED
    BY <1>1, <2>1, <2>2, <2>3, <2>4, <2>6, <2>7 DEF IndInv, TypeOK
<1>6. ASSUME NEW h \in Holders, WriteCasWins(h)
      PROVE  IndInv'
  <2>1. /\ pc[h] = "idle" /\ state = 0 /\ state' = WriteBit
        /\ pc' = [pc EXCEPT ![h] = "writing"] /\ current' = current
        /\ refused' = refused \ {h}
    BY <1>6 DEF WriteCasWins, WriteFree, Goto
  <2>2. Writers = {} /\ Cardinality(Readers) = 0
    BY <2>1 DEF IndInv
  <2>3. Readers = {}
    BY <1>1, <2>2, ReadersFit, FS_EmptySet
  <2>4. Readers' = {} /\ Writers' = {h}
    BY <1>1, <2>1, <2>2, <2>3 DEF TypeOK, Readers, Writers
  <2>5. TypeOK'
    BY <1>1, <2>1 DEF TypeOK, Word
  <2> QED
    BY <1>1, <2>1, <2>4, <2>5 DEF IndInv, TypeOK, Writers
<1>7. ASSUME NEW h \in Holders, WriteCasFails(h)
      PROVE  IndInv'
  BY <1>7 DEF WriteCasFails, IndInv, TypeOK, Readers, Writers
<1>8. ASSUME NEW h \in Holders, UnlockWrite(h)
      PROVE  IndInv'
  <2>1. /\ pc[h] = "writing" /\ state' = 0
        /\ pc' = [pc EXCEPT ![h] = "idle"] /\ UNCHANGED <<current, refused>>
    BY <1>8 DEF UnlockWrite, Goto
  <2>2. Writers = {h} /\ Readers = {}
    BY <2>1 DEF IndInv, Writers
  <2>3. Writers' = {} /\ Readers' = {}
    BY <1>1, <2>1, <2>2 DEF TypeOK, Writers, Readers
  <2>4. Cardinality(Readers') = 0
    BY <2>3, FS_EmptySet
  <2>5. TypeOK'
    BY <1>1, <2>1 DEF TypeOK, Word
  <2> QED
    BY <1>1, <2>1, <2>3, <2>4, <2>5 DEF IndInv, TypeOK, Writers
<1> QED
  BY <1>2, <1>3, <1>4, <1>5, <1>6, <1>7, <1>8 DEF Next

\* The invariant of the lock holds in every behaviour.
THEOREM Invariance == Spec => []IndInv
BY InitIndInv, Inductive, PTL DEF Spec

\* Every variable keeps its type: the word never holds a reader count beside the writer bit.
THEOREM TypeCorrect == Spec => []TypeOK
<1>1. IndInv => TypeOK
  BY DEF IndInv
<1> QED
  BY <1>1, Invariance, PTL

\* A writer is alone, and the word tells exactly who holds the lock.
THEOREM MutualExclusion == Spec => []Exclusion
<1>1. IndInv => Exclusion
  <2> SUFFICES ASSUME IndInv PROVE Exclusion
    OBVIOUS
  <2>1. TypeOK
    BY DEF IndInv
  <2>2. ASSUME Writers # {}
        PROVE  Readers = {} /\ Cardinality(Writers) = 1 /\ WriteLocked(state)
    <3>1. PICK h \in Holders : pc[h] = "writing"
      BY <2>2 DEF Writers
    <3>2. Writers = {h}
      BY <3>1 DEF IndInv, Writers
    <3>3. Cardinality({h}) = 1
      BY FS_Singleton
    <3> QED
      BY <2>2, <3>2, <3>3, WriteBitAssumption DEF IndInv, WriteLocked
  <2>3. ASSUME Writers = {}
        PROVE  state = Cardinality(Readers) /\ ~WriteLocked(state)
    BY <2>1, <2>3, ReadersFit, WriteBitAssumption DEF IndInv, WriteLocked
  <2> QED
    BY <2>2, <2>3 DEF Exclusion
<1> QED
  BY <1>1, Invariance, PTL

\* Nobody is refused a free lock, and readers never refuse each other.
THEOREM RefusalsAreHonest == Spec => RefusedForAReason
<1>1. IndInv /\ [Next]_vars => [RefusalJustified]_vars
  <2> SUFFICES ASSUME IndInv, NEW h \in Holders
               PROVE  /\ ReadLoad(h) \/ ReadCasFails(h) =>
                            (h \in refused' \ refused => Writers # {})
                      /\ WriteCasFails(h) => Writers # {} \/ Readers # {}
    BY DEF RefusalJustified
  <2>1. TypeOK /\ (Writers = {} => ~WriteLocked(state))
    BY ReadersFit, WriteBitAssumption DEF IndInv, WriteLocked
  <2>2. Writers = {} /\ Readers = {} => state = 0
    BY FS_EmptySet DEF IndInv
  <2> QED
    BY <2>1, <2>2 DEF ReadLoad, ReadCasFails, ReadSaw, WriteCasFails, WriteFree
<1> QED
  BY <1>1, Invariance, PTL DEF Spec, RefusedForAReason

-----------------------------------------------------------------------------
(* SharedPublisher *)

\* The thread has claimed the slot it loaded the index of.
Writing(t) == ppc[t] \in {"load", "store", "header", "payload", "ready"}

\* The call is over, or has nothing left to do but store head.
Finished(m) == m[2] < call[m[1]] \/ (m[2] = call[m[1]] /\ ppc[m[1]] \in {"head", "idle"})

\* What is claimed is WRITING, and one thread's; it fills step by step.
Claims ==
    /\ \A t \in Threads : ppc[t] # "idle" => call[t] \in 1 .. MaxCalls
    /\ \A t \in Threads : Writing(t) => slotState[headAt[t]] = "WRITING"
    /\ \A t, u \in Threads : Writing(t) /\ Writing(u) /\ headAt[t] = headAt[u] => t = u
    /\ \A t \in Threads : ppc[t] \in {"payload", "ready"} => slotHeader[headAt[t]].call = This(t)
    /\ \A t \in Threads : ppc[t] = "ready" => slotPayload[headAt[t]] = This(t)

\* The slot whose callback has returned, and that is not marked yet.
Seen(i) == cpc = "reading" /\ i = tail

\* What is READY is whole, from a call that is over, in one slot only, and not seen.
Contents ==
    /\ \A i \in Index :
          slotState[i] = "READY" =>
              /\ Whole(i) /\ slotPayload[i] \in Calls /\ Finished(slotPayload[i])
              /\ slotPayload[i] \in delivered <=> Seen(i)
    /\ \A i, j \in Index :
          slotState[i] = "READY" /\ slotState[j] = "READY" /\ slotPayload[i] = slotPayload[j] => i = j

\* The consumer's slot stays as it found it.
Reading ==
    /\ cpc \in {"copy", "callback", "reading"} => slotState[tail] = "READY"
    /\ cpc = "callback" => view = slotHeader[tail]
    /\ cpc = "tail" => slotState[tail] = "READING"
    /\ cpc = "empty" => \A i \in Index : Following(i) = tail => slotState[i] = "READING"

\* The message of a call is READY in a slot, or was delivered.
Kept(m) == m \in delivered \/ \E i \in Index : slotState[i] = "READY" /\ slotPayload[i] = m

Fates ==
    /\ \A m \in delivered : Finished(m)
    /\ \A m \in accepted : Kept(m)
    /\ \A t \in Threads : ppc[t] = "head" => Kept(This(t))

SharedInv == SharedTypeOK /\ Claims /\ Contents /\ Reading /\ Fates

\* Storing head or tail stays inside the ring, and moves.
LEMMA FollowingFacts ==
  /\ 0 \in Index
  /\ \A i \in Index : Following(i) \in Index
  /\ \A i, j \in Index : Following(i) = Following(j) => i = j
<1> SUFFICES ASSUME NEW i \in Index, NEW j \in Index
             PROVE  /\ 0 \in Index /\ Following(i) \in Index
                    /\ Following(i) = Following(j) => i = j
  BY BufferSizeAssumption DEF Index
<1>1. ASSUME NEW k \in Index
      PROVE  Following(k) = IF k = BufferSize - 1 THEN 0 ELSE k + 1
  BY <1>1, BufferSizeAssumption DEF Index, Following
<1> QED
  BY <1>1, BufferSizeAssumption DEF Index

LEMMA SharedInitial == SharedInit => SharedInv
<1> SUFFICES ASSUME SharedInit PROVE SharedInv
  OBVIOUS
<1>1. SharedTypeOK
  BY FollowingFacts, MaxCallsAssumption DEF SharedInit, SharedTypeOK, NoHeader, None
<1>2. Claims /\ Contents /\ Reading /\ Fates
  BY DEF SharedInit, Claims, Writing, Contents, Reading, Fates
<1> QED
  BY <1>1, <1>2 DEF SharedInv

LEMMA SharedTypes ==
  ASSUME SharedInv, [SharedNext]_sharedVars
  PROVE  SharedTypeOK'
<1> USE MaxCallsAssumption, FollowingFacts DEF SharedInv, SharedTypeOK
<1>1. CASE UNCHANGED sharedVars
  BY <1>1 DEF sharedVars, slots, publishers, consumer
<1>2. ASSUME NEW t \in Threads, Publish(t)
      PROVE  SharedTypeOK'
  <2> USE DEF slots, publishers, consumer, Step, Return
  <2>1. CASE PublishLoadHead(t)
    BY <2>1 DEF PublishLoadHead
  <2>2. CASE PublishFull(t) \/ PublishLoadTail(t) \/ PublishSlotBusy(t)
    BY <2>2 DEF PublishFull, PublishLoadTail, PublishSlotBusy
  <2>3. CASE PublishCas(t)
    BY <2>3 DEF PublishCas
  <2>4. CASE PublishLoadSequence(t) \/ PublishStoreSequence(t)
    BY <2>4 DEF PublishLoadSequence, PublishStoreSequence
  <2>5. CASE PublishHeader(t)
    <3>1. PICK n \in {counter[t] + 1, localSequence} :
             slotHeader' = [slotHeader EXCEPT ![headAt[t]] = [call |-> This(t), sequence |-> n]]
      BY <2>5 DEF PublishHeader
    <3>2. This(t) \in Calls
      BY <2>5 DEF PublishHeader, Claims, This, Calls
    <3>3. [call |-> This(t), sequence |-> n] \in Headers
      BY <3>1, <3>2 DEF Headers
    <3> QED
      BY <2>5, <3>1, <3>3 DEF PublishHeader
  <2>6. CASE PublishPayload(t)
    BY <2>6 DEF PublishPayload, Claims, This, Calls
  <2>7. CASE PublishReady(t)
    BY <2>7 DEF PublishReady
  <2>8. CASE PublishHead(t)
    BY <2>8 DEF PublishHead, Claims, This, Calls
  <2> QED
    BY <1>2, <2>1, <2>2, <2>3, <2>4, <2>5, <2>6, <2>7, <2>8 DEF Publish
<1>3. CASE Consume
  <2> USE <1>3 DEF slots, publishers, consumer, ConsumerStep
  <2>1. CASE ConsumeCallback
    BY <2>1 DEF ConsumeCallback, Reading, Contents
  <2>2. CASE ConsumeCopy
    BY <2>2 DEF ConsumeCopy
  <2>3. CASE ConsumeReading \/ ConsumeEmpty
    BY <2>3 DEF ConsumeReading, ConsumeEmpty
  <2>4. CASE ConsumeTail \/ ConsumeCheck \/ ConsumeNotReady \/ ConsumeState
    BY <2>4 DEF ConsumeTail, ConsumeCheck, ConsumeNotReady, ConsumeState
  <2> QED
    BY <2>1, <2>2, <2>3, <2>4 DEF Consume
<1> QED
  BY <1>1, <1>2, <1>3 DEF SharedNext

\* A step of a publisher that leaves the slots and the histories alone.
LEMMA QuietStep ==
  ASSUME SharedInv, NEW t \in Threads,
         PublishLoadHead(t) \/ PublishFull(t) \/ PublishLoadTail(t) \/ PublishSlotBusy(t)
           \/ PublishLoadSequence(t) \/ PublishStoreSequence(t)
  PROVE  Claims' /\ Contents' /\ Reading' /\ Fates'
<1> USE DEF SharedInv, SharedTypeOK, slots, consumer, Step, Return
<1> USE DEF PublishLoadHead, PublishFull, PublishLoadTail, PublishSlotBusy, PublishLoadSequence, PublishStoreSequence
<1>1. UNCHANGED <<slots, tail, cpc, view, delivered, accepted>>
  OBVIOUS
<1>2. \A u \in Threads : /\ Writing(u)' <=> Writing(u)
                         /\ Writing(u) => headAt'[u] = headAt[u] /\ call'[u] = call[u]
                         /\ ppc'[u] \in {"payload", "ready", "head"} => ppc'[u] = ppc[u] /\ call'[u] = call[u]
                                                                     /\ headAt'[u] = headAt[u]
  BY DEF Writing
<1>3. \A u \in Threads : ppc'[u] # "idle" => call'[u] \in 1 .. MaxCalls
  BY MaxCallsAssumption DEF Claims
<1>4. \A m \in Calls : Finished(m) => Finished(m)'
  BY DEF Finished, Calls
<1>5. Claims'
  BY <1>1, <1>2, <1>3 DEF Claims, This
<1>6. Contents'
  BY <1>1, <1>4 DEF Contents, Whole, Seen
<1>7. Reading'
  BY <1>1 DEF Reading
<1>8. Fates'
  <2>1. \A m : Kept(m)' <=> Kept(m)
    BY <1>1 DEF Kept
  <2>2. \A u \in Threads : ppc'[u] = "head" => ppc[u] = "head" /\ This(u)' = This(u)
    BY <1>2 DEF This
  <2> QED
    BY <1>1, <1>4, <2>1, <2>2 DEF Fates
<1> QED
  BY <1>5, <1>6, <1>7, <1>8

\* The compare-and-swap that claims a slot, EMPTY until then.
LEMMA ClaimStep ==
  ASSUME SharedInv, NEW t \in Threads, PublishCas(t)
  PROVE  Claims' /\ Contents' /\ Reading' /\ Fates'
<1> USE DEF SharedInv, SharedTypeOK, slots, consumer, Step
<1>1. /\ slotState[headAt[t]] = "EMPTY" /\ slotState' = [slotState EXCEPT ![headAt[t]] = "WRITING"]
      /\ ppc[t] = "cas" /\ ppc' = [ppc EXCEPT ![t] = "load"]
      /\ UNCHANGED <<slotHeader, slotPayload, head, localSequence, call, headAt, counter, accepted, consumer>>
  BY DEF PublishCas, Claimable
<1>2. \A i \in Index : slotState'[i] \in {"READY", "READING"} \/ slotState[i] \in {"READY", "READING"}
                         => slotState'[i] = slotState[i]
  BY <1>1
<1>3. \A m \in Calls : Finished(m)' <=> Finished(m)
  BY <1>1 DEF Finished, Calls
<1>4. Claims'
  BY <1>1 DEF Claims, Writing, This
<1>5. Contents'
  BY <1>1, <1>2, <1>3 DEF Contents, Whole, Seen
<1>6. Reading'
  BY <1>1, <1>2 DEF Reading, Following
<1>7. Fates'
  <2>1. \A m : Kept(m)' <=> Kept(m)
    BY <1>1, <1>2 DEF Kept
  <2>2. \A u \in Threads : ppc'[u] = "head" => ppc[u] = "head" /\ This(u)' = This(u)
    BY <1>1 DEF This
  <2> QED
    BY <1>1, <1>3, <2>1, <2>2 DEF Fates
<1> QED
  BY <1>4, <1>5, <1>6, <1>7

\* Sequence number, header and payload, written into the claimed slot.
LEMMA FillStep ==
  ASSUME SharedInv, NEW t \in Threads, PublishHeader(t) \/ PublishPayload(t)
  PROVE  Claims' /\ Contents' /\ Reading' /\ Fates'
<1> USE DEF SharedInv, SharedTypeOK, slots, consumer, Step
<1>1. /\ Writing(t) /\ slotState[headAt[t]] = "WRITING"
      /\ UNCHANGED <<slotState, head, localSequence, call, headAt, counter, accepted, consumer>>
  BY DEF PublishHeader, PublishPayload, Writing, Claims
<1>2. \A i \in Index : i # headAt[t] => slotHeader'[i] = slotHeader[i] /\ slotPayload'[i] = slotPayload[i]
  BY DEF PublishHeader, PublishPayload
<1>3. \A u \in Threads \ {t} : ppc'[u] = ppc[u] /\ (Writing(u) => headAt[u] # headAt[t])
  BY <1>1 DEF PublishHeader, PublishPayload, Claims
<1>4. /\ ppc'[t] \in {"payload", "ready"} /\ slotHeader'[headAt[t]].call = This(t)
      /\ ppc'[t] = "ready" => slotPayload'[headAt[t]] = This(t)
  BY DEF PublishHeader, PublishPayload, Claims
<1>5. \A m \in Calls : Finished(m)' <=> Finished(m)
  BY <1>1, <1>3, <1>4 DEF Finished, Calls, Writing
<1>6. Claims'
  BY <1>1, <1>2, <1>3, <1>4 DEF Claims, Writing, This
<1>7. Contents'
  BY <1>1, <1>2, <1>5 DEF Contents, Whole, Seen
<1>8. Reading'
  BY <1>1, <1>2 DEF Reading
<1>9. Fates'
  <2>1. \A m : Kept(m)' <=> Kept(m)
    BY <1>1, <1>2 DEF Kept
  <2>2. \A u \in Threads : ppc'[u] = "head" => ppc[u] = "head" /\ This(u)' = This(u)
    BY <1>1, <1>3, <1>4 DEF This
  <2> QED
    BY <1>1, <1>5, <2>1, <2>2 DEF Fates
<1> QED
  BY <1>6, <1>7, <1>8, <1>9

\* The slot is READY: from here on the message is accepted.
LEMMA ReadyStep ==
  ASSUME SharedInv, NEW t \in Threads, PublishReady(t)
  PROVE  Claims' /\ Contents' /\ Reading' /\ Fates'
<1> USE DEF SharedInv, SharedTypeOK, slots, consumer, Step
<1>1. /\ slotState[headAt[t]] = "WRITING" /\ slotState' = [slotState EXCEPT ![headAt[t]] = "READY"]
      /\ ppc[t] = "ready" /\ ppc' = [ppc EXCEPT ![t] = "head"]
      /\ UNCHANGED <<slotHeader, slotPayload, head, localSequence, call, headAt, counter, accepted, consumer>>
  BY DEF PublishReady, Claims, Writing
<1>2. slotPayload[headAt[t]] = This(t) /\ Whole(headAt[t]) /\ This(t) \in Calls /\ headAt[t] \in Index
  BY <1>1 DEF Claims, Whole, This, Calls
<1>3. ~Finished(This(t)) /\ Finished(This(t))'
  BY <1>1 DEF Finished, This
<1>4. \A m \in Calls : Finished(m) => Finished(m)'
  BY <1>1 DEF Finished, Calls
<1>5. Claims'
  BY <1>1 DEF Claims, Writing, This
<1>6. Contents'
  <2>1. ASSUME NEW i \in Index, slotState'[i] = "READY"
        PROVE  /\ Whole(i)' /\ slotPayload'[i] \in Calls /\ Finished(slotPayload[i])'
               /\ slotPayload'[i] \in delivered' <=> Seen(i)'
    <3>1. CASE i = headAt[t]
      <4>1. ~Seen(i)
        BY <1>1, <3>1 DEF Reading, Seen
      <4>2. This(t) \notin delivered
        BY <1>3 DEF Fates
      <4>3. slotPayload'[i] = This(t) /\ This(t)' = This(t) /\ delivered' = delivered
        BY <1>1, <1>2, <3>1 DEF This
      <4>4. Finished(slotPayload[i])'
        BY <1>1, <1>3, <4>3 DEF Finished
      <4> QED
        BY <1>1, <1>2, <3>1, <4>1, <4>2, <4>3, <4>4 DEF Whole, Seen
    <3>2. CASE i # headAt[t]
      BY <1>1, <1>4, <2>1, <3>2 DEF Contents, Whole, Seen
    <3> QED
      BY <3>1, <3>2
  <2>2. \A i, j \in Index :
           slotState'[i] = "READY" /\ slotState'[j] = "READY" /\ slotPayload'[i] = slotPayload'[j] => i = j
    BY <1>1, <1>2, <1>3 DEF Contents
  <2> QED
    BY <1>1, <2>1, <2>2 DEF Contents
<1>7. Reading'
  BY <1>1 DEF Reading
<1>8. Fates'
  BY <1>1, <1>2, <1>4 DEF Fates, Kept, This
<1> QED
  BY <1>5, <1>6, <1>7, <1>8

\* head is stored, whatever has become of it meanwhile.
LEMMA HeadStep ==
  ASSUME SharedInv, NEW t \in Threads, PublishHead(t)
  PROVE  Claims' /\ Contents' /\ Reading' /\ Fates'
<1> USE DEF SharedInv, SharedTypeOK, slots, consumer, Step, Return
<1>1. /\ ppc[t] = "head" /\ ppc' = [ppc EXCEPT ![t] = "idle"]
      /\ headAt' = [headAt EXCEPT ![t] = 0]
      /\ accepted' = accepted \cup {This(t)}
      /\ UNCHANGED <<slots, localSequence, call, consumer>>
  BY DEF PublishHead
<1>2. \A m \in Calls : Finished(m)' <=> Finished(m)
  BY <1>1 DEF Finished, Calls
<1>3. Claims'
  BY <1>1 DEF Claims, Writing, This
<1>4. Contents'
  BY <1>1, <1>2 DEF Contents, Whole, Seen
<1>5. Reading'
  BY <1>1 DEF Reading
<1>6. Fates'
  BY <1>1, <1>2 DEF Fates, Kept, This
<1> QED
  BY <1>3, <1>4, <1>5, <1>6

\* A consumer that marks no slot leaves every accepted message where it was.
LEMMA ConsumerKeepsFates ==
  ASSUME SharedInv, UNCHANGED publishers,
         \A m : Kept(m) => Kept(m)',
         \A m \in delivered' : Finished(m)
  PROVE  Fates'
<1>1. /\ ppc' = ppc /\ accepted' = accepted /\ \A t \in Threads : This(t)' = This(t)
      /\ \A m : Finished(m)' <=> Finished(m)
  BY DEF publishers, This, Finished
<1> QED
  BY <1>1 DEF SharedInv, Fates

\* The steps of the consumer.
LEMMA ConsumeStep ==
  ASSUME SharedInv, Consume
  PROVE  Claims' /\ Contents' /\ Reading' /\ Fates'
<1> USE FollowingFacts DEF SharedInv, SharedTypeOK, slots, publishers, consumer, ConsumerStep
<1>1. CASE ConsumeCheck \/ ConsumeNotReady \/ ConsumeState \/ ConsumeCopy
  <2> USE <1>1 DEF ConsumeCheck, ConsumeNotReady, ConsumeState, Consumable, ConsumeCopy
  <2>1. UNCHANGED <<slots, tail, delivered, publishers>> /\ cpc # "reading" /\ cpc' # "reading"
    OBVIOUS
  <2>2. Claims' /\ Fates'
    <3>1. Claims'
      BY <2>1 DEF Claims, Writing, This
    <3>2. \A m : Kept(m) => Kept(m)'
      BY <2>1 DEF Kept
    <3>3. \A m \in delivered' : Finished(m)
      BY <2>1 DEF Fates
    <3> QED
      BY <2>1, <3>1, <3>2, <3>3, ConsumerKeepsFates
  <2>3. Contents'
    BY <2>1 DEF Contents, Whole, Seen, Finished
  <2>4. Reading'
    BY <2>1 DEF Reading
  <2> QED
    BY <2>2, <2>3, <2>4
<1>2. CASE ConsumeCallback
  <2>1. /\ cpc = "callback" /\ cpc' = "reading" /\ delivered' = delivered \cup {slotPayload[tail]}
        /\ slotState[tail] = "READY" /\ slotPayload[tail] \in Calls /\ Finished(slotPayload[tail])
        /\ UNCHANGED <<slots, tail, view, publishers>>
    BY <1>2 DEF ConsumeCallback, Reading, Contents
  <2>2. Claims' /\ Fates'
    <3>1. Claims'
      BY <2>1 DEF Claims, Writing, This
    <3>2. \A m : Kept(m) => Kept(m)'
      BY <2>1 DEF Kept
    <3>3. \A m \in delivered' : Finished(m)
      BY <2>1 DEF Fates
    <3> QED
      BY <2>1, <3>1, <3>2, <3>3, ConsumerKeepsFates
  <2>3. Contents'
    BY <2>1 DEF Contents, Whole, Seen, Finished
  <2>4. Reading'
    BY <2>1 DEF Reading
  <2> QED
    BY <2>2, <2>3, <2>4
<1>3. CASE ConsumeReading
  <2>1. /\ cpc = "reading" /\ cpc' = "tail" /\ slotState' = [slotState EXCEPT ![tail] = "READING"]
        /\ slotState[tail] = "READY" /\ slotPayload[tail] \in delivered
        /\ UNCHANGED <<slotHeader, slotPayload, tail, delivered, publishers>>
    BY <1>3 DEF ConsumeReading, Reading, Contents, Seen
  <2>2. Claims'
    BY <2>1 DEF Claims, Writing, This
  <2>3. Fates'
    <3>1. \A m : Kept(m) => Kept(m)'
      BY <2>1 DEF Kept
    <3> QED
      BY <2>1, <3>1, ConsumerKeepsFates DEF Fates
  <2>4. Contents'
    BY <2>1 DEF Contents, Whole, Seen, Finished
  <2>5. Reading'
    BY <2>1 DEF Reading
  <2> QED
    BY <2>2, <2>3, <2>4, <2>5
<1>4. CASE ConsumeTail
  <2>1. /\ cpc = "tail" /\ cpc' = "empty" /\ tail' = Following(tail) /\ slotState[tail] = "READING"
        /\ UNCHANGED <<slots, view, delivered, publishers>>
    BY <1>4 DEF ConsumeTail, Reading
  <2>2. Claims' /\ Fates'
    <3>1. Claims'
      BY <2>1 DEF Claims, Writing, This
    <3>2. \A m : Kept(m) => Kept(m)'
      BY <2>1 DEF Kept
    <3>3. \A m \in delivered' : Finished(m)
      BY <2>1 DEF Fates
    <3> QED
      BY <2>1, <3>1, <3>2, <3>3, ConsumerKeepsFates
  <2>3. Contents'
    BY <2>1 DEF Contents, Whole, Seen, Finished
  <2>4. \A i \in Index : Following(i) = tail' => slotState'[i] = "READING"
    BY <2>1
  <2>5. Reading'
    BY <2>1, <2>4 DEF Reading, Following
  <2> QED
    BY <2>2, <2>3, <2>5
<1>5. CASE ConsumeEmpty
  <2>1. /\ cpc = "empty" /\ cpc' = "check"
        /\ slotState' = [i \in Index |-> IF Following(i) = tail THEN "EMPTY" ELSE slotState[i]]
        /\ \A i \in Index : Following(i) = tail => slotState[i] = "READING"
        /\ UNCHANGED <<slotHeader, slotPayload, tail, view, delivered, publishers>>
    BY <1>5 DEF ConsumeEmpty, Reading
  <2>2. \A i \in Index : slotState'[i] \in {"WRITING", "READY"} \/ slotState[i] \in {"WRITING", "READY"}
                           => slotState'[i] = slotState[i]
    BY <2>1
  <2>3. Claims'
    BY <2>1, <2>2 DEF Claims, Writing, This
  <2>4. Fates'
    BY <2>1, <2>2, ConsumerKeepsFates DEF Kept, Fates
  <2>5. Contents'
    BY <2>1, <2>2 DEF Contents, Whole, Seen, Finished
  <2>6. Reading'
    BY <2>1 DEF Reading
  <2> QED
    BY <2>3, <2>4, <2>5, <2>6
<1> QED
  BY <1>1, <1>2, <1>3, <1>4, <1>5 DEF Consume

\* Every step of a publishing thread or of the consumer keeps the invariant.
LEMMA SharedInductive == SharedInv /\ [SharedNext]_sharedVars => SharedInv'
<1> SUFFICES ASSUME SharedInv, [SharedNext]_sharedVars PROVE SharedInv'
  OBVIOUS
<1>1. SharedTypeOK'
  BY SharedTypes
<1>2. CASE UNCHANGED sharedVars
  <2>1. Claims' /\ Contents' /\ Reading'
    BY <1>2 DEF SharedInv, sharedVars, slots, publishers, consumer, Claims, Writing, This, Contents, Whole,
                Seen, Finished, Reading, Following
  <2>2. Fates'
    BY <1>2 DEF SharedInv, sharedVars, slots, publishers, consumer, Fates, Kept, This, Finished
  <2> QED
    BY <1>1, <2>1, <2>2 DEF SharedInv
<1>3. ASSUME NEW t \in Threads, Publish(t)
      PROVE  Claims' /\ Contents' /\ Reading' /\ Fates'
  BY <1>3, QuietStep, ClaimStep, FillStep, ReadyStep, HeadStep DEF Publish
<1> QED
  BY <1>1, <1>2, <1>3, ConsumeStep DEF SharedNext, SharedInv

\* What is claimed, filled, READY and read belongs to whom it should, always.
THEOREM SharedInvariance == SharedSpec => []SharedInv
BY SharedInitial, SharedInductive, PTL DEF SharedSpec

\* Every variable of the channel and of its threads keeps its type.
THEOREM SharedTypeCorrect == SharedSpec => []SharedTypeOK
<1>1. SharedInv => SharedTypeOK
  BY DEF SharedInv
<1> QED
  BY <1>1, SharedInvariance, PTL

\* A message whose publish returned true stays whole in one slot until it is delivered,
\* however many threads publish through the handle and however they overtake each other.
THEOREM NothingOverwritten == SharedSpec => []AcceptedIsKept
<1>1. SharedInv => AcceptedIsKept
  <2> SUFFICES ASSUME SharedInv, NEW m \in accepted \ delivered
               PROVE  \E i \in Index :
                         /\ slotState[i] = "READY" /\ Whole(i) /\ slotPayload[i] = m
                         /\ \A j \in Index \ {i} : slotState[j] = "READY" => slotPayload[j] # m
    BY DEF AcceptedIsKept
  <2>1. PICK i \in Index : slotState[i] = "READY" /\ slotPayload[i] = m
    BY DEF SharedInv, Fates, Kept
  <2> QED
    BY <2>1 DEF SharedInv, Contents
<1> QED
  BY <1>1, SharedInvariance, PTL

\* Header and payload a callback sees are of one call, and no call's message is seen
\* twice, although head moves back and forth.
THEOREM SeenWholeAndOnce == SharedSpec => WholeAndOnce
<1>1. SharedInv /\ [SharedNext]_sharedVars =>
         [ConsumeCallback => view.call = slotPayload[tail] /\ slotPayload[tail] \notin delivered]_sharedVars
  <2> SUFFICES ASSUME SharedInv, ConsumeCallback
               PROVE  view.call = slotPayload[tail] /\ slotPayload[tail] \notin delivered
    OBVIOUS
  <2> QED
    BY DEF ConsumeCallback, ConsumerStep, SharedInv, SharedTypeOK, Reading, Contents, Whole, Seen
<1> QED
  BY <1>1, SharedInvariance, PTL DEF SharedSpec, WholeAndOnce
=============================================================================
