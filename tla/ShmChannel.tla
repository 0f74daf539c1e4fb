------------------------------ MODULE ShmChannel ------------------------------
(***************************************************************************)
(* src/shm_channel.cpp: a ring of message slots in shared memory, used the *)
(* way a channel is meant to be used: one process publishes through the    *)
(* handle it created, another consumes through a handle it opened, between *)
(* the end of initializeCreator and destroy.  head is written by publish   *)
(* alone and tail by consume alone; a slot also carries a state, which     *)
(* publish takes from EMPTY to WRITING to READY and consume from READY to  *)
(* READING to EMPTY.  Each step of the model is one access to what the two *)
(* processes share, and either process may die between two steps: another  *)
(* consumer then opens the channel, a publisher is not replaced.           *)
(***************************************************************************)
EXTENDS Naturals, Sequences

CONSTANTS BufferSize,    \* ShmChannelConfig::buffer_size
          Payloads,
          Blank,         \* payload of a slot never written
          MaxPublished,  \* bound: messages that get a slot
          MaxDropped,    \* bound: messages counted as dropped
          MaxCrashes     \* bound: consumers that die inside consume

ASSUME BufferSizeAssumption == BufferSize \in Nat /\ BufferSize >= 1
ASSUME PayloadsAssumption == Blank \notin Payloads
ASSUME BoundsAssumption == MaxPublished \in Nat /\ MaxDropped \in Nat /\ MaxCrashes \in Nat

VARIABLES slotState, slotSeq, slotPayload,  \* ShmMessageSlot: state, header.sequence, payload_data
          head, tail,                       \* ShmChannelControlBlock
          sent, dropped, received,          \* messages_sent, messages_dropped, messages_received
          ppc, payload, localSequence,      \* publisher: step, argument, local_sequence_
          cpc, viewSeq,                     \* consumer: step, sequence in the MessageView
          delivered,                        \* the message the last callback saw
          again,                            \* history: the next callback sees it once more
          crashes,                          \* consumers that died inside consume
          published, taken                  \* histories: messages put into the ring, taken out of it

slots == <<slotState, slotSeq, slotPayload>>
pub == <<head, sent, dropped, ppc, payload, localSequence, published>>
con == <<tail, received, cpc, viewSeq, delivered, again, crashes, taken>>
vars == <<slots, pub, con>>

Index == 0 .. BufferSize - 1

Following(i) == (i + 1) % BufferSize

Messages == [seq : 1 .. MaxPublished, payload : Payloads]
NoMessage == [seq |-> 0, payload |-> Blank]

TypeOK ==
    /\ slotState \in [Index -> {"EMPTY", "WRITING", "READY", "READING"}]
    /\ slotSeq \in [Index -> 0 .. MaxPublished]
    /\ slotPayload \in [Index -> Payloads \cup {Blank}]
    /\ head \in Index /\ tail \in Index
    /\ sent \in 0 .. MaxPublished
    /\ dropped \in 0 .. MaxDropped
    /\ received \in 0 .. MaxPublished
    /\ ppc \in {"idle", "cas", "header", "payload", "ready", "head", "count", "dead"}
    /\ payload \in Payloads \cup {Blank}
    /\ localSequence \in 0 .. MaxPublished
    /\ cpc \in {"idle", "check", "state", "copy", "callback", "reading", "tail", "empty", "count"}
    /\ viewSeq \in 0 .. MaxPublished
    /\ delivered \in Messages \cup {NoMessage}
    /\ again \in BOOLEAN
    /\ crashes \in 0 .. MaxCrashes
    /\ published \in Seq(Messages)
    /\ taken \in Seq(Messages)

\* initializeCreator, up to and including initialized = true.
Init ==
    /\ slotState = [i \in Index |-> "EMPTY"]
    /\ slotSeq = [i \in Index |-> 0]
    /\ slotPayload = [i \in Index |-> Blank]
    /\ head = 0 /\ tail = 0
    /\ sent = 0 /\ dropped = 0 /\ received = 0
    /\ ppc = "idle" /\ payload = Blank /\ localSequence = 0
    /\ cpc = "idle" /\ viewSeq = 0 /\ delivered = NoMessage /\ again = FALSE
    /\ crashes = 0
    /\ published = << >> /\ taken = << >>

-----------------------------------------------------------------------------
(* publish *)

\* Mutant: the ring is filled up to its last slot.
FullNever == FALSE

Full == Following(head) = tail

SlotFree == slotState[head] = "EMPTY"

\* The payload is larger than payload_max: false at once.
PublishTooLarge ==
    /\ ppc = "idle"
    /\ UNCHANGED vars

\* Mutant: a message gets its number before it gets its slot.
PublishFullNumbers ==
    /\ ppc = "idle"
    /\ Full
    /\ dropped < MaxDropped
    /\ dropped' = dropped + 1
    /\ localSequence' = localSequence + 1
    /\ UNCHANGED <<slots, head, sent, ppc, payload, published, con>>

\* The ring is full: the message is dropped.
PublishFull ==
    /\ ppc = "idle"
    /\ Full
    /\ dropped < MaxDropped
    /\ dropped' = dropped + 1
    /\ UNCHANGED <<slots, head, sent, ppc, payload, localSequence, published, con>>

PublishCheck(v) ==
    /\ ppc = "idle" /\ ~Full
    /\ Len(published) < MaxPublished
    /\ ppc' = "cas" /\ payload' = v
    /\ UNCHANGED <<slots, head, sent, dropped, localSequence, published, con>>

PublishCas ==
    /\ ppc = "cas"
    /\ SlotFree
    /\ slotState' = [slotState EXCEPT ![head] = "WRITING"]
    /\ localSequence' = localSequence + 1
    /\ ppc' = "header"
    /\ UNCHANGED <<slotSeq, slotPayload, head, sent, dropped, payload, published, con>>

\* Somebody still uses the slot: the message is dropped.
PublishSlotBusy ==
    /\ ppc = "cas"
    /\ ~SlotFree
    /\ dropped < MaxDropped
    /\ dropped' = dropped + 1
    /\ ppc' = "idle" /\ payload' = Blank
    /\ UNCHANGED <<slots, head, sent, localSequence, published, con>>

PublishHeader ==
    /\ ppc = "header"
    /\ slotSeq' = [slotSeq EXCEPT ![head] = localSequence]
    /\ ppc' = "payload"
    /\ UNCHANGED <<slotState, slotPayload, head, sent, dropped, payload, localSequence, published, con>>

PublishPayload ==
    /\ ppc = "payload"
    /\ slotPayload' = [slotPayload EXCEPT ![head] = payload]
    /\ ppc' = "ready"
    /\ UNCHANGED <<slotState, slotSeq, head, sent, dropped, payload, localSequence, published, con>>

\* Mutant: the slot stays in state WRITING.
PublishReadyForgotten ==
    /\ ppc = "ready"
    /\ ppc' = "head"
    /\ UNCHANGED <<slots, head, sent, dropped, payload, localSequence, published, con>>

PublishReady ==
    /\ ppc = "ready"
    /\ slotState' = [slotState EXCEPT ![head] = "READY"]
    /\ ppc' = "head"
    /\ UNCHANGED <<slotSeq, slotPayload, head, sent, dropped, payload, localSequence, published, con>>

PublishHead ==
    /\ ppc = "head"
    /\ head' = Following(head)
    /\ published' = Append(published, [seq |-> localSequence, payload |-> payload])
    /\ ppc' = "count"
    /\ UNCHANGED <<slots, sent, dropped, payload, localSequence, con>>

PublishCount ==
    /\ ppc = "count"
    /\ sent' = sent + 1
    /\ ppc' = "idle" /\ payload' = Blank
    /\ UNCHANGED <<slots, head, dropped, localSequence, published, con>>

\* The publishing process dies; what it wrote stays.
PublisherDies ==
    /\ ppc # "dead"
    /\ ppc' = "dead" /\ payload' = Blank
    /\ UNCHANGED <<slots, head, sent, dropped, localSequence, published, con>>

Publish ==
    \/ PublishTooLarge \/ PublishFull \/ PublishCas \/ PublishSlotBusy \/ PublishHeader
    \/ PublishPayload \/ PublishReady \/ PublishHead \/ PublishCount \/ PublisherDies
    \/ \E v \in Payloads : PublishCheck(v)

-----------------------------------------------------------------------------
(* consume: a loop that ends when the ring is empty or the next slot not ready *)

ConsumeCall ==
    /\ cpc = "idle"
    /\ cpc' = "check"
    /\ UNCHANGED <<slots, tail, received, viewSeq, delivered, again, crashes, taken, pub>>

ConsumeNothing ==
    /\ cpc = "check"
    /\ tail = head
    /\ cpc' = "idle"
    /\ UNCHANGED <<slots, tail, received, viewSeq, delivered, again, crashes, taken, pub>>

ConsumeCheck ==
    /\ cpc = "check"
    /\ tail # head
    /\ cpc' = "state"
    /\ UNCHANGED <<slots, tail, received, viewSeq, delivered, again, crashes, taken, pub>>

ConsumeNotReady ==
    /\ cpc = "state"
    /\ slotState[tail] # "READY"
    /\ cpc' = "idle"
    /\ UNCHANGED <<slots, tail, received, viewSeq, delivered, again, crashes, taken, pub>>

ConsumeState ==
    /\ cpc = "state"
    /\ slotState[tail] = "READY"
    /\ cpc' = "copy"
    /\ UNCHANGED <<slots, tail, received, viewSeq, delivered, again, crashes, taken, pub>>

\* The view copies the header and points at the payload.
ConsumeCopy ==
    /\ cpc = "copy"
    /\ viewSeq' = slotSeq[tail]
    /\ cpc' = "callback"
    /\ UNCHANGED <<slots, tail, received, delivered, again, crashes, taken, pub>>

\* The callback reads the payload in place.
ConsumeCallback ==
    /\ cpc = "callback"
    /\ delivered' = [seq |-> viewSeq, payload |-> slotPayload[tail]]
    /\ again' = FALSE
    /\ viewSeq' = 0
    /\ cpc' = "reading"
    /\ UNCHANGED <<slots, tail, received, crashes, taken, pub>>

\* An exception of a callback that has seen the message leaves consume before
\* anything was written: the message stays where it is.
ConsumeThrows ==
    /\ cpc = "callback"
    /\ delivered' = [seq |-> viewSeq, payload |-> slotPayload[tail]]
    /\ again' = TRUE
    /\ viewSeq' = 0
    /\ cpc' = "idle"
    /\ UNCHANGED <<slots, tail, received, crashes, taken, pub>>

\* Mutant: the slot is free as soon as the callback returned.
ConsumeReadingFrees ==
    /\ cpc = "reading"
    /\ slotState' = [slotState EXCEPT ![tail] = "EMPTY"]
    /\ cpc' = "tail"
    /\ UNCHANGED <<slotSeq, slotPayload, tail, received, viewSeq, delivered, again, crashes, taken, pub>>

ConsumeReading ==
    /\ cpc = "reading"
    /\ slotState' = [slotState EXCEPT ![tail] = "READING"]
    /\ cpc' = "tail"
    /\ UNCHANGED <<slotSeq, slotPayload, tail, received, viewSeq, delivered, again, crashes, taken, pub>>

ConsumeTail ==
    /\ cpc = "tail"
    /\ tail' = Following(tail)
    /\ taken' = Append(taken, delivered)
    /\ cpc' = "empty"
    /\ UNCHANGED <<slots, received, viewSeq, delivered, again, crashes, pub>>

\* Mutant: the slot stays in state READING.
ConsumeEmptyForgotten ==
    /\ cpc = "empty"
    /\ cpc' = "count"
    /\ UNCHANGED <<slots, tail, received, viewSeq, delivered, again, crashes, taken, pub>>

\* The slot the consumer is done with is the one before tail.
ConsumeEmpty ==
    /\ cpc = "empty"
    /\ slotState' = [i \in Index |-> IF Following(i) = tail THEN "EMPTY" ELSE slotState[i]]
    /\ cpc' = "count"
    /\ UNCHANGED <<slotSeq, slotPayload, tail, received, viewSeq, delivered, again, crashes, taken, pub>>

ConsumeCount ==
    /\ cpc = "count"
    /\ received' = received + 1
    /\ cpc' = "check"
    /\ UNCHANGED <<slots, tail, viewSeq, delivered, again, crashes, taken, pub>>

\* The consuming process dies inside consume; the next one opens the channel
\* (initializeConsumer repairs nothing).  A slot whose callback returned and that
\* is not marked READING yet is handed out once more.
ConsumerDies ==
    /\ cpc # "idle"
    /\ crashes < MaxCrashes
    /\ crashes' = crashes + 1
    /\ again' = (again \/ cpc = "reading")
    /\ cpc' = "idle" /\ viewSeq' = 0
    /\ UNCHANGED <<slots, tail, received, delivered, taken, pub>>

Consume ==
    \/ ConsumeCall \/ ConsumeNothing \/ ConsumeCheck \/ ConsumeNotReady \/ ConsumeState
    \/ ConsumeCopy \/ ConsumeCallback \/ ConsumeThrows \/ ConsumeReading \/ ConsumeTail
    \/ ConsumeEmpty \/ ConsumeCount

-----------------------------------------------------------------------------
Next == Publish \/ Consume \/ ConsumerDies

Spec == Init /\ [][Next]_vars

\* A consumer calls consume again and again, and its callback does not throw for
\* ever.  Nothing is assumed of the publisher.
FairSpec == Spec /\ WF_vars(Consume) /\ SF_vars(ConsumeCallback)

-----------------------------------------------------------------------------
(* Properties *)

\* The two ways the code keeps track of a slot, its state and the two indices,
\* agree: the slots from tail up to head hold a message that is READY, except
\* that the first is READING once its callback returned.
InUse == {i \in Index : \E k \in Len(taken) .. Len(published) - 1 : i = k % BufferSize}

SlotsMatchIndices ==
    \A i \in InUse : \/ slotState[i] = "READY"
                     \/ /\ slotState[i] = "READING" /\ i = tail
                        /\ cpc = "tail" \/ crashes > 0

\* The message a callback sees is the one after the message the callback before it
\* saw: nothing is skipped, and a drop leaves no gap.  It is the same message, whole,
\* once more exactly when the callback before threw, or its consumer died between the
\* return of the callback and the store of READING.
NeverSkips ==
    [][ConsumeCallback \/ ConsumeThrows =>
           IF again THEN delivered' = delivered ELSE delivered'.seq = delivered.seq + 1]_vars

\* A publish whose payload fits fails on a full ring only, as shm_channel.hpp:82
\* says, as long as no consumer died.
DropHasReason == [][PublishSlotBusy => crashes > 0]_vars

\* The statistics of two processes never disagree by more than the message that
\* is not counted as sent yet.
StatisticsAgree == received <= sent + 1

\* The ring implements the queue of BufferSize - 1 places: what a consumer is
\* done with are the published messages, whole, in order, each once, and neither
\* death of a process breaks this.
Fifo == INSTANCE BoundedFifo WITH
            Values <- Messages, Bound <- BufferSize - 1, inp <- published, out <- taken
FifoSpec == Fifo!Spec

\* A message that was published is consumed, unless a consumer dies.
EventuallyConsumed ==
    \A k \in 1 .. MaxPublished :
        Len(published) >= k ~> (Len(taken) >= k \/ crashes > 0)
=============================================================================
