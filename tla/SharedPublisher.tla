---------------------------- MODULE SharedPublisher ----------------------------
(***************************************************************************)
(* src/shm_channel.cpp, used by several threads of one process through one *)
(* handle: ShmTransport::createPublisher gives every caller the handle it  *)
(* has in its map.  publish takes no lock.  Each thread works with the     *)
(* head and tail it has loaded, the slot is claimed by a compare-and-swap  *)
(* of its state, and head is stored whatever has become of it meanwhile.   *)
(* One thread of another process consumes.  Nobody dies here, payloads fit *)
(* and callbacks return: module ShmChannel has the rest, and the counters. *)
(***************************************************************************)
EXTENDS Naturals

CONSTANTS Threads,     \* that publish through the handle
          BufferSize,
          MaxCalls     \* bound: calls of publish of each thread

ASSUME BufferSizeAssumption == BufferSize \in Nat /\ BufferSize >= 1
ASSUME MaxCallsAssumption == MaxCalls \in Nat

VARIABLES slotState, slotHeader, slotPayload,  \* ShmMessageSlot
          head, tail,                          \* ShmChannelControlBlock
          localSequence,                       \* local_sequence_ of the handle
          ppc, call, headAt, counter,          \* of each thread: step, number of its call, head
                                               \* it loaded, local_sequence_ it loaded
          cpc, view,                           \* consumer: step, header in the MessageView
          accepted, delivered                  \* histories: calls that returned true; calls whose
                                               \* message a callback saw

slots == <<slotState, slotHeader, slotPayload>>
publishers == <<head, localSequence, ppc, call, headAt, counter, accepted>>
consumer == <<tail, cpc, view, delivered>>
sharedVars == <<slots, publishers, consumer>>

Index == 0 .. BufferSize - 1
Following(i) == (i + 1) % BufferSize

\* A message stands for the call it comes from: header and payload of a slot are
\* written one after the other and might come from different calls.
Calls == Threads \X (1 .. MaxCalls)
None == <<>>
This(t) == <<t, call[t]>>

Headers == [call : Calls, sequence : Nat]
NoHeader == [call |-> None, sequence |-> 0]

SharedTypeOK ==
    /\ slotState \in [Index -> {"EMPTY", "WRITING", "READY", "READING"}]
    /\ slotHeader \in [Index -> Headers \cup {NoHeader}]
    /\ slotPayload \in [Index -> Calls \cup {None}]
    /\ head \in Index /\ tail \in Index
    /\ localSequence \in Nat
    /\ ppc \in [Threads -> {"idle", "tail", "cas", "load", "store", "header", "payload", "ready", "head"}]
    /\ call \in [Threads -> 0 .. MaxCalls]
    /\ headAt \in [Threads -> Index]
    /\ counter \in [Threads -> Nat]
    /\ cpc \in {"check", "state", "copy", "callback", "reading", "tail", "empty"}
    /\ view \in Headers \cup {NoHeader}
    /\ accepted \subseteq Calls /\ delivered \subseteq Calls

SharedInit ==
    /\ slotState = [i \in Index |-> "EMPTY"]
    /\ slotHeader = [i \in Index |-> NoHeader]
    /\ slotPayload = [i \in Index |-> None]
    /\ head = 0 /\ tail = 0
    /\ localSequence = 0
    /\ ppc = [t \in Threads |-> "idle"]
    /\ call = [t \in Threads |-> 0]
    /\ headAt = [t \in Threads |-> 0]
    /\ counter = [t \in Threads |-> 0]
    /\ cpc = "check" /\ view = NoHeader
    /\ accepted = {} /\ delivered = {}

-----------------------------------------------------------------------------
(* publish *)

Step(t, from, to) == ppc[t] = from /\ ppc' = [ppc EXCEPT ![t] = to]

\* The end of a call: the locals die.
Return(t, from) ==
    /\ Step(t, from, "idle")
    /\ headAt' = [headAt EXCEPT ![t] = 0]
    /\ counter' = [counter EXCEPT ![t] = 0]

PublishLoadHead(t) ==
    /\ call[t] < MaxCalls
    /\ Step(t, "idle", "tail")
    /\ call' = [call EXCEPT ![t] = @ + 1]
    /\ headAt' = [headAt EXCEPT ![t] = head]
    /\ UNCHANGED <<slots, head, localSequence, counter, accepted, consumer>>

PublishFull(t) ==
    /\ Following(headAt[t]) = tail
    /\ Return(t, "tail")
    /\ UNCHANGED <<slots, head, localSequence, call, accepted, consumer>>

PublishLoadTail(t) ==
    /\ Following(headAt[t]) # tail
    /\ Step(t, "tail", "cas")
    /\ UNCHANGED <<slots, head, localSequence, call, headAt, counter, accepted, consumer>>

\* Mutant: the slot is claimed in whatever state it is.
ClaimableAlways(i) == TRUE

Claimable(i) == slotState[i] = "EMPTY"

PublishCas(t) ==
    /\ Claimable(headAt[t])
    /\ Step(t, "cas", "load")
    /\ slotState' = [slotState EXCEPT ![headAt[t]] = "WRITING"]
    /\ UNCHANGED <<slotHeader, slotPayload, head, localSequence, call, headAt, counter, accepted, consumer>>

PublishSlotBusy(t) ==
    /\ ~Claimable(headAt[t])
    /\ Return(t, "cas")
    /\ UNCHANGED <<slots, head, localSequence, call, accepted, consumer>>

\* ++local_sequence_ is a load and a store of a variable that is not atomic.
PublishLoadSequence(t) ==
    /\ Step(t, "load", "store")
    /\ counter' = [counter EXCEPT ![t] = localSequence]
    /\ UNCHANGED <<slots, head, localSequence, call, headAt, accepted, consumer>>

PublishStoreSequence(t) ==
    /\ Step(t, "store", "header")
    /\ localSequence' = counter[t] + 1
    /\ UNCHANGED <<slots, head, call, headAt, counter, accepted, consumer>>

\* The number is what was stored, or what the variable holds when it is read again.
PublishHeader(t) ==
    /\ Step(t, "header", "payload")
    /\ \E n \in {counter[t] + 1, localSequence} :
          slotHeader' = [slotHeader EXCEPT ![headAt[t]] = [call |-> This(t), sequence |-> n]]
    /\ UNCHANGED <<slotState, slotPayload, head, localSequence, call, headAt, counter, accepted, consumer>>

PublishPayload(t) ==
    /\ Step(t, "payload", "ready")
    /\ slotPayload' = [slotPayload EXCEPT ![headAt[t]] = This(t)]
    /\ UNCHANGED <<slotState, slotHeader, head, localSequence, call, headAt, counter, accepted, consumer>>

PublishReady(t) ==
    /\ Step(t, "ready", "head")
    /\ slotState' = [slotState EXCEPT ![headAt[t]] = "READY"]
    /\ UNCHANGED <<slotHeader, slotPayload, head, localSequence, call, headAt, counter, accepted, consumer>>

\* head may have moved on since this thread loaded it: it moves back.
PublishHead(t) ==
    /\ Return(t, "head")
    /\ head' = Following(headAt[t])
    /\ accepted' = accepted \cup {This(t)}
    /\ UNCHANGED <<slots, localSequence, call, consumer>>

Publish(t) ==
    \/ PublishLoadHead(t) \/ PublishFull(t) \/ PublishLoadTail(t) \/ PublishCas(t) \/ PublishSlotBusy(t)
    \/ PublishLoadSequence(t) \/ PublishStoreSequence(t) \/ PublishHeader(t) \/ PublishPayload(t)
    \/ PublishReady(t) \/ PublishHead(t)

-----------------------------------------------------------------------------
(* consume, called again and again *)

ConsumerStep(from, to) == cpc = from /\ cpc' = to

\* There is nothing (tail = head): consume returns, and is called again.
ConsumeCheck ==
    /\ ConsumerStep("check", "state")
    /\ tail # head
    /\ UNCHANGED <<slots, tail, view, delivered, publishers>>

\* Mutant: the consumer trusts the indices and does not look at the state.
ConsumableAlways(i) == TRUE

Consumable(i) == slotState[i] = "READY"

ConsumeNotReady ==
    /\ ConsumerStep("state", "check")
    /\ ~Consumable(tail)
    /\ UNCHANGED <<slots, tail, view, delivered, publishers>>

ConsumeState ==
    /\ ConsumerStep("state", "copy")
    /\ Consumable(tail)
    /\ UNCHANGED <<slots, tail, view, delivered, publishers>>

ConsumeCopy ==
    /\ ConsumerStep("copy", "callback")
    /\ view' = slotHeader[tail]
    /\ UNCHANGED <<slots, tail, delivered, publishers>>

ConsumeCallback ==
    /\ ConsumerStep("callback", "reading")
    /\ delivered' = delivered \cup {slotPayload[tail]}
    /\ UNCHANGED <<slots, tail, view, publishers>>

ConsumeReading ==
    /\ ConsumerStep("reading", "tail")
    /\ slotState' = [slotState EXCEPT ![tail] = "READING"]
    /\ view' = NoHeader
    /\ UNCHANGED <<slotHeader, slotPayload, tail, delivered, publishers>>

ConsumeTail ==
    /\ ConsumerStep("tail", "empty")
    /\ tail' = Following(tail)
    /\ UNCHANGED <<slots, view, delivered, publishers>>

\* The slot the consumer is done with is the one before tail.
ConsumeEmpty ==
    /\ ConsumerStep("empty", "check")
    /\ slotState' = [i \in Index |-> IF Following(i) = tail THEN "EMPTY" ELSE slotState[i]]
    /\ UNCHANGED <<slotHeader, slotPayload, tail, view, delivered, publishers>>

Consume ==
    \/ ConsumeCheck \/ ConsumeNotReady \/ ConsumeState \/ ConsumeCopy \/ ConsumeCallback
    \/ ConsumeReading \/ ConsumeTail \/ ConsumeEmpty

-----------------------------------------------------------------------------
SharedNext == Consume \/ \E t \in Threads : Publish(t)

SharedSpec == SharedInit /\ [][SharedNext]_sharedVars

-----------------------------------------------------------------------------
(* Properties *)

Whole(i) == slotHeader[i].call = slotPayload[i]

\* No message is overwritten, however the threads overtake each other: a call that
\* returned true has been delivered, or its message lies whole and READY in one
\* slot.  (It may lie there for ever: the consumer goes by the indices.)
AcceptedIsKept ==
    \A m \in accepted \ delivered :
        \E i \in Index : /\ slotState[i] = "READY" /\ Whole(i) /\ slotPayload[i] = m
                         /\ \A j \in Index \ {i} : slotState[j] = "READY" => slotPayload[j] # m

\* A callback sees header and payload of one call, and every call once at most,
\* whatever head says.
WholeAndOnce ==
    [][ConsumeCallback => view.call = slotPayload[tail] /\ slotPayload[tail] \notin delivered]_sharedVars
=============================================================================
