------------------------------ MODULE SignalSlot ------------------------------
(***************************************************************************)
(* include/lwipc/signal_slot.hpp: signals, the slots connected to them and *)
(* the threads that connect, disconnect and emit.  connect takes its id    *)
(* before it takes the mutex of the signal.  emit holds the mutex while it *)
(* calls the slots one by one; a slot may throw, and may operate on other  *)
(* signals, which nests a call in the one that runs it.  A Connection is a *)
(* value that callers copy: Connection::disconnect marks the caller's copy *)
(* as not valid and changes no state of the signal, and the signal ignores *)
(* such a copy.                                                            *)
(* active_count_ is written and never read: getConnectionCount counts.     *)
(***************************************************************************)
EXTENDS Naturals, Sequences, FiniteSets, SequencesExt

CONSTANTS Signals, Threads, NoThread,
          Nests,     \* <<s, r>>: the slots of s operate on r
          MaxSlots,  \* bound: calls of connect on each signal
          MaxCalls   \* bound: calls each thread makes, those of its slots included

ASSUME SignalAssumption ==
    /\ IsFiniteSet(Signals) /\ NoThread \notin Threads
    /\ MaxSlots \in Nat /\ MaxCalls \in Nat

\* Slots operate only on signals that come later in some order: with a cycle, or
\* a slot that operates on its own signal, threads wait for each other for ever.
ASSUME NestsAssumption ==
    \E rank \in [Signals -> 1 .. Cardinality(Signals)] :
        \A nest \in Nests : nest \in Signals \X Signals /\ rank[nest[1]] < rank[nest[2]]

VARIABLES slots,    \* of each signal: its SlotEntry objects, in the order of connecting
          next_id,
          mutex_,   \* of each signal: the thread that holds it
          calls,    \* of each thread: its nested calls, the innermost last
          count,    \* of each thread: calls it has made
          returned, \* history: <<signal, id>> whose connect has returned
          gone      \* history: <<signal, id>> taken back by a disconnect with a valid
                    \* Connection, or by a disconnectAll, that has returned

vars == <<slots, next_id, mutex_, calls, count, returned, gone>>

Ids == 1 .. MaxSlots

Entries == [id : Ids, valid : BOOLEAN]

\* Some copy of a Connection, perhaps one whose disconnect was called.
Connections == [id : Ids, valid : BOOLEAN]

\* A call: id is the connection it is about; index the slot an emit is at (0: the
\* call waits for the mutex); inside: that slot runs.  Histories of an emit:
\* the ids that it must call and those it has called.
Frames == [op : {"connect", "disconnect", "disconnectAll", "emit"}, signal : Signals,
           id : Ids \cup {0}, index : Nat, inside : BOOLEAN,
           owed : SUBSET Ids, called : Seq(Ids)]

IdsOf(s) == {slots[s][i].id : i \in DOMAIN slots[s]}

Emits(t, s) == \E k \in DOMAIN calls[t] :
                   calls[t][k].op = "emit" /\ calls[t][k].signal = s /\ calls[t][k].index > 0

\* Entries of one signal have distinct ids, and a mutex is held by the thread
\* whose emit has passed it.
TypeOK ==
    /\ slots \in [Signals -> Seq(Entries)]
    /\ next_id \in [Signals -> 1 .. MaxSlots + 1]
    /\ mutex_ \in [Signals -> Threads \cup {NoThread}]
    /\ calls \in [Threads -> Seq(Frames)]
    /\ count \in [Threads -> 0 .. MaxCalls]
    /\ returned \subseteq Signals \X Ids /\ gone \subseteq Signals \X Ids
    /\ \A s \in Signals :
          /\ \A i, j \in DOMAIN slots[s] : slots[s][i].id = slots[s][j].id => i = j
          /\ \A t \in Threads : mutex_[s] = t <=> Emits(t, s)

Init ==
    /\ slots = [s \in Signals |-> << >>] /\ next_id = [s \in Signals |-> 1]
    /\ mutex_ = [s \in Signals |-> NoThread]
    /\ calls = [t \in Threads |-> << >>] /\ count = [t \in Threads |-> 0]
    /\ returned = {} /\ gone = {}

-----------------------------------------------------------------------------
(* Calls *)

\* A thread calls when it is in no slot, or from inside the slot that its
\* innermost emit runs.
MayCall(t, s) ==
    /\ count[t] < MaxCalls
    /\ calls[t] # << >> => Last(calls[t]).inside /\ <<Last(calls[t]).signal, s>> \in Nests

Call(t, frame) ==
    /\ MayCall(t, frame.signal)
    /\ count' = [count EXCEPT ![t] = @ + 1]
    /\ calls' = [calls EXCEPT ![t] = Append(@, frame)]

Frame(op, s, id) ==
    [op |-> op, signal |-> s, id |-> id, index |-> 0, inside |-> FALSE, owed |-> {}, called |-> << >>]

\* The calls of the others that wait or run do not owe these ids any more.
Forgive(s, ids) ==
    [t \in Threads |-> [k \in DOMAIN calls[t] |->
        IF calls[t][k].signal = s THEN [calls[t][k] EXCEPT !.owed = @ \ ids] ELSE calls[t][k]]]

FetchAdd(s) == next_id' = [next_id EXCEPT ![s] = @ + 1]

ConnectCall(t, s) ==
    /\ next_id[s] <= MaxSlots
    /\ Call(t, Frame("connect", s, next_id[s]))
    /\ FetchAdd(s)
    /\ UNCHANGED <<slots, mutex_, returned, gone>>

\* With a copy of what connect has returned, perhaps not for the first time.
DisconnectCall(t, s, conn) ==
    /\ <<s, conn.id>> \in returned /\ conn.valid
    /\ MayCall(t, s)
    /\ count' = [count EXCEPT ![t] = @ + 1]
    /\ calls' = [Forgive(s, {conn.id}) EXCEPT ![t] = Append(@, Frame("disconnect", s, conn.id))]
    /\ UNCHANGED <<slots, next_id, mutex_, returned, gone>>

\* Connection::disconnect was called on this copy: the call returns at once.
DisconnectIgnored(t, s, conn) ==
    /\ <<s, conn.id>> \in returned /\ ~conn.valid
    /\ MayCall(t, s)
    /\ count' = [count EXCEPT ![t] = @ + 1]
    /\ UNCHANGED <<slots, next_id, mutex_, calls, returned, gone>>

DisconnectAllCall(t, s) ==
    /\ MayCall(t, s)
    /\ count' = [count EXCEPT ![t] = @ + 1]
    /\ calls' = [Forgive(s, Ids) EXCEPT ![t] = Append(@, Frame("disconnectAll", s, 0))]
    /\ UNCHANGED <<slots, next_id, mutex_, returned, gone>>

\* Nobody has begun to take these connections back.
Settled(s) ==
    {id \in Ids : /\ <<s, id>> \in returned \ gone
                  /\ \A t \in Threads : \A k \in DOMAIN calls[t] :
                        LET call == calls[t][k]
                        IN  call.signal = s => call.op # "disconnectAll" /\ (call.op = "disconnect" => call.id # id)}

EmitCall(t, s) ==
    /\ Call(t, [Frame("emit", s, 0) EXCEPT !.owed = Settled(s)])
    /\ UNCHANGED <<slots, next_id, mutex_, returned, gone>>

-----------------------------------------------------------------------------
(* connect, disconnect and disconnectAll: one critical section each *)

Waits(t, op) == calls[t] # << >> /\ Last(calls[t]).op = op /\ Last(calls[t]).index = 0

Free(s) == mutex_[s] = NoThread

Return(t) == calls' = [calls EXCEPT ![t] = Front(@)]

Connect(t) ==
    LET call == Last(calls[t]) IN
    /\ Waits(t, "connect") /\ Free(call.signal)
    /\ slots' = [slots EXCEPT ![call.signal] = Append(@, [id |-> call.id, valid |-> TRUE])]
    /\ returned' = returned \cup {<<call.signal, call.id>>}
    /\ Return(t)
    /\ UNCHANGED <<next_id, mutex_, count, gone>>

\* The entry stays in the vector.
Invalidated(entries, id) ==
    [i \in DOMAIN entries |-> [entries[i] EXCEPT !.valid = @ /\ entries[i].id # id]]

Disconnect(t) ==
    LET call == Last(calls[t]) IN
    /\ Waits(t, "disconnect") /\ Free(call.signal)
    /\ slots' = [slots EXCEPT ![call.signal] = Invalidated(@, call.id)]
    /\ gone' = gone \cup {<<call.signal, call.id>>}
    /\ Return(t)
    /\ UNCHANGED <<next_id, mutex_, count, returned>>

DisconnectAll(t) ==
    LET call == Last(calls[t]) IN
    /\ Waits(t, "disconnectAll") /\ Free(call.signal)
    /\ slots' = [slots EXCEPT ![call.signal] = << >>]
    /\ gone' = gone \cup ({call.signal} \X IdsOf(call.signal))
    /\ Return(t)
    /\ UNCHANGED <<next_id, mutex_, count, returned>>

-----------------------------------------------------------------------------
(* emit *)

SetTop(t, frame) == calls' = [calls EXCEPT ![t][Len(calls[t])] = frame]

\* Mutant: the slots are called without the mutex.
TakeNothing(t, s) == UNCHANGED mutex_

Take(t, s) == mutex_' = [mutex_ EXCEPT ![s] = t]

EmitLock(t) ==
    /\ Waits(t, "emit") /\ Free(Last(calls[t]).signal)
    /\ Take(t, Last(calls[t]).signal)
    /\ SetTop(t, [Last(calls[t]) EXCEPT !.index = 1])
    /\ UNCHANGED <<slots, next_id, count, returned, gone>>

Emitting(t) == calls[t] # << >> /\ Last(calls[t]).op = "emit" /\ Last(calls[t]).index > 0

\* Mutant: the last slot is not looked at.
ToCallNotLast(s, i) == {j \in 1 .. Len(slots[s]) - 1 : j >= i /\ slots[s][j].valid}

\* The slots of s from the i-th on that are to be called.
ToCall(s, i) == {j \in DOMAIN slots[s] : j >= i /\ slots[s][j].valid}

SlotBegins(t) ==
    LET call == Last(calls[t])
        rest == ToCall(call.signal, call.index)
    IN  /\ Emitting(t) /\ ~call.inside
        /\ \E j \in rest :
              /\ \A k \in rest : j <= k
              /\ SetTop(t, [call EXCEPT !.index = j, !.inside = TRUE,
                                        !.called = Append(@, slots[call.signal][j].id)])
        /\ UNCHANGED <<slots, next_id, mutex_, count, returned, gone>>

SlotReturns(t) ==
    /\ Emitting(t) /\ Last(calls[t]).inside
    /\ SetTop(t, [Last(calls[t]) EXCEPT !.index = @ + 1, !.inside = FALSE])
    /\ UNCHANGED <<slots, next_id, mutex_, count, returned, gone>>

\* Mutant: the exception leaves emit, and the mutex stays locked.
SlotThrowsOut(t) ==
    /\ Emitting(t) /\ Last(calls[t]).inside
    /\ Return(t)
    /\ UNCHANGED <<slots, next_id, mutex_, count, returned, gone>>

\* The exception is caught: the loop goes on as after a return.
SlotThrows(t) ==
    /\ Emitting(t) /\ Last(calls[t]).inside
    /\ SetTop(t, [Last(calls[t]) EXCEPT !.index = @ + 1, !.inside = FALSE])
    /\ UNCHANGED <<slots, next_id, mutex_, count, returned, gone>>

EmitReturns(t) ==
    LET call == Last(calls[t])
    IN  /\ Emitting(t) /\ ~call.inside
        /\ ToCall(call.signal, call.index) = {}
        /\ mutex_' = [mutex_ EXCEPT ![call.signal] = NoThread]
        /\ Return(t)
        /\ UNCHANGED <<slots, next_id, count, returned, gone>>

-----------------------------------------------------------------------------
GoOn(t) ==
    \/ Connect(t) \/ Disconnect(t) \/ DisconnectAll(t)
    \/ EmitLock(t) \/ SlotBegins(t) \/ SlotReturns(t) \/ SlotThrows(t) \/ EmitReturns(t)

Next == \E t \in Threads :
    \/ \E s \in Signals :
          \/ ConnectCall(t, s) \/ DisconnectAllCall(t, s) \/ EmitCall(t, s)
          \/ \E conn \in Connections : DisconnectCall(t, s, conn) \/ DisconnectIgnored(t, s, conn)
    \/ GoOn(t)

Spec == Init /\ [][Next]_vars

\* A call that has begun goes on: slots return or throw, and make a bounded
\* number of calls, so that a mutex that is asked for is free in the end.
FairSpec == Spec /\ \A t \in Threads : WF_vars(GoOn(t))

-----------------------------------------------------------------------------
(* Properties *)

\* Once a disconnect with a Connection that is still valid, or a disconnectAll, has
\* returned, the slot does not run and is not called any more: the caller may destroy
\* what the slot uses.  (A disconnect with a Connection whose own disconnect was called
\* takes nothing back.)
NothingAfterDisconnect ==
    \A t \in Threads : \A k \in DOMAIN calls[t] :
        calls[t][k].inside => <<calls[t][k].signal, Last(calls[t][k].called)>> \notin gone

\* An emit calls every slot whose connect had returned before the emit began and
\* that nobody has begun to disconnect with a valid Connection, whatever other slots
\* throw; it calls none twice.
EveryConnectedCalled ==
    [][\A t \in Threads :
          EmitReturns(t) =>
              LET call == Last(calls[t])
              IN  call.owed \subseteq ToSet(call.called) /\ IsInjective(call.called)]_vars

\* Calls return, provided that slots do not operate on signals in a cycle.
CallsReturn == \A t \in Threads : calls[t] # << >> ~> calls[t] = << >>
=============================================================================
