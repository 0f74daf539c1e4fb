------------------------------ MODULE ShmTransport ------------------------------
(***************************************************************************)
(* The ShmTransport of src/shm_channel.cpp in several processes that use   *)
(* one channel name: each keeps the handle it got for the name in a map,   *)
(* gives it to every user that asks, and creates or opens it under its     *)
(* mutex when the map has none.  Handles are shared_ptr: the last user, or *)
(* the map, closes them.  The handles live as in module ShmLifecycle.      *)
(***************************************************************************)
EXTENDS ShmLifecycle

CONSTANTS Processes,
          Owner,        \* the process of each handle
          NoHandle,
          MaxUsers,     \* bound: users of a handle at a time
          MaxDeaths     \* bound: processes that die

ASSUME OwnerAssumption == Owner \in [Handles -> Processes] /\ NoHandle \notin Handles
ASSUME UsersAssumption == MaxUsers \in Nat \ {0} /\ MaxDeaths \in Nat

VARIABLES channels,   \* of each process: the handle its map holds
          mutex,      \* of each process: the handle being made or closed under mutex_
          users,      \* of each handle: who else holds its shared_ptr
          deaths

manager == <<channels, mutex, users, deaths>>
transportVars == <<lifecycle, manager>>

TransportTypeOK ==
    /\ LifecycleTypeOK
    /\ channels \in [Processes -> Handles \cup {NoHandle}]
    /\ mutex \in [Processes -> Handles \cup {NoHandle}]
    /\ users \in [Handles -> 0 .. MaxUsers]
    /\ deaths \in 0 .. MaxDeaths

TransportInit ==
    /\ LifecycleInit
    /\ channels = [p \in Processes |-> NoHandle]
    /\ mutex = [p \in Processes |-> NoHandle]
    /\ users = [h \in Handles |-> 0]
    /\ deaths = 0

Unlocked(p) == mutex[p] = NoHandle

Known(p) == channels[p] # NoHandle

Lock(h) == mutex' = [mutex EXCEPT ![Owner[h]] = h]
Unlock(h) == mutex' = [mutex EXCEPT ![Owner[h]] = IF @ = h THEN NoHandle ELSE @]

-----------------------------------------------------------------------------
\* createPublisher and createSubscriber when the map has the name.
CreateKnown(p) ==
    /\ Unlocked(p) /\ Known(p)
    /\ users[channels[p]] < MaxUsers
    /\ users' = [users EXCEPT ![channels[p]] = @ + 1]
    /\ UNCHANGED <<lifecycle, channels, mutex, deaths>>

CreatePublisher(h) ==
    /\ Unlocked(Owner[h]) /\ ~Known(Owner[h])
    /\ CreateOpen(h) \/ CreateNothing(h)
    /\ Lock(h)
    /\ UNCHANGED <<channels, users, deaths>>

CreateSubscriber(h) ==
    /\ Unlocked(Owner[h]) /\ ~Known(Owner[h])
    /\ OpenFinds(h) \/ OpenNothing(h)
    /\ Lock(h)
    /\ UNCHANGED <<channels, users, deaths>>

\* A step of create or open that is not the last.
Construct(h) ==
    /\ \/ Truncate(h) \/ CreateFails(h) \/ Uninitialize(h) \/ BlankName(h) \/ SetName(h)
       \/ Reset(h) \/ OpenRefuses(h)
    /\ UNCHANGED manager

\* The handle is ready: it goes into the map and to whoever asked for it.
Register(h) ==
    /\ Finish(h) \/ OpenSucceeds(h)
    /\ channels' = [channels EXCEPT ![Owner[h]] = h]
    /\ users' = [users EXCEPT ![h] = 1]
    /\ Unlock(h)
    /\ UNCHANGED deaths

\* destroyChannel: the handle is closed under the mutex if nobody else has it.
DestroyChannel(p) ==
    LET h == channels[p]
    IN  /\ Unlocked(p) /\ Known(p)
        /\ channels' = [channels EXCEPT ![p] = NoHandle]
        /\ IF users[h] = 0 THEN Close(h) /\ Lock(h) ELSE UNCHANGED <<lifecycle, mutex>>
        /\ UNCHANGED <<users, deaths>>

\* A user drops its shared_ptr, outside any publish of its own.
Release(h) ==
    /\ users[h] > 0
    /\ users[h] = 1 => h \notin pending
    /\ users' = [users EXCEPT ![h] = @ - 1]
    /\ IF users[h] = 1 /\ channels[Owner[h]] # h THEN Close(h) ELSE UNCHANGED lifecycle
    /\ UNCHANGED <<channels, mutex, deaths>>

Destruct(h) ==
    /\ Destroy(h) \/ Unlink(h)
    /\ UNCHANGED manager

\* The destructor ends, and with it a failed create or open, or destroyChannel.
DestructEnds(h) ==
    /\ UnlinkAgain(h)
    /\ Unlock(h)
    /\ UNCHANGED <<channels, users, deaths>>

Use(h) ==
    /\ users[h] > 0
    /\ PublishUninitialized(h) \/ PublishTest(h) \/ PublishStore(h) \/ ConsumeMessage(h)
    /\ UNCHANGED manager

ProcessDies(p) ==
    /\ deaths < MaxDeaths
    /\ deaths' = deaths + 1
    /\ Vanish({h \in Handles : Owner[h] = p})
    /\ channels' = [channels EXCEPT ![p] = NoHandle]
    /\ mutex' = [mutex EXCEPT ![p] = NoHandle]
    /\ users' = [h \in Handles |-> IF Owner[h] = p THEN 0 ELSE users[h]]

-----------------------------------------------------------------------------
GoOn(h) == Construct(h) \/ Register(h) \/ Destruct(h) \/ DestructEnds(h)

TransportNext ==
    \/ \E p \in Processes : CreateKnown(p) \/ DestroyChannel(p) \/ ProcessDies(p)
    \/ \E h \in Handles :
          CreatePublisher(h) \/ CreateSubscriber(h) \/ GoOn(h) \/ Release(h) \/ Use(h)

TransportSpec == TransportInit /\ [][TransportNext]_transportVars

\* A create, open or destructor that has begun goes on.
TransportFairSpec == TransportSpec /\ \A h \in Handles : WF_transportVars(GoOn(h))

-----------------------------------------------------------------------------
(* Properties *)

\* waitForInitialization: a handle that was opened sees the channel initialized
\* in the end, unless a handle is closed, a create or open fails, or a process dies.
OpenedGetsReady ==
    \A h \in Handles :
        pc[h] = "open" ~> ((pc[h] = "open" /\ initialized[seg[h]]) \/ left \/ deaths > 0)
=============================================================================
