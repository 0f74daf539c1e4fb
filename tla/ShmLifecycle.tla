------------------------------ MODULE ShmLifecycle ------------------------------
(***************************************************************************)
(* The life of the handles to one channel name: ShmChannel::create, open   *)
(* and the destructor (src/shm_channel.cpp) on top of ShmSegment           *)
(* (src/shm_segment.cpp).  The name leads to at most one segment; a        *)
(* segment outlives its name while a handle maps it.  Handles come and go  *)
(* in any order and in several processes, and every access to a segment or *)
(* to the name is one step, so that an open may meet a half-made channel   *)
(* and a create the channel of somebody else.  All creators use the same   *)
(* buffer_size and payload_max.  What is in the ring is reduced to the     *)
(* number of unread messages: module ShmChannel has the rest.              *)
(***************************************************************************)
EXTENDS Naturals

CONSTANTS Handles,      \* ShmChannel objects
          MaxSegments,  \* bound: segments that exist at a time
          MaxUnread     \* buffer_size - 1

ASSUME LifecycleAssumption == MaxSegments \in Nat /\ MaxUnread \in Nat \ {0}

VARIABLES link,         \* the segment the name leads to; 0: none
          sized, named, initialized,  \* of each segment: ftruncate done; channel_name; initialized
          unread,       \* of each segment: messages in the ring
          pc, seg,      \* of each handle: its step, the segment it maps (0: none)
          is_creator,
          pending,      \* handles whose publish has tested initialized and not stored yet
          joined,       \* history: segments a create found instead of making
          left          \* history: has a handle been closed, or a create or open failed?

segments == <<sized, named, initialized, unread>>
handles == <<pc, seg, is_creator, pending>>
lifecycle == <<link, segments, handles, joined, left>>

Segments == 1 .. MaxSegments

Creating == {"truncate", "uninit", "blank", "name", "reset", "finish"}
Closing == {"destroy", "unlink", "again"}

LifecycleTypeOK ==
    /\ link \in 0 .. MaxSegments
    /\ sized \in [Segments -> BOOLEAN] /\ named \in [Segments -> BOOLEAN]
    /\ initialized \in [Segments -> BOOLEAN]
    /\ unread \in [Segments -> 0 .. MaxUnread]
    /\ pc \in [Handles -> {"free", "check", "open", "gone"} \cup Creating \cup Closing]
    /\ seg \in [Handles -> 0 .. MaxSegments]
    /\ is_creator \in [Handles -> BOOLEAN]
    /\ pending \subseteq {h \in Handles : pc[h] = "open"}
    /\ joined \subseteq Segments
    /\ left \in BOOLEAN
    /\ \A h \in Handles : pc[h] \in {"check", "open", "destroy"} \cup Creating => seg[h] # 0

LifecycleInit ==
    /\ link = 0
    /\ sized = [s \in Segments |-> FALSE]
    /\ named = [s \in Segments |-> FALSE]
    /\ initialized = [s \in Segments |-> FALSE]
    /\ unread = [s \in Segments |-> 0]
    /\ pc = [h \in Handles |-> "free"]
    /\ seg = [h \in Handles |-> 0]
    /\ is_creator = [h \in Handles |-> FALSE]
    /\ pending = {}
    /\ joined = {} /\ left = FALSE

Goto(h, step) == pc' = [pc EXCEPT ![h] = step]

Exists(s) == s = link \/ \E h \in Handles : seg[h] = s

\* A segment that has neither a name nor a mapping any more is gone: a later one
\* starts from zero bytes.
Reclaim ==
    /\ sized' = [s \in Segments |-> sized[s] /\ Exists(s)']
    /\ named' = [s \in Segments |-> named[s] /\ Exists(s)']
    /\ initialized' = [s \in Segments |-> initialized[s] /\ Exists(s)']
    /\ unread' = [s \in Segments |-> IF Exists(s)' THEN unread[s] ELSE 0]
    /\ joined' = {s \in joined : Exists(s)'}

\* The handle goes to a step in which it maps nothing.
Unmap(h, step) == Goto(h, step) /\ seg' = [seg EXCEPT ![h] = 0] /\ Reclaim

-----------------------------------------------------------------------------
(* create *)

\* Segments are alike before they are made: one will do.
NewSegment == {s \in Segments : ~Exists(s) /\ \A r \in 1 .. s - 1 : Exists(r)}

\* shm_open with O_CREAT and without O_EXCL: what is there already is taken.
CreateFinds(h) ==
    /\ link # 0
    /\ seg' = [seg EXCEPT ![h] = link]
    /\ joined' = joined \cup {link}
    /\ UNCHANGED link

\* Mutant: the name is taken away from the segment it leads to.
CreateAlwaysMakes(h) ==
    /\ link' \in NewSegment
    /\ seg' = [seg EXCEPT ![h] = link']
    /\ UNCHANGED joined

CreateMakes(h) ==
    /\ link = 0
    /\ link' \in NewSegment
    /\ seg' = [seg EXCEPT ![h] = link']
    /\ UNCHANGED joined

CreateOpen(h) ==
    /\ pc[h] = "free"
    /\ CreateFinds(h) \/ CreateMakes(h)
    /\ Goto(h, "truncate")
    /\ is_creator' = [is_creator EXCEPT ![h] = TRUE]
    /\ UNCHANGED <<sized, named, initialized, unread, pending, left>>

\* shm_open fails.
CreateNothing(h) ==
    /\ pc[h] = "free"
    /\ Goto(h, "unlink")
    /\ left' = TRUE
    /\ UNCHANGED <<link, segments, seg, is_creator, pending, joined>>

Truncate(h) ==
    /\ pc[h] = "truncate"
    /\ sized' = [sized EXCEPT ![seg[h]] = TRUE]
    /\ Goto(h, "uninit")
    /\ UNCHANGED <<link, named, initialized, unread, seg, is_creator, pending, joined, left>>

\* ftruncate or mmap fails: the channel object is destroyed at once.
CreateFails(h) ==
    /\ pc[h] \in {"truncate", "uninit"}
    /\ left' = TRUE
    /\ UNCHANGED <<link, is_creator, pending>>
    /\ Unmap(h, "unlink")

Uninitialize(h) ==
    /\ pc[h] = "uninit"
    /\ initialized' = [initialized EXCEPT ![seg[h]] = FALSE]
    /\ Goto(h, "blank")
    /\ UNCHANGED <<link, sized, named, unread, seg, is_creator, pending, joined, left>>

BlankName(h) ==
    /\ pc[h] = "blank"
    /\ named' = [named EXCEPT ![seg[h]] = FALSE]
    /\ Goto(h, "name")
    /\ UNCHANGED <<link, sized, initialized, unread, seg, is_creator, pending, joined, left>>

\* Mutant: the channel is marked as initialized before the ring is reset.
SetNameAndInitialized(h) ==
    /\ pc[h] = "name"
    /\ named' = [named EXCEPT ![seg[h]] = TRUE]
    /\ initialized' = [initialized EXCEPT ![seg[h]] = TRUE]
    /\ Goto(h, "reset")
    /\ UNCHANGED <<link, sized, unread, seg, is_creator, pending, joined, left>>

SetName(h) ==
    /\ pc[h] = "name"
    /\ named' = [named EXCEPT ![seg[h]] = TRUE]
    /\ Goto(h, "reset")
    /\ UNCHANGED <<link, sized, initialized, unread, seg, is_creator, pending, joined, left>>

\* The sizes, the indices, the counters and the states of the slots.
Reset(h) ==
    /\ pc[h] = "reset"
    /\ unread' = [unread EXCEPT ![seg[h]] = 0]
    /\ Goto(h, "finish")
    /\ UNCHANGED <<link, sized, named, initialized, seg, is_creator, pending, joined, left>>

\* Mutant: the channel is not marked as initialized.
FinishForgets(h) ==
    /\ pc[h] = "finish"
    /\ Goto(h, "open")
    /\ UNCHANGED <<link, segments, seg, is_creator, pending, joined, left>>

Finish(h) ==
    /\ pc[h] = "finish"
    /\ initialized' = [initialized EXCEPT ![seg[h]] = TRUE]
    /\ Goto(h, "open")
    /\ UNCHANGED <<link, sized, named, unread, seg, is_creator, pending, joined, left>>

-----------------------------------------------------------------------------
(* open *)

OpenFinds(h) ==
    /\ pc[h] = "free"
    /\ link # 0
    /\ seg' = [seg EXCEPT ![h] = link]
    /\ Goto(h, "check")
    /\ UNCHANGED <<link, segments, is_creator, pending, joined, left>>

\* There is no such name, or shm_open fails.  The segment object that is destroyed
\* now unlinks the name all the same, whoever has made it meanwhile.
OpenNothing(h) ==
    /\ pc[h] = "free"
    /\ Goto(h, "again")
    /\ left' = TRUE
    /\ UNCHANGED <<link, segments, seg, is_creator, pending, joined>>

\* A segment without size cannot be mapped, one without name is refused, and fstat
\* or mmap may fail on any segment.
OpenRefuses(h) ==
    /\ pc[h] = "check"
    /\ left' = TRUE
    /\ UNCHANGED <<link, is_creator, pending>>
    /\ Unmap(h, "again")

OpenSucceeds(h) ==
    /\ pc[h] = "check"
    /\ sized[seg[h]] /\ named[seg[h]]
    /\ Goto(h, "open")
    /\ UNCHANGED <<link, segments, seg, is_creator, pending, joined, left>>

-----------------------------------------------------------------------------
(* The destructors: a creator resets initialized and closes the segment in   *)
(* destroy; closing unlinks the name; the segment's own destructor closes    *)
(* again, and the name is unlinked a second time.                            *)

Close(h) ==
    /\ pc[h] = "open" /\ h \notin pending
    /\ Goto(h, IF is_creator[h] THEN "destroy" ELSE "again")
    /\ left' = TRUE
    /\ UNCHANGED <<link, segments, seg, is_creator, pending, joined>>

Destroy(h) ==
    /\ pc[h] = "destroy"
    /\ initialized' = [initialized EXCEPT ![seg[h]] = FALSE]
    /\ Goto(h, "unlink")
    /\ UNCHANGED <<link, sized, named, unread, seg, is_creator, pending, joined, left>>

Unlink(h) ==
    /\ pc[h] = "unlink"
    /\ link' = 0
    /\ Unmap(h, "again")
    /\ UNCHANGED <<is_creator, pending, left>>

UnlinkAgain(h) ==
    /\ pc[h] = "again"
    /\ link' = 0
    /\ Unmap(h, "gone")
    /\ is_creator' = [is_creator EXCEPT ![h] = FALSE]
    /\ UNCHANGED <<pending, left>>

\* The processes of these handles end without running a destructor.
Vanish(H) ==
    /\ pc' = [h \in Handles |-> IF h \in H /\ pc[h] # "free" THEN "gone" ELSE pc[h]]
    /\ seg' = [h \in Handles |-> IF h \in H THEN 0 ELSE seg[h]]
    /\ is_creator' = [h \in Handles |-> h \notin H /\ is_creator[h]]
    /\ pending' = pending \ H
    /\ UNCHANGED <<link, left>>
    /\ Reclaim

-----------------------------------------------------------------------------
(* Use of a handle *)

PublishUninitialized(h) ==
    /\ pc[h] = "open" /\ ~initialized[seg[h]]
    /\ UNCHANGED lifecycle

PublishTest(h) ==
    /\ pc[h] = "open" /\ h \notin pending
    /\ initialized[seg[h]]
    /\ pending' = pending \cup {h}
    /\ UNCHANGED <<link, segments, pc, seg, is_creator, joined, left>>

Room(s) == unread[s] < MaxUnread

PublishStore(h) ==
    /\ h \in pending
    /\ pending' = pending \ {h}
    /\ unread' = IF Room(seg[h]) THEN [unread EXCEPT ![seg[h]] = @ + 1] ELSE unread
    /\ UNCHANGED <<link, sized, named, initialized, pc, seg, is_creator, joined, left>>

ConsumeMessage(h) ==
    /\ pc[h] = "open"
    /\ initialized[seg[h]]
    /\ unread[seg[h]] > 0
    /\ unread' = [unread EXCEPT ![seg[h]] = @ - 1]
    /\ UNCHANGED <<link, sized, named, initialized, handles, joined, left>>

-----------------------------------------------------------------------------
(* Properties *)

\* A creator that met nobody else's channel keeps its own initialized, whoever
\* opens and closes.  And as long as no handle was closed and no create or open
\* has failed, every handle is on the segment the name leads to.
StillFound ==
    \A h \in Handles :
        pc[h] = "open" =>
            /\ is_creator[h] /\ seg[h] \notin joined => initialized[seg[h]]
            /\ ~left => seg[h] = link

\* Unread messages leave a channel in three ways only: they are consumed; a create that
\* found the channel of another creator resets it, never the create that made it; or the
\* channel has lost its name and its last mapping, and that takes a handle that was closed
\* or a create or open that failed: the death of processes alone loses nothing.
LossHasReason ==
    [][\A s \in Segments : unread'[s] < unread[s] =>
           \/ \E h \in Handles : ConsumeMessage(h) /\ seg[h] = s
           \/ \E h \in Handles : Reset(h) /\ seg[h] = s /\ s \in joined
           \/ left /\ ~Exists(s)']_lifecycle
=============================================================================
