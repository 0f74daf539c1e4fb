------------------------------- MODULE BagPlayer -------------------------------
(***************************************************************************)
(* BagPlayer of src/bag_recorder.cpp, reading what module BagRecorder      *)
(* writes, perhaps while it is being written.  play releases the mutex     *)
(* while it waits for the time of a message and while the callback runs,   *)
(* and does not look whether another play is under way: two of them read   *)
(* the file by turns.  The other operations come from other threads, or    *)
(* from the callback, at any of these points.  open calls close, which     *)
(* locks the mutex that open holds: undefined behaviour.  Where mutexes    *)
(* are real the thread waits for itself; where locking does nothing        *)
(* (programs linked without threads) it goes on.  The model has both.      *)
(* Once a path is open in the player it is not recorded anew.  topics_ and *)
(* header_ of the player are only shown to the user.                       *)
(***************************************************************************)
EXTENDS BagRecorder

CONSTANTS Players,             \* threads that call play
          MaxOpens, MaxPlays,  \* bounds: calls of open and of play
          MaxSessions          \* bound: calls of open and recordings together

ASSUME PlayerAssumption ==
    /\ IsFiniteSet(Players)
    /\ MaxOpens \in Nat /\ MaxPlays \in Nat /\ MaxSessions \in Nat

VARIABLES is_open, good,     \* file_: is_open(), good()
          position,          \* messages read since open
          misaligned,        \* messages were taken for topics: what is read is garbage
          playing_, paused_,
          stuck,             \* open waits for itself, holding the mutex
          pc,                \* of the threads that play
          message,           \* the messages they have read
          opens, plays,
          delivered,         \* history: messages the callback got since open
          interrupted,       \* history: since open, pause or stop was called, or one of
                             \* two plays ended
          shared,            \* history: since open, two plays were under way at once
          quiet, late        \* history: stop, pause or close returned and nothing asked to go on;
                             \* callbacks that began since

stream == <<is_open, good, position, misaligned>>
playback == <<playing_, paused_, pc, message, plays>>
history == <<delivered, interrupted, shared, quiet, late>>
player == <<stream, playback, stuck, opens, history>>
bagVars == <<recorderVars, player>>

\* Values of message besides the numbers of recorded messages.
None == 0
Garbage == MaxRecords + 1
OfEarlierOpen == MaxRecords + 2

Steps == {"idle", "loop", "delay", "calling", "inside"}

PlayerTypeOK ==
    /\ is_open \in BOOLEAN /\ good \in BOOLEAN /\ misaligned \in BOOLEAN
    /\ position \in 0 .. MaxRecords
    /\ playing_ \in BOOLEAN /\ paused_ \in BOOLEAN /\ stuck \in BOOLEAN
    /\ pc \in [Players -> Steps]
    /\ message \in [Players -> 0 .. MaxRecords + 2]
    /\ opens \in 0 .. MaxOpens /\ plays \in 0 .. MaxPlays
    /\ delivered \in Seq(1 .. MaxRecords + 1)
    /\ interrupted \in BOOLEAN /\ shared \in BOOLEAN /\ quiet \in BOOLEAN /\ late \in Nat
    /\ playing_ => is_open

BagTypeOK == RecorderTypeOK /\ PlayerTypeOK

BagInit ==
    /\ RecorderInit
    /\ is_open = FALSE /\ good = FALSE /\ position = 0 /\ misaligned = FALSE
    /\ playing_ = FALSE /\ paused_ = FALSE /\ stuck = FALSE
    /\ pc = [p \in Players |-> "idle"] /\ message = [p \in Players |-> None]
    /\ opens = 0 /\ plays = 0
    /\ delivered = << >> /\ interrupted = FALSE /\ shared = FALSE /\ quiet = FALSE /\ late = 0

\* What the reader finds: how many messages lie in the file.
Readable == IF flushed < 2 THEN 0 ELSE flushed - 2

Quieten == quiet' = TRUE /\ late' = IF quiet THEN late ELSE 0

-----------------------------------------------------------------------------
(* open and close *)

ClearFlags == playing_' = FALSE /\ paused_' = FALSE

OpenDeadlocks ==
    /\ ~stuck /\ opens < MaxOpens /\ opens + starts < MaxSessions
    /\ opens' = opens + 1
    /\ stuck' = TRUE
    /\ UNCHANGED <<recorderVars, stream, playback, history>>

\* Only a part of the topics has reached the file.
TopicsCut == flushed = 1 /\ file.topics # {}

\* Header and topics are read.  Without a header the file is closed again.  When
\* the header counts more topics than the file has, messages are taken for
\* topics; when the topics are cut off, nothing can be read any more.
Open ==
    /\ ~stuck /\ opens < MaxOpens /\ opens + starts < MaxSessions
    /\ opens' = opens + 1
    /\ is_open' = (flushed > 0)
    /\ misaligned' = (flushed > 0 /\ file.header.topic_count > Cardinality(file.topics))
    /\ IF misaligned' THEN good' \in BOOLEAN ELSE good' = (is_open' /\ ~TopicsCut)
    /\ position' = 0
    /\ ClearFlags
    /\ message' = [p \in Players |-> IF pc[p] = "idle" THEN None ELSE OfEarlierOpen]
    /\ delivered' = << >> /\ interrupted' = FALSE /\ shared' = FALSE
    /\ Quieten
    /\ UNCHANGED <<recorderVars, stuck, pc, plays>>

Close ==
    /\ ~stuck
    /\ is_open' = FALSE
    /\ ClearFlags
    /\ Quieten
    /\ UNCHANGED <<recorderVars, good, position, misaligned, stuck, pc, message, opens, plays, delivered, interrupted, shared>>

-----------------------------------------------------------------------------
(* play *)

Goto(p, step) == pc' = [pc EXCEPT ![p] = step]
Hold(p, m) == message' = [message EXCEPT ![p] = m]

OthersPlay(p) == \E q \in Players \ {p} : pc[q] # "idle"

Play(p) ==
    /\ ~stuck /\ pc[p] = "idle"
    /\ is_open
    /\ plays < MaxPlays
    /\ plays' = plays + 1
    /\ playing_' = TRUE /\ paused_' = FALSE
    /\ Goto(p, "loop")
    /\ quiet' = FALSE
    /\ shared' = (shared \/ OthersPlay(p))
    /\ UNCHANGED <<recorderVars, stream, message, stuck, opens, delivered, interrupted, late>>

\* Another play ends with this one.
PlayEnds(p) ==
    /\ playing_' = FALSE
    /\ Goto(p, "idle")
    /\ Hold(p, None)
    /\ interrupted' = (interrupted \/ OthersPlay(p))
    /\ UNCHANGED <<recorderVars, is_open, position, misaligned, paused_, stuck, opens, plays,
                   delivered, shared, quiet, late>>

\* Mutant: a paused playback looks at paused_ only.
GoesOnWhilePaused == paused_ \/ (playing_ /\ good)

GoesOn == playing_ /\ good

\* While paused, the loop sleeps and looks again: nothing changes.
LoopEnds(p) ==
    /\ ~stuck /\ pc[p] = "loop"
    /\ ~GoesOn
    /\ UNCHANGED good
    /\ PlayEnds(p)

\* Mutant: pause is not looked at.
MayReadPaused == GoesOn

MayRead == GoesOn /\ ~paused_

\* The message must wait for its time, or it is late already.
Read(p) ==
    /\ ~stuck /\ pc[p] = "loop" /\ MayRead
    /\ \/ position < Readable /\ ~misaligned /\ Hold(p, file.messages[position + 1])
       \/ position < Readable /\ misaligned /\ Hold(p, Garbage)
    /\ position' = position + 1
    /\ Goto(p, "delay") \/ Goto(p, "calling")
    /\ UNCHANGED <<recorderVars, is_open, good, misaligned, playing_, paused_, stuck, opens, plays, history>>

\* The file ends, perhaps in the middle of a message.
ReadFails(p) ==
    /\ ~stuck /\ pc[p] = "loop" /\ MayRead
    /\ position = Readable \/ misaligned
    /\ good' = FALSE
    /\ PlayEnds(p)

DelayEnds(p) ==
    /\ ~stuck /\ pc[p] = "delay" /\ playing_ /\ ~paused_
    /\ Goto(p, "calling")
    /\ UNCHANGED <<recorderVars, stream, playing_, paused_, message, plays, stuck, opens, history>>

\* Mutant: a playback that was not paused goes on with the next message, too.
DelayDropsAlways == TRUE

DelayDrops == paused_

\* The message in hand is dropped.
DelayPaused(p) ==
    /\ ~stuck /\ pc[p] = "delay" /\ playing_ /\ DelayDrops
    /\ Goto(p, "loop")
    /\ Hold(p, None)
    /\ UNCHANGED <<recorderVars, stream, playing_, paused_, plays, stuck, opens, history>>

DelayStopped(p) ==
    /\ ~stuck /\ pc[p] = "delay" /\ ~playing_
    /\ UNCHANGED good
    /\ PlayEnds(p)

\* Outside the mutex: whatever was called meanwhile.
CallbackBegins(p) ==
    /\ pc[p] = "calling"
    /\ Goto(p, "inside")
    /\ delivered' = IF message[p] = OfEarlierOpen THEN delivered ELSE Append(delivered, message[p])
    /\ late' = IF quiet THEN late + 1 ELSE late
    /\ UNCHANGED <<recorderVars, stream, playing_, paused_, message, plays, stuck, opens, interrupted, shared, quiet>>

CallbackReturns(p) ==
    /\ ~stuck /\ pc[p] = "inside"
    /\ Goto(p, "loop")
    /\ Hold(p, None)
    /\ UNCHANGED <<recorderVars, stream, playing_, paused_, plays, stuck, opens, history>>

\* play ends with the exception and leaves playing_ as it is.
CallbackThrows(p) ==
    /\ pc[p] = "inside"
    /\ Goto(p, "idle")
    /\ Hold(p, None)
    /\ UNCHANGED <<recorderVars, stream, playing_, paused_, plays, stuck, opens, history>>

-----------------------------------------------------------------------------
(* stop, pause and resume *)

StopPlaying ==
    /\ ~stuck
    /\ playing_' = FALSE
    /\ interrupted' = TRUE
    /\ Quieten
    /\ UNCHANGED <<recorderVars, stream, paused_, pc, message, plays, stuck, opens, delivered, shared>>

Pause ==
    /\ ~stuck
    /\ paused_' = TRUE
    /\ interrupted' = TRUE
    /\ Quieten
    /\ UNCHANGED <<recorderVars, stream, playing_, pc, message, plays, stuck, opens, delivered, shared>>

Resume ==
    /\ ~stuck
    /\ paused_' = FALSE
    /\ quiet' = (quiet /\ ~playing_)
    /\ UNCHANGED <<recorderVars, stream, playing_, pc, message, plays, stuck, opens, delivered, interrupted, shared, late>>

-----------------------------------------------------------------------------
Playback(p) ==
    \/ LoopEnds(p) \/ Read(p) \/ ReadFails(p)
    \/ DelayEnds(p) \/ DelayPaused(p) \/ DelayStopped(p)
    \/ CallbackBegins(p) \/ CallbackReturns(p) \/ CallbackThrows(p)

BagNext ==
    \/ RecorderGoesOn /\ UNCHANGED player
    \/ ~is_open /\ opens + starts < MaxSessions /\ Start /\ UNCHANGED player
    \/ Open \/ OpenDeadlocks \/ Close \/ StopPlaying \/ Pause \/ Resume
    \/ \E p \in Players : Play(p) \/ Playback(p)

BagSpec == BagInit /\ [][BagNext]_bagVars

\* The threads that play go on: callbacks return or throw.
BagFairSpec == BagSpec /\ \A p \in Players : WF_bagVars(Playback(p))

-----------------------------------------------------------------------------
(* Properties *)

\* What is played is what was recorded, nothing twice, also when the recording
\* failed, was not stopped or goes on, and when two plays share the file; in the
\* order it was recorded, unless they do.  Nothing is left out before the end unless
\* playback was paused or stopped, or one of two plays ended: that drops the
\* message that waits for its time.  A topic added while recording voids this.
PlayedIsRecorded ==
    is_open /\ ~grown =>
        LET read == {file.messages[i] : i \in 1 .. position}
            inHand == {message[p] : p \in {q \in Players : pc[q] # "inside"}} \cap 1 .. MaxRecords
        IN  /\ \A i, j \in DOMAIN delivered :
                  i < j => /\ delivered[i] # delivered[j]
                           /\ shared \/ delivered[i] < delivered[j]
            /\ \A i \in DOMAIN delivered : delivered[i] \in read
            /\ ~interrupted /\ playing_ => read \subseteq inHand \cup {delivered[i] : i \in DOMAIN delivered}

\* Once stop, pause or close has returned, one callback of each thread at most
\* begins before somebody calls play or resume.
QuietAfterStop == late <= Cardinality(Players)

\* Each play comes to an end: at the end of the file or after a stop, paused or not,
\* unless it is paused or a call of open holds the mutex for ever.
PlayReturns == \A p \in Players : pc[p] # "idle" ~> pc[p] = "idle" \/ (playing_ /\ paused_) \/ stuck
=============================================================================
