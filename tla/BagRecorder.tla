------------------------------ MODULE BagRecorder ------------------------------
(***************************************************************************)
(* BagRecorder of src/bag_recorder.cpp and the file it writes.  Every      *)
(* operation holds the recorder's mutex and is one step.  What was written *)
(* lies in the stream's buffer and reaches the file bit by bit; the file   *)
(* may refuse it (the code tests no write), and the process may end at any *)
(* time.  All recordings go to one path.  Messages are numbered in the     *)
(* order they are recorded; per-topic counts are written and never read.   *)
(***************************************************************************)
EXTENDS Naturals, Sequences, FiniteSets

CONSTANTS Topics,
          MaxRecords,  \* bound: messages recorded
          MaxStarts    \* bound: recordings started

ASSUME RecorderAssumption == MaxRecords \in Nat /\ MaxStarts \in Nat

VARIABLES configured,  \* output_path is not empty
          topics_, header_, recording_,
          file,        \* written since the path was opened: header, topics, messages
          flushed,     \* how much of it is in the file: 1 the header, 2 the topics, 2 + n n messages
          bad,         \* a write has failed: the stream ignores the later ones
          records, starts,
          stopped,     \* history: the recording was ended by stop
          grown        \* history: a topic was added while recording

recorder == <<configured, topics_, header_, recording_, records, starts, stopped, grown>>
disk == <<file, flushed, bad>>
recorderVars == <<recorder, disk>>

Headers == [message_count : 0 .. MaxRecords, topic_count : Nat]

Files == [header : Headers, topics : SUBSET Topics, messages : Seq(1 .. MaxRecords)]

RecorderTypeOK ==
    /\ configured \in BOOLEAN /\ recording_ \in BOOLEAN
    /\ topics_ \subseteq Topics /\ IsFiniteSet(topics_) /\ header_ \in Headers
    /\ file \in Files
    /\ flushed \in 0 .. 2 + Len(file.messages)
    /\ records \in 0 .. MaxRecords /\ starts \in 0 .. MaxStarts
    /\ bad \in BOOLEAN /\ stopped \in BOOLEAN /\ grown \in BOOLEAN

NewHeader == [message_count |-> 0, topic_count |-> 0]

RecorderInit ==
    /\ configured = FALSE /\ topics_ = {} /\ header_ = NewHeader /\ recording_ = FALSE
    /\ file = [header |-> NewHeader, topics |-> {}, messages |-> << >>]
    /\ flushed = 0 /\ bad = FALSE
    /\ records = 0 /\ starts = 0 /\ stopped = FALSE /\ grown = FALSE

-----------------------------------------------------------------------------
\* A configuration without a path is kept, and refused.
Configure(path) ==
    /\ ~recording_
    /\ configured' = path
    /\ UNCHANGED <<topics_, header_, recording_, records, starts, stopped, grown, disk>>

\* Also while recording: the topics in the file stay as they are.
AddTopic(topic) ==
    /\ topic \notin topics_
    /\ topics_' = topics_ \cup {topic}
    /\ header_' = [header_ EXCEPT !.topic_count = Cardinality(topics_')]
    /\ grown' = (grown \/ recording_)
    /\ UNCHANGED <<configured, recording_, records, starts, stopped, disk>>

\* Mutant: the count of the last recording is kept.
FreshHeaderKeepsCount == [header_ EXCEPT !.topic_count = Cardinality(topics_)]

FreshHeader == [message_count |-> 0, topic_count |-> Cardinality(topics_)]

\* The path is truncated; header and topics are written.
Start ==
    /\ ~recording_ /\ configured
    /\ starts < MaxStarts
    /\ starts' = starts + 1
    /\ header_' = FreshHeader
    /\ file' = [header |-> header_', topics |-> topics_, messages |-> << >>]
    /\ flushed' = 0 /\ bad' = FALSE
    /\ recording_' = TRUE
    /\ stopped' = FALSE /\ grown' = FALSE
    /\ UNCHANGED <<configured, topics_, records>>

\* The message is written and counted, and true is returned, whether the stream
\* takes it or not.
Record ==
    /\ recording_
    /\ records < MaxRecords
    /\ records' = records + 1
    /\ file' = IF bad THEN file ELSE [file EXCEPT !.messages = Append(@, records')]
    /\ header_' = [header_ EXCEPT !.message_count = @ + 1]
    /\ UNCHANGED <<configured, topics_, recording_, starts, stopped, grown, flushed, bad>>

\* Going back to the header writes what is still in the buffer.
Stop ==
    /\ recording_
    /\ IF bad THEN UNCHANGED <<file, flushed>>
       ELSE /\ file' = [file EXCEPT !.header = header_]
            /\ flushed' = 2 + Len(file.messages)
    /\ recording_' = FALSE
    /\ stopped' = TRUE
    /\ UNCHANGED <<configured, topics_, header_, records, starts, grown, bad>>

-----------------------------------------------------------------------------
(* The stream, the disk and the process *)

Flush ==
    /\ recording_ /\ ~bad
    /\ flushed < 2 + Len(file.messages)
    /\ flushed' = flushed + 1
    /\ UNCHANGED <<recorder, file, bad>>

\* The disk is full: what has not reached the file is lost.
WriteFails ==
    /\ recording_ /\ ~bad
    /\ bad' = TRUE
    /\ file' = [file EXCEPT !.messages = SubSeq(@, 1, IF flushed < 2 THEN 0 ELSE flushed - 2)]
    /\ UNCHANGED <<recorder, flushed>>

\* Another process records with a new BagRecorder.
RecorderDies ==
    /\ recording_
    /\ configured' = FALSE /\ topics_' = {} /\ header_' = NewHeader /\ recording_' = FALSE
    /\ file' = [file EXCEPT !.messages = SubSeq(@, 1, IF flushed < 2 THEN 0 ELSE flushed - 2)]
    /\ bad' = FALSE
    /\ UNCHANGED <<records, starts, stopped, grown, flushed>>

\* Everything but Start.
RecorderGoesOn ==
    \/ \E path \in BOOLEAN : Configure(path)
    \/ \E topic \in Topics : AddTopic(topic)
    \/ Record \/ Stop \/ Flush \/ WriteFails \/ RecorderDies

-----------------------------------------------------------------------------
\* A file whose header counts messages contains exactly these; and after a stop
\* without a failed write it counts them all.  (A recording that was not stopped
\* says it has none.)
HeaderTellsTruth ==
    LET count == file.header.message_count
    IN  /\ flushed > 0 /\ count # 0 => flushed = 2 + count /\ count = Len(file.messages)
        /\ stopped /\ ~bad => count = Len(file.messages) /\ flushed = 2 + count
=============================================================================
