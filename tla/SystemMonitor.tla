------------------------------ MODULE SystemMonitor ------------------------------
(***************************************************************************)
(* src/system_monitor.cpp: what nodes and channels report about            *)
(* themselves, and who is late.  Every operation holds mutex_ from         *)
(* beginning to end; two of them call the user's alert callback meanwhile, *)
(* and are several steps then.  A figure is over its threshold or not, a   *)
(* status is RUNNING or another; the latency of a message is a small       *)
(* number, for its extremes and its mean.  The counts of bytes go with the *)
(* counts of messages, and are left out.                                   *)
(***************************************************************************)
EXTENDS Clocks, Sequences, SequencesExt, FiniteSetsExt

CONSTANTS Nodes, Channels, Topics,
          NoThread,
          Timeouts,    \* values of heartbeat_timeout_ms
          DefaultTimeout,
          Latencies,   \* of messages; the largest is over the threshold
          Modulus,     \* 2^64: times are unsigned
          MaxSamples   \* MAX_LATENCY_SAMPLES

ASSUME MonitorAssumption ==
    /\ NoThread \notin Threads
    /\ Timeouts \subseteq Nat /\ DefaultTimeout \in Timeouts /\ Latencies \subseteq Nat \ {0} /\ Latencies # {}
    /\ Modulus \in Nat /\ Modulus > Epoch + 2 * MaxTime
    \* The clock is far from its ends.
    /\ \A timeout \in Timeouts : timeout < Epoch - 1 /\ timeout + Epoch + 2 * MaxTime < Modulus
    /\ MaxSamples \in Nat \ {0}

VARIABLES config_,
          is_running,         \* what isRunning() answers
          alert_callback_,  \* is one set?
          nodes_, channel_stats_, topic_stats_, latency_samples_,
          mutex_,     \* the thread whose alert callback runs
          alerts,     \* of each thread: the alert whose callback runs, and those after it
          reentered,  \* threads whose callback has called the monitor, and waits
          heard,      \* history, of each node: when (steady_clock) it was last heard of;
                      \* -1: it was registered without a time, and not heard of since
          shift,      \* history, of each node: how far system_clock was set forward since
          recorded    \* history: messages recorded as sent, by channel and latency

tables == <<nodes_, channel_stats_, topic_stats_, latency_samples_>>
callback == <<mutex_, alerts, reentered>>
settings == <<config_, is_running, alert_callback_>>
monitor == <<settings, tables, callback, heard, shift, recorded>>

Statuses == {"RUNNING", "STOPPED"}
Configs == [heartbeat_timeout_ms : Timeouts, enable_alerts : BOOLEAN]
NodeInfos == [status : Statuses, last_heartbeat : 0 .. Modulus - 1, cpu : 0 .. 1, memory : 0 .. 1]
ChannelStats == [sent : Nat, received : Nat, dropped : Nat, min : Nat, max : Nat, sum : Nat]
Alerts == [source : Nodes \cup Channels, measure : {"cpu", "memory", "latency"}, value : Nat]

MonitorTypeOK ==
    /\ config_ \in Configs /\ is_running \in BOOLEAN /\ alert_callback_ \in BOOLEAN
    /\ DOMAIN nodes_ \subseteq Nodes /\ \A n \in DOMAIN nodes_ : nodes_[n] \in NodeInfos
    /\ DOMAIN channel_stats_ \subseteq Channels
    /\ \A c \in DOMAIN channel_stats_ : channel_stats_[c] \in ChannelStats
    /\ DOMAIN topic_stats_ \subseteq Topics /\ \A t \in DOMAIN topic_stats_ : topic_stats_[t] \in Nat
    /\ latency_samples_ \in Seq(Latencies) /\ Len(latency_samples_) <= MaxSamples
    /\ mutex_ \in Threads \cup {NoThread}
    /\ alerts \in [Threads -> Seq(Alerts)]
    /\ \A t \in Threads : mutex_ = t <=> alerts[t] # << >>
    /\ reentered \subseteq {mutex_}
    /\ heard \in [Nodes -> -1 .. MaxTime] /\ shift \in [Nodes -> Int]
    /\ recorded \in Seq(Channels \X Latencies)

MonitorInit ==
    /\ config_ = [heartbeat_timeout_ms |-> DefaultTimeout, enable_alerts |-> TRUE]
    /\ is_running = FALSE /\ alert_callback_ = FALSE
    /\ nodes_ = << >> /\ channel_stats_ = << >> /\ topic_stats_ = << >> /\ latency_samples_ = << >>
    /\ mutex_ = NoThread /\ alerts = [t \in Threads |-> << >>] /\ reentered = {}
    /\ heard = [n \in Nodes |-> -1] /\ shift = [n \in Nodes |-> 0] /\ recorded = << >>

\* Mutant: the operation does not lock.
LockedNever == TRUE

\* The operation finds mutex_ free.
Locked == mutex_ = NoThread

Call == Locked /\ OneMoreCall

-----------------------------------------------------------------------------
(* Nodes *)

Configure(config) ==
    /\ Call
    /\ config_' = config
    /\ UNCHANGED <<is_running, alert_callback_, tables, callback, heard, shift, recorded>>

\* start and stop: nothing but isRunning() reads is_running.
SetRunning(b) ==
    /\ is_running' = b
    /\ UNCHANGED <<config_, alert_callback_, tables, callback, heard, shift, recorded>>

\* setAlertCallback takes no mutex: whoever calls it sees to it that nobody else is
\* in the monitor.
SetAlertCallback ==
    /\ mutex_ = NoThread
    /\ alert_callback_' = TRUE
    /\ UNCHANGED <<config_, is_running, tables, callback, heard, shift, recorded>>

\* The caller fills in status and last_heartbeat: the present time, or 0.  What was
\* known under the name is replaced.
RegisterNode(n, status, heartbeat) ==
    /\ Call
    /\ nodes_' = Put(nodes_, n, [status |-> status, last_heartbeat |-> heartbeat, cpu |-> 0, memory |-> 0])
    /\ heard' = [heard EXCEPT ![n] = IF heartbeat = wall THEN steady ELSE -1]
    /\ shift' = [shift EXCEPT ![n] = 0]
    /\ UNCHANGED <<settings, channel_stats_, topic_stats_, latency_samples_, callback, recorded>>

UnregisterNode(n) ==
    /\ Call
    /\ nodes_' = [m \in DOMAIN nodes_ \ {n} |-> nodes_[m]]
    /\ UNCHANGED <<settings, channel_stats_, topic_stats_, latency_samples_, callback, heard, shift, recorded>>

\* The time is read under the mutex.  Whatever the node's status was, it is RUNNING
\* now; a node that is not registered (any more) is ignored.
UpdateHeartbeat(n) ==
    /\ Call
    /\ n \in DOMAIN nodes_
    /\ nodes_' = [nodes_ EXCEPT ![n].last_heartbeat = wall, ![n].status = "RUNNING"]
    /\ heard' = [heard EXCEPT ![n] = steady] /\ shift' = [shift EXCEPT ![n] = 0]
    /\ UNCHANGED <<settings, channel_stats_, topic_stats_, latency_samples_, callback, recorded>>

Alerting == config_.enable_alerts /\ alert_callback_

\* The operation goes on to the callbacks of these alerts, or returns.
Raise(t, raised) ==
    /\ alerts' = [alerts EXCEPT ![t] = raised]
    /\ mutex_' = IF raised = << >> THEN NoThread ELSE t
    /\ UNCHANGED reentered

Alert(source, measure, value) == [source |-> source, measure |-> measure, value |-> value]

\* 1 is over the threshold.
UpdateNodeResources(t, n, cpu, memory) ==
    LET over == (IF cpu = 1 THEN <<Alert(n, "cpu", cpu)>> ELSE << >>)
                \o (IF memory = 1 THEN <<Alert(n, "memory", memory)>> ELSE << >>)
    IN  /\ Call
        /\ n \in DOMAIN nodes_
        /\ nodes_' = [nodes_ EXCEPT ![n].cpu = cpu, ![n].memory = memory]
        /\ Raise(t, IF Alerting THEN over ELSE << >>)
        /\ UNCHANGED <<settings, channel_stats_, topic_stats_, latency_samples_, heard, shift, recorded>>

-----------------------------------------------------------------------------
(* Channels and topics *)

NoStats == [sent |-> 0, received |-> 0, dropped |-> 0, min |-> 0, max |-> 0, sum |-> 0]

Stats(c) == IF c \in DOMAIN channel_stats_ THEN channel_stats_[c] ELSE NoStats

SetStats(c, stats) == channel_stats_' = Put(channel_stats_, c, stats)

\* Mutant: the first message is the one that makes the entry.
FirstMessageOfEntry(c) == c \notin DOMAIN channel_stats_

\* The entry may have been made by a message received or dropped.
FirstMessage(c) == Stats(c).sent = 0

\* The mean is kept as sum / sent: avg * (sent - 1) is the sum before.
Measured(c, latency) ==
    LET old == Stats(c)
    IN  [old EXCEPT !.sent = @ + 1,
                    !.sum = @ + latency,
                    !.min = IF FirstMessage(c) \/ latency < @ THEN latency ELSE @,
                    !.max = IF FirstMessage(c) \/ latency > @ THEN latency ELSE @]

RecordMessageSent(t, c, latency) ==
    /\ Call
    /\ SetStats(c, Measured(c, latency))
    /\ latency_samples_' =
          Append(IF Len(latency_samples_) >= MaxSamples THEN Tail(latency_samples_) ELSE latency_samples_, latency)
    /\ recorded' = Append(recorded, <<c, latency>>)
    /\ Raise(t, IF Alerting /\ latency = Max(Latencies) THEN <<Alert(c, "latency", latency)>> ELSE << >>)
    /\ UNCHANGED <<settings, nodes_, topic_stats_, heard, shift>>

RecordMessageReceived(c) ==
    /\ Call
    /\ SetStats(c, [Stats(c) EXCEPT !.received = @ + 1])
    /\ UNCHANGED <<settings, nodes_, topic_stats_, latency_samples_, callback, heard, shift, recorded>>

RecordMessageDropped(c) ==
    /\ Call
    /\ SetStats(c, [Stats(c) EXCEPT !.dropped = @ + 1])
    /\ UNCHANGED <<settings, nodes_, topic_stats_, latency_samples_, callback, heard, shift, recorded>>

\* message_count, which publish_rate_hz repeats.
UpdateTopicInfo(topic) ==
    /\ Call
    /\ topic_stats_' = Put(topic_stats_, topic, (IF topic \in DOMAIN topic_stats_ THEN topic_stats_[topic] ELSE 0) + 1)
    /\ UNCHANGED <<settings, nodes_, channel_stats_, latency_samples_, callback, heard, shift, recorded>>

-----------------------------------------------------------------------------
(* The alert callback *)

CallbackRuns(t) == alerts[t] # << >> /\ t \notin reentered

AlertReturns(t) ==
    /\ CallbackRuns(t)
    /\ Raise(t, Tail(alerts[t]))
    /\ UNCHANGED <<settings, tables, calls, heard, shift, recorded>>

\* Mutant: an exception leaves the mutex locked.
ReleaseNothing(t) == mutex_' = mutex_ /\ alerts' = [alerts EXCEPT ![t] = << >>]

Release(t) == mutex_' = NoThread /\ alerts' = [alerts EXCEPT ![t] = << >>]

\* The exception leaves the operation: the alerts that were to follow are not raised.
AlertThrows(t) ==
    /\ CallbackRuns(t)
    /\ Release(t)
    /\ UNCHANGED <<settings, tables, reentered, calls, heard, shift, recorded>>

\* The callback asks the monitor something: it waits for the mutex it is called under.
AlertCallsBack(t) ==
    /\ CallbackRuns(t)
    /\ reentered' = {t}
    /\ UNCHANGED <<settings, tables, mutex_, alerts, calls, heard, shift, recorded>>

GoOn(t) == AlertReturns(t) \/ AlertThrows(t) \/ AlertCallsBack(t)

-----------------------------------------------------------------------------
(* Queries: getNodes, getNode, getChannelStats and getTopicStats copy a table *)

\* current_time - last_heartbeat, of unsigned numbers.
Elapsed(n) == (wall - nodes_[n].last_heartbeat) % Modulus

\* Mutant: at the limit is late.
LateAtLimit(n) == Elapsed(n) >= config_.heartbeat_timeout_ms

Late(n) == Elapsed(n) > config_.heartbeat_timeout_ms

\* getTimeoutNodes and checkHealth: the status TIMEOUT is in the answer only.
Running == {n \in DOMAIN nodes_ : nodes_[n].status = "RUNNING"}
TimeoutNodes == {n \in Running : Late(n)}
Unhealthy == (DOMAIN nodes_ \ Running) \cup TimeoutNodes

\* getSystemStats: running_nodes is the size of Running.  The CPU figures of the nodes
\* are added to the messages ("placeholder").
TotalMessagesSent ==
    SumFunction([c \in DOMAIN channel_stats_ |-> channel_stats_[c].sent])
      + SumFunction([n \in DOMAIN nodes_ |-> nodes_[n].cpu])

-----------------------------------------------------------------------------
Operation(t) ==
    \/ \E config \in Configs : Configure(config)
    \/ \E n \in Nodes :
          \/ \E status \in Statuses, heartbeat \in {0, wall} : RegisterNode(n, status, heartbeat)
          \/ UnregisterNode(n) \/ UpdateHeartbeat(n)
          \/ \E cpu, memory \in 0 .. 1 : UpdateNodeResources(t, n, cpu, memory)
    \/ \E c \in Channels :
          \/ \E latency \in Latencies : RecordMessageSent(t, c, latency)
          \/ RecordMessageReceived(c) \/ RecordMessageDropped(c)
    \/ \E topic \in Topics : UpdateTopicInfo(topic)

-----------------------------------------------------------------------------
(* Properties *)

\* How long the node has been silent, as system_clock shows it.
Silence(n) == steady - heard[n] + shift[n]

\* A node that is heard of is not reported for the length of the timeout, and one
\* that is silent for longer is, until it is heard of again.  To set the clock
\* forward is silence; to set it back puts the report off, but reports the node at
\* once when the clock then stands before its last heartbeat, because times are
\* unsigned.  A node registered without a time is reported at once.
TimeoutIsSilence ==
    \A n \in Running :
        n \in Unhealthy <=> \/ heard[n] = -1
                           \/ Silence(n) > config_.heartbeat_timeout_ms
                           \/ Silence(n) < 0

Sent(c) == {i \in DOMAIN recorded : recorded[i][1] = c}
LatenciesOf(c) == {recorded[i][2] : i \in Sent(c)}

\* The statistics are those of what was recorded, whatever was recorded first, and
\* also when a callback threw: count, extremes and mean of each channel, the latest
\* samples of all, and the total, unless a node has a CPU figure.  While a callback
\* runs they hold what its alert tells.
StatisticsTellTruth ==
    /\ \A c \in Channels :
          LET stats == Stats(c)
          IN  /\ stats.sent = Cardinality(Sent(c))
              /\ stats.sent > 0 => /\ stats.min = Min(LatenciesOf(c)) /\ stats.max = Max(LatenciesOf(c))
                                   /\ stats.min * stats.sent <= stats.sum /\ stats.sum <= stats.max * stats.sent
    /\ IsSuffix(latency_samples_, [i \in DOMAIN recorded |-> recorded[i][2]])
    /\ (\A n \in DOMAIN nodes_ : nodes_[n].cpu = 0) => TotalMessagesSent = Len(recorded)
    /\ \A t \in Threads :
          alerts[t] # << >> =>
              LET alert == Head(alerts[t])
              IN  CASE alert.measure = "cpu" -> nodes_[alert.source].cpu = alert.value
                    [] alert.measure = "memory" -> nodes_[alert.source].memory = alert.value
                    [] alert.measure = "latency" -> Last(latency_samples_) = alert.value
=============================================================================
