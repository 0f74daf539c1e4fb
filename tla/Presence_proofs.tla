---------------------------- MODULE Presence_proofs ----------------------------
(***************************************************************************)
(* Proofs about the components that tell who is there.                     *)
(*                                                                         *)
(* ServiceDiscovery, for any number of processes, channels, datagrams and  *)
(* deaths: a service is reported once for each time it appears, and no     *)
(* listener outlives Stop.                                                 *)
(*                                                                         *)
(* Supervisor, the two monitors on one pair of clocks: its type invariant  *)
(* and the three safety invariants of its run, for every number of         *)
(* threads, peers, nodes, channels, calls and settings of the clock.  The  *)
(* inductive invariant SupervisorInv has a part for each promise: what is  *)
(* stored of a peer lies between its last undisturbed call and its last    *)
(* call (BeatInv); a node's time lies as far behind system_clock as the    *)
(* node was heard of by steady_clock, but for what system_clock has been   *)
(* set by since (HeardInv); the tables are those of the messages recorded  *)
(* (StatsInv); and the alerts that wait to be raised still tell what the   *)
(* tables hold, as nobody writes them meanwhile (AlertInv).                *)
(***************************************************************************)
EXTENDS ServiceDiscovery, Supervisor, FiniteSetTheorems, WellFoundedInduction, TLAPS

-----------------------------------------------------------------------------
(* ServiceDiscovery *)

\* What a socket or a listener holds has been sent, to a node of the group.
OnlyWhatWasSent ==
    \A n \in Processes :
        /\ \A i \in DOMAIN inbox[n] : inbox[n][i] \in network
        /\ listener[n] = "process" => hand[n] \in network

\* A node that announces or has announced a service has it in its table, or has
\* removed it since and has not been told of it again, or announced it before it
\* died and has not been told of it since.
OwnAccounted ==
    \A n \in Processes : \A c \in ChannelNames :
        \/ services[n][c][n] > 0
        \/ found[n][c][n] < forgot[n][c][n] + IF n \in died THEN 1 ELSE 0
        \/ announcing[n] # c /\ [node |-> n, channel |-> c] \notin network

IndInv == TypeOK /\ OnlyWhatWasSent /\ OwnAccounted /\ FoundOnce /\ QuietAfterStop

Tables == [Processes -> PerService(Nat)]

\* T1 differs from T in the entry of c and m in the table of n, which is v.
Changed(T1, T, n, c, m, v) ==
    /\ T1 \in Tables
    /\ \A n2, m2 \in Processes : \A c2 \in ChannelNames :
          T1[n2][c2][m2] = IF n2 = n /\ c2 = c /\ m2 = m THEN v ELSE T[n2][c2][m2]

LEMMA ExceptChanges ==
  ASSUME NEW T \in Tables, NEW n \in Processes, NEW c \in ChannelNames, NEW m \in Processes, NEW v \in Nat,
         NEW T1, T1 = [T EXCEPT ![n][c][m] = v]
  PROVE  Changed(T1, T, n, c, m, v)
<1> DEFINE row == [T[n][c] EXCEPT ![m] = v]
           rows == [T[n] EXCEPT ![c] = row]
           all == [T EXCEPT ![n] = rows]
<1>1. T[n] \in PerService(Nat) /\ T[n][c] \in [Processes -> Nat]
  BY DEF Tables, PerService
<1>2. row \in [Processes -> Nat] /\ \A m2 \in Processes : row[m2] = IF m2 = m THEN v ELSE T[n][c][m2]
  BY <1>1
<1>3. rows \in PerService(Nat) /\ \A c2 \in ChannelNames : rows[c2] = IF c2 = c THEN row ELSE T[n][c2]
  BY <1>1, <1>2 DEF PerService
<1>4. all \in Tables /\ \A n2 \in Processes : all[n2] = IF n2 = n THEN rows ELSE T[n2]
  BY <1>3 DEF Tables
<1>5. \A n2, m2 \in Processes : \A c2 \in ChannelNames :
         all[n2][c2][m2] = IF n2 = n /\ c2 = c /\ m2 = m THEN v ELSE T[n2][c2][m2]
  <2> HIDE DEF row, rows, all
  <2> QED BY <1>2, <1>3, <1>4
<1>6. T1 = all
  OBVIOUS
<1> HIDE DEF all
<1>7. Changed(all, T, n, c, m, v)
  BY <1>4, <1>5 DEF Changed
<1> QED BY <1>6, <1>7

LEMMA TablesHoldNumbers ==
  ASSUME IndInv
  PROVE  /\ services \in Tables /\ found \in Tables /\ forgot \in Tables
         /\ \A c \in ChannelNames, n, m \in Processes :
               services[n][c][m] \in Nat /\ forgot[n][c][m] \in Nat /\ found[n][c][m] \in Nat
<1>1. services \in Tables /\ found \in Tables /\ forgot \in Tables
  BY DEF IndInv, TypeOK, Tables
<1> QED BY <1>1 DEF Tables, PerService

LEMMA InitIndInv == Init => IndInv
  BY DiscoveryAssumption
  DEF Init, IndInv, TypeOK, OnlyWhatWasSent, OwnAccounted, FoundOnce, QuietAfterStop, PerService, NoEntries, Announcements

LEMMA StepIndInv == IndInv /\ [Next]_vars => IndInv'
<1> SUFFICES ASSUME IndInv, [Next]_vars PROVE IndInv'
  OBVIOUS
<1> USE DiscoveryAssumption
<1>1. ASSUME NEW n \in Processes, NEW c \in ChannelNames, RegisterService(n, c) PROVE IndInv'
  <2> USE <1>1 DEF RegisterService, flags, MutexFree
  <2>0. Changed(services', services, n, c, n, services[n][c][n] + 1) /\ services[n][c][n] \in Nat
    <3>1. services \in Tables /\ services[n][c][n] \in Nat /\ services[n][c][n] + 1 \in Nat
      BY TablesHoldNumbers
    <3>2. services' = [services EXCEPT ![n][c][n] = services[n][c][n] + 1]
      OBVIOUS
    <3>3. Changed(services', services, n, c, n, services[n][c][n] + 1)
      BY <3>1, <3>2, ExceptChanges
    <3> QED BY <3>1, <3>3
  <2>1. TypeOK'
    <3>1. services' \in [Processes -> PerService(Nat)]
      BY <2>0 DEF Changed, Tables
    <3> QED BY <3>1 DEF IndInv, TypeOK
  <2>2. OnlyWhatWasSent'
    BY DEF IndInv, OnlyWhatWasSent
  <2>a. \A n2, m2 \in Processes : \A c2 \in ChannelNames : services[n2][c2][m2] \in Nat
    BY TablesHoldNumbers
  <2>3. OwnAccounted'
    <3> SUFFICES ASSUME NEW n2 \in Processes, NEW c2 \in ChannelNames
                 PROVE  \/ services'[n2][c2][n2] > 0
                        \/ found'[n2][c2][n2] < forgot'[n2][c2][n2] + IF n2 \in died' THEN 1 ELSE 0
                        \/ announcing'[n2] # c2 /\ [node |-> n2, channel |-> c2] \notin network'
      BY DEF OwnAccounted
    <3>1. CASE n2 = n /\ c2 = c
      BY <3>1, <2>0 DEF Changed
    <3>2. CASE ~(n2 = n /\ c2 = c)
      <4>1. services'[n2][c2][n2] = services[n2][c2][n2]
        BY <3>2, <2>0 DEF Changed
      <4>2. announcing[n2] # c2 => announcing'[n2] # c2
        BY <3>2 DEF IndInv, TypeOK
      <4> QED BY <4>1, <4>2 DEF IndInv, OwnAccounted
    <3> QED BY <3>1, <3>2
  <2>4. FoundOnce'
    BY <2>0 DEF Changed, IndInv, FoundOnce
  <2>5. QuietAfterStop'
    BY DEF IndInv, QuietAfterStop
  <2> QED BY <2>1, <2>2, <2>3, <2>4, <2>5 DEF IndInv
<1>2. ASSUME NEW n \in Processes, SendAnnouncement(n) PROVE IndInv'
  <2> USE <1>2 DEF SendAnnouncement, flags, table, bounds, MutexFree
  <2>1. TypeOK'
    <3>1. announcing[n] \in ChannelNames
      BY DEF IndInv, TypeOK
    <3>2. network' \subseteq Announcements
      BY <3>1 DEF IndInv, TypeOK, Announcements
    <3> QED BY <3>2 DEF IndInv, TypeOK
  <2>2. OnlyWhatWasSent'
    BY DEF IndInv, OnlyWhatWasSent
  <2>3. OwnAccounted'
    BY DEF IndInv, OwnAccounted, TypeOK, PerService
  <2>4. FoundOnce'
    BY DEF IndInv, FoundOnce
  <2>5. QuietAfterStop'
    BY DEF IndInv, QuietAfterStop
  <2> QED BY <2>1, <2>2, <2>3, <2>4, <2>5 DEF IndInv
<1>3. ASSUME NEW n \in Processes, NEW m \in Processes, NEW c \in ChannelNames, UnregisterService(n, m, c) PROVE IndInv'
  <2> USE <1>3 DEF UnregisterService, flags, MutexFree
  <2>0. /\ Changed(services', services, n, c, m, 0)
        /\ Changed(forgot', forgot, n, c, m, forgot[n][c][m] + 1)
    <3>1. services \in Tables /\ forgot \in Tables /\ forgot[n][c][m] + 1 \in Nat
      BY TablesHoldNumbers
    <3>2. /\ services' = [services EXCEPT ![n][c][m] = 0]
          /\ forgot' = [forgot EXCEPT ![n][c][m] = forgot[n][c][m] + 1]
      OBVIOUS
    <3>3. Changed(services', services, n, c, m, 0)
      BY <3>1, <3>2, ExceptChanges
    <3>4. Changed(forgot', forgot, n, c, m, forgot[n][c][m] + 1)
      BY <3>1, <3>2, ExceptChanges
    <3> QED BY <3>3, <3>4
  <2>a. \A c2 \in ChannelNames, n2, m2 \in Processes :
           services[n2][c2][m2] \in Nat /\ forgot[n2][c2][m2] \in Nat /\ found[n2][c2][m2] \in Nat
    BY TablesHoldNumbers
  <2>1. TypeOK'
    <3>1. services' \in [Processes -> PerService(Nat)] /\ forgot' \in [Processes -> PerService(Nat)]
      BY <2>0 DEF Changed, Tables
    <3> QED BY <3>1 DEF IndInv, TypeOK
  <2>2. OnlyWhatWasSent'
    BY DEF IndInv, OnlyWhatWasSent
  <2>3. OwnAccounted'
    <3> SUFFICES ASSUME NEW n2 \in Processes, NEW c2 \in ChannelNames
                 PROVE  \/ services'[n2][c2][n2] > 0
                        \/ found'[n2][c2][n2] < forgot'[n2][c2][n2] + IF n2 \in died' THEN 1 ELSE 0
                        \/ announcing'[n2] # c2 /\ [node |-> n2, channel |-> c2] \notin network'
      BY DEF OwnAccounted
    <3>1. CASE n2 = n /\ c2 = c /\ m = n
      <4>1. forgot'[n2][c2][n2] = forgot[n2][c2][n2] + 1
        BY <3>1, <2>0 DEF Changed
      <4>2. found[n2][c2][n2] <= forgot[n2][c2][n2] + IF n2 \in died THEN 1 ELSE 0
        BY DEF IndInv, FoundOnce
      <4>3. CASE n2 \in died
        BY <4>1, <4>2, <4>3, <2>a
      <4>4. CASE n2 \notin died
        BY <4>1, <4>2, <4>4, <2>a
      <4> QED BY <4>3, <4>4
    <3>2. CASE ~(n2 = n /\ c2 = c /\ m = n)
      <4>1. services'[n2][c2][n2] = services[n2][c2][n2] /\ forgot'[n2][c2][n2] = forgot[n2][c2][n2]
        BY <3>2, <2>0 DEF Changed
      <4> QED BY <4>1 DEF IndInv, OwnAccounted
    <3> QED BY <3>1, <3>2
  <2>4. FoundOnce'
    BY <2>0, <2>a DEF Changed, IndInv, FoundOnce
  <2>5. QuietAfterStop'
    BY DEF IndInv, QuietAfterStop
  <2> QED BY <2>1, <2>2, <2>3, <2>4, <2>5 DEF IndInv
<1>4. ASSUME NEW n \in Processes, Start(n) PROVE IndInv'
  <2> USE <1>4 DEF Start, ResetStopFlag, table
  <2>1. TypeOK'
    BY DEF IndInv, TypeOK, PerService
  <2>2. OnlyWhatWasSent'
    BY DEF IndInv, OnlyWhatWasSent, TypeOK
  <2>3. OwnAccounted'
    BY DEF IndInv, OwnAccounted
  <2>4. FoundOnce'
    BY DEF IndInv, FoundOnce
  <2>5. QuietAfterStop'
    BY DEF IndInv, QuietAfterStop, TypeOK
  <2> QED BY <2>1, <2>2, <2>3, <2>4, <2>5 DEF IndInv
<1>5. ASSUME NEW n \in Processes, Stop(n) PROVE IndInv'
  <2> USE <1>5 DEF Stop, table, bounds
  <2>1. TypeOK'
    BY DEF IndInv, TypeOK, PerService
  <2>2. OnlyWhatWasSent'
    BY DEF IndInv, OnlyWhatWasSent
  <2>3. OwnAccounted'
    BY DEF IndInv, OwnAccounted
  <2>4. FoundOnce'
    BY DEF IndInv, FoundOnce
  <2>5. QuietAfterStop'
    BY DEF IndInv, QuietAfterStop, TypeOK
  <2> QED BY <2>1, <2>2, <2>3, <2>4, <2>5 DEF IndInv
<1>6. ASSUME NEW n \in Processes, StopReturns(n) PROVE IndInv'
  <2> USE <1>6 DEF StopReturns, Joined, table, bounds
  <2>1. TypeOK'
    BY DEF IndInv, TypeOK, PerService
  <2>2. OnlyWhatWasSent'
    BY DEF IndInv, OnlyWhatWasSent, TypeOK
  <2>3. OwnAccounted'
    BY DEF IndInv, OwnAccounted
  <2>4. FoundOnce'
    BY DEF IndInv, FoundOnce
  <2>5. QuietAfterStop'
    BY DEF IndInv, QuietAfterStop
  <2> QED BY <2>1, <2>2, <2>3, <2>4, <2>5 DEF IndInv
<1>7. ASSUME NEW n \in Processes, TestStopFlag(n) \/ SelectTimesOut(n) PROVE IndInv'
  <2> USE <1>7 DEF TestStopFlag, SelectTimesOut, flags, table, bounds
  <2>1. TypeOK'
    <3>1. \E w \in {"none", "select", "test"} : listener' = [listener EXCEPT ![n] = w]
      OBVIOUS
    <3>2. /\ listener' \in [Processes -> {"none", "test", "select", "process", "stuck"}]
          /\ \A n2 \in Processes : listener'[n2] = "process" => listener[n2] = "process"
      BY <3>1 DEF IndInv, TypeOK
    <3> QED BY <3>2 DEF IndInv, TypeOK
  <2>2. OnlyWhatWasSent'
    BY DEF IndInv, OnlyWhatWasSent, TypeOK
  <2>3. OwnAccounted'
    BY DEF IndInv, OwnAccounted
  <2>4. FoundOnce'
    BY DEF IndInv, FoundOnce
  <2>5. QuietAfterStop'
    BY DEF IndInv, QuietAfterStop, TypeOK
  <2> QED BY <2>1, <2>2, <2>3, <2>4, <2>5 DEF IndInv
<1>8. ASSUME NEW n \in Processes, Receive(n) PROVE IndInv'
  <2> USE <1>8 DEF Receive, flags, table, bounds
  <2>1. TypeOK'
    <3>1. inbox[n] \in Seq(Announcements) /\ Len(inbox[n]) <= MaxInbox /\ udp_socket_[n]
      BY DEF IndInv, TypeOK
    <3>2. /\ Head(inbox[n]) \in Announcements
          /\ Tail(inbox[n]) \in Seq(Announcements) /\ Len(Tail(inbox[n])) <= MaxInbox
      BY <3>1
    <3> QED BY <3>1, <3>2 DEF IndInv, TypeOK
  <2>2. OnlyWhatWasSent'
    BY DEF IndInv, OnlyWhatWasSent, TypeOK
  <2>3. OwnAccounted'
    BY DEF IndInv, OwnAccounted
  <2>4. FoundOnce'
    BY DEF IndInv, FoundOnce
  <2>5. QuietAfterStop'
    BY DEF IndInv, QuietAfterStop, TypeOK
  <2> QED BY <2>1, <2>2, <2>3, <2>4, <2>5 DEF IndInv
<1>9. ASSUME NEW n \in Processes, ProcessAnnouncement(n) PROVE IndInv'
  <2> USE <1>9 DEF ProcessAnnouncement, flags, bounds
  <2>0. PICK m \in Processes, c \in ChannelNames : hand[n] = [node |-> m, channel |-> c] /\ hand[n] \in network
    BY DEF IndInv, TypeOK, OnlyWhatWasSent, Announcements
  <2>a. /\ services \in Tables /\ found \in Tables
        /\ \A c2 \in ChannelNames, n2, m2 \in Processes :
             services[n2][c2][m2] \in Nat /\ forgot[n2][c2][m2] \in Nat /\ found[n2][c2][m2] \in Nat
    BY TablesHoldNumbers
  <2>b. \/ services' = services /\ found' = found /\ services[n][c][m] > 0
        \/ /\ services[n][c][m] = 0
           /\ Changed(services', services, n, c, m, 1)
           /\ Changed(found', found, n, c, m, found[n][c][m] + 1)
    <3>1. CASE services[n][c][m] > 0
      BY <3>1, <2>0 DEF Known
    <3>2. CASE ~(services[n][c][m] > 0)
      <4>1. services[n][c][m] = 0 /\ found[n][c][m] + 1 \in Nat
        BY <3>2, <2>a
      <4>2. /\ services' = [services EXCEPT ![n][c][m] = 1]
            /\ found' = [found EXCEPT ![n][c][m] = found[n][c][m] + 1]
        BY <3>2, <4>1, <2>0 DEF Known
      <4>3. Changed(services', services, n, c, m, 1)
        BY <4>2, <2>a, ExceptChanges
      <4>4. Changed(found', found, n, c, m, found[n][c][m] + 1)
        BY <4>1, <4>2, <2>a, ExceptChanges
      <4> QED BY <4>1, <4>3, <4>4
    <3> QED BY <3>1, <3>2
  <2>c. PICK step \in {"test", "stuck"} : listener' = [listener EXCEPT ![n] = step]
    BY DEF AfterCallback
  <2>d. /\ listener' \in [Processes -> {"none", "test", "select", "process", "stuck"}]
        /\ listener'[n] = step
        /\ \A n2 \in Processes : n2 # n => listener'[n2] = listener[n2]
    BY <2>c DEF IndInv, TypeOK
  <2>1. TypeOK'
    <3>1. services' \in [Processes -> PerService(Nat)] /\ found' \in [Processes -> PerService(Nat)]
      BY <2>a, <2>b DEF Changed, Tables
    <3> QED BY <2>d, <3>1 DEF IndInv, TypeOK
  <2>2. OnlyWhatWasSent'
    BY <2>d DEF IndInv, OnlyWhatWasSent, TypeOK
  <2>3. OwnAccounted'
    <3> SUFFICES ASSUME NEW n2 \in Processes, NEW c2 \in ChannelNames
                 PROVE  \/ services'[n2][c2][n2] > 0
                        \/ found'[n2][c2][n2] < forgot'[n2][c2][n2] + IF n2 \in died' THEN 1 ELSE 0
                        \/ announcing'[n2] # c2 /\ [node |-> n2, channel |-> c2] \notin network'
      BY DEF OwnAccounted
    <3>1. CASE services[n2][c2][n2] > 0
      BY <3>1, <2>a, <2>b DEF Changed
    <3>2. CASE n2 = n /\ c2 = c /\ m = n
      BY <3>2, <2>b DEF Changed
    <3>3. CASE ~(n2 = n /\ c2 = c /\ m = n)
      <4>1. services'[n2][c2][n2] = services[n2][c2][n2] /\ found'[n2][c2][n2] = found[n2][c2][n2]
        BY <3>3, <2>b DEF Changed
      <4> QED BY <4>1 DEF IndInv, OwnAccounted
    <3> QED BY <3>1, <3>2, <3>3
  <2>4. FoundOnce'
    BY <2>0, <2>a, <2>b DEF Changed, IndInv, FoundOnce, OwnAccounted
  <2>5. QuietAfterStop'
    BY <2>d DEF IndInv, QuietAfterStop, TypeOK
  <2> QED BY <2>1, <2>2, <2>3, <2>4, <2>5 DEF IndInv
<1>10. ASSUME NEW n \in Processes, NEW d \in network, Deliver(n, d) PROVE IndInv'
  <2> USE <1>10 DEF Deliver, flags, table, bounds
  <2>1. TypeOK'
    <3>1. inbox[n] \in Seq(Announcements) /\ d \in Announcements
      BY DEF IndInv, TypeOK
    <3>2. Append(inbox[n], d) \in Seq(Announcements) /\ Len(Append(inbox[n], d)) <= MaxInbox
      BY <3>1
    <3> QED BY <3>2 DEF IndInv, TypeOK
  <2>2. OnlyWhatWasSent'
    BY DEF IndInv, OnlyWhatWasSent, TypeOK
  <2>3. OwnAccounted'
    BY DEF IndInv, OwnAccounted
  <2>4. FoundOnce'
    BY DEF IndInv, FoundOnce
  <2>5. QuietAfterStop'
    BY DEF IndInv, QuietAfterStop
  <2> QED BY <2>1, <2>2, <2>3, <2>4, <2>5 DEF IndInv
<1>11. ASSUME NEW n \in Processes, Die(n) PROVE IndInv'
  <2> USE <1>11 DEF Die
  <2>1. TypeOK'
    BY DEF IndInv, TypeOK, PerService, NoEntries
  <2>2. OnlyWhatWasSent'
    BY DEF IndInv, OnlyWhatWasSent, TypeOK
  <2>0. \A n2, m2 \in Processes : \A c2 \in ChannelNames :
           /\ n2 # n => /\ services'[n2] = services[n2] /\ found'[n2] = found[n2]
                        /\ forgot'[n2] = forgot[n2] /\ (n2 \in died' <=> n2 \in died)
           /\ n2 = n => /\ services'[n2][c2][m2] = 0 /\ found'[n2][c2][m2] = 0
                        /\ forgot'[n2][c2][m2] = 0 /\ n2 \in died'
    BY DEF IndInv, TypeOK, NoEntries
  <2>3. OwnAccounted'
    <3> SUFFICES ASSUME NEW n2 \in Processes, NEW c2 \in ChannelNames
                 PROVE  \/ services'[n2][c2][n2] > 0
                        \/ found'[n2][c2][n2] < forgot'[n2][c2][n2] + IF n2 \in died' THEN 1 ELSE 0
                        \/ announcing'[n2] # c2 /\ [node |-> n2, channel |-> c2] \notin network'
      BY DEF OwnAccounted
    <3>1. CASE n2 = n
      BY <3>1, <2>0
    <3>2. CASE n2 # n
      <4>1. announcing'[n2] = announcing[n2]
        BY <3>2 DEF IndInv, TypeOK
      <4> QED BY <4>1, <3>2, <2>0 DEF IndInv, OwnAccounted
    <3> QED BY <3>1, <3>2
  <2>4. FoundOnce'
    BY <2>0 DEF IndInv, FoundOnce
  <2>5. QuietAfterStop'
    BY DEF IndInv, QuietAfterStop, TypeOK
  <2> QED BY <2>1, <2>2, <2>3, <2>4, <2>5 DEF IndInv
<1>12. CASE UNCHANGED vars
  BY <1>12
  DEF IndInv, TypeOK, OnlyWhatWasSent, OwnAccounted, FoundOnce, QuietAfterStop, vars, table, flags, bounds
<1> QED BY <1>1, <1>2, <1>3, <1>4, <1>5, <1>6, <1>7, <1>8, <1>9, <1>10, <1>11, <1>12 DEF Next, Listen

LEMMA Invariance == Spec => []IndInv
  BY InitIndInv, StepIndInv, PTL DEF Spec

\* Types: what a listener processes is an announcement, a node that runs has a socket,
\* a node that stops has raised its flag.
THEOREM TypeCorrect == Spec => []TypeOK
  BY Invariance, PTL DEF IndInv

\* on_found_ reports a service of another node once, however its announcements are
\* repeated, delayed or reordered (ProcessAnnouncement, lines 233-255).
THEOREM ReportedOnce == Spec => []FoundOnce
  BY Invariance, PTL DEF IndInv

\* No listener runs when Stop has returned (lines 139-164).
THEOREM NoListenerAfterStop == Spec => []QuietAfterStop
  BY Invariance, PTL DEF IndInv

-----------------------------------------------------------------------------
(* Supervisor: sums of a function over a finite set.  There is no induction over sets to be had,
   so what would be proved by it is proved of a least counterexample. *)

LessThan == {ss \in Nat \X Nat : ss[1] < ss[2]}

\* What holds of no least number holds of none: the induction of the lemmas below.
LEMMA LeastNumber ==
  ASSUME NEW T \in SUBSET Nat, T # {}
  PROVE  \E n \in T : \A m \in T : n <= m
<1>1. IsWellFoundedOn(LessThan, Nat)
  BY NatLessThanWellFounded, Zenon DEF LessThan, OpToRel
<1>2. PICK n \in T : \A m \in T : ~ (<<m, n>> \in LessThan)
  BY <1>1, WFMin
<1>3. \A m \in T : m \in Nat /\ n \in Nat /\ <<m, n>> \in Nat \X Nat
  BY <1>2
<1>4. \A m \in T : ~ (m < n)
  BY <1>2, <1>3 DEF LessThan
<1> QED
  BY <1>3, <1>4

Pick(s) == CHOOSE x \in s : TRUE

\* g is the table of the sums of f that a fold over a set builds.
Sums(g, f, S) ==
    g = [s \in SUBSET S |-> IF s = {} THEN 0 ELSE f[Pick(s)] + g[s \ {Pick(s)}]]

\* The fold takes some element of the set.
LEMMA PickFacts ==
  ASSUME NEW s, s # {}
  PROVE  Pick(s) \in s
  BY DEF Pick

\* ... and leaves a smaller one.
LEMMA SmallerSet ==
  ASSUME NEW s, IsFiniteSet(s), NEW x \in s
  PROVE  /\ IsFiniteSet(s \ {x}) /\ Cardinality(s \ {x}) = Cardinality(s) - 1
         /\ Cardinality(s) \in Nat /\ Cardinality(s) >= 1 /\ Cardinality(s \ {x}) \in Nat
<1>1. IsFiniteSet(s \ {x}) /\ Cardinality(s \ {x}) = Cardinality(s) - 1
  BY FS_RemoveElement
<1>2. Cardinality(s) \in Nat /\ Cardinality(s \ {x}) \in Nat
  BY <1>1, FS_CardinalityType
<1> QED
  BY <1>1, <1>2

\* Two tables agree on the sums of the same values.
LEMMA SumsAgree ==
  ASSUME NEW g, NEW f, NEW S, Sums(g, f, S), NEW h, NEW e, NEW T, Sums(h, e, T),
         NEW u, IsFiniteSet(u), u \subseteq S, u \subseteq T, \A x \in u : f[x] = e[x]
  PROVE  g[u] = h[u]
<1> DEFINE Bad == {n \in Nat : \E s \in SUBSET u : Cardinality(s) = n /\ g[s] # h[s]}
<1>1. SUFFICES Bad = {}
  <2>1. Cardinality(u) \in Nat
    BY FS_CardinalityType
  <2> QED
    BY <1>1, <2>1
<1>2. SUFFICES ASSUME Bad # {} PROVE FALSE
  OBVIOUS
<1>3. PICK n \in Bad : \A m \in Bad : n <= m
  <2>1. Bad \in SUBSET Nat
    OBVIOUS
  <2> HIDE DEF Bad
  <2> QED
    BY <1>2, <2>1, LeastNumber
<1>4. PICK s \in SUBSET u : Cardinality(s) = n /\ g[s] # h[s]
  BY <1>3
<1>5. s \in SUBSET S /\ s \in SUBSET T /\ IsFiniteSet(s)
  BY <1>4, FS_Subset
<1>6. s # {}
  BY <1>4, <1>5 DEF Sums
<1>7. /\ g[s] = f[Pick(s)] + g[s \ {Pick(s)}]
      /\ h[s] = e[Pick(s)] + h[s \ {Pick(s)}]
  BY <1>5, <1>6 DEF Sums
<1>8. Pick(s) \in s /\ f[Pick(s)] = e[Pick(s)]
  BY <1>4, <1>6, PickFacts
<1>9. /\ Cardinality(s \ {Pick(s)}) \in Nat /\ Cardinality(s \ {Pick(s)}) < n /\ n \in Nat
      /\ s \ {Pick(s)} \in SUBSET u
  BY <1>4, <1>5, <1>8, SmallerSet
<1>10. g[s \ {Pick(s)}] # h[s \ {Pick(s)}]
  BY <1>4, <1>7, <1>8
<1>11. Cardinality(s \ {Pick(s)}) \in Bad
  BY <1>9, <1>10
<1> HIDE DEF Bad
<1> QED
  BY <1>3, <1>9, <1>11

\* There is a table of the sums of every subset.
LEMMA SumsExist ==
  ASSUME NEW S, IsFiniteSet(S), NEW f, \A x \in S : f[x] \in Nat
  PROVE  \E g \in [SUBSET S -> Nat] : Sums(g, f, S)
<1> DEFINE Following(g, s) == IF s = {} THEN 0 ELSE f[Pick(s)] + g[s \ {Pick(s)}]
           UpTo(n) == \E g \in [SUBSET S -> Nat] :
                         \A s \in SUBSET S : Cardinality(s) <= n => g[s] = Following(g, s)
           Bad == {n \in Nat : ~UpTo(n)}
<1>1. \A s \in SUBSET S : IsFiniteSet(s) /\ Cardinality(s) \in Nat /\ Cardinality(s) <= Cardinality(S)
  BY FS_Subset, FS_CardinalityType
<1>2. Cardinality(S) \in Nat
  BY FS_CardinalityType
<1>3. \A g \in [SUBSET S -> Nat] : \A s \in SUBSET S : Following(g, s) \in Nat
  <2> SUFFICES ASSUME NEW g \in [SUBSET S -> Nat], NEW s \in SUBSET S, s # {}
               PROVE  f[Pick(s)] + g[s \ {Pick(s)}] \in Nat
    OBVIOUS
  <2>1. Pick(s) \in S /\ s \ {Pick(s)} \in SUBSET S
    BY PickFacts
  <2>2. f[Pick(s)] \in Nat /\ g[s \ {Pick(s)}] \in Nat
    BY <2>1
  <2> QED
    BY <2>2
<1>4. Bad = {}
  <2>1. SUFFICES ASSUME Bad # {} PROVE FALSE
    OBVIOUS
  <2>2. PICK n \in Bad : \A m \in Bad : n <= m
    <3>1. Bad \in SUBSET Nat
      OBVIOUS
    <3> HIDE DEF Bad
    <3> QED
      BY <2>1, <3>1, LeastNumber
  <2>3. n \in Nat /\ ~UpTo(n)
    BY <2>2
  <2>4. CASE n = 0
    <3> DEFINE g == [s \in SUBSET S |-> 0]
    <3>1. g \in [SUBSET S -> Nat]
      OBVIOUS
    <3>2. \A s \in SUBSET S : Cardinality(s) <= 0 => g[s] = Following(g, s)
      <4>1. \A s \in SUBSET S : Cardinality(s) <= 0 => s = {}
        BY <1>1, FS_EmptySet
      <4> QED
        BY <4>1
    <3> HIDE DEF g, Following
    <3> QED
      BY <2>3, <2>4, <3>1, <3>2
  <2>5. CASE n # 0
    <3>1. n - 1 \in Nat /\ n - 1 < n
      BY <2>3, <2>5
    <3>2. UpTo(n - 1)
      <4>1. n - 1 \notin Bad
        <5> HIDE DEF Bad
        <5> QED
          BY <2>2, <2>3, <3>1
      <4> HIDE DEF UpTo
      <4> QED
        BY <3>1, <4>1
    <3>3. PICK g \in [SUBSET S -> Nat] : \A s \in SUBSET S : Cardinality(s) <= n - 1 => g[s] = Following(g, s)
      <4> HIDE DEF Following
      <4> QED
        BY <3>2
    <3> DEFINE h == [s \in SUBSET S |-> Following(g, s)]
    <3>4. h \in [SUBSET S -> Nat]
      <4> HIDE DEF Following
      <4> QED
        BY <1>3
    <3>5. ASSUME NEW s \in SUBSET S, Cardinality(s) <= n
          PROVE  h[s] = Following(h, s)
      <4>1. CASE s = {}
        BY <4>1
      <4>2. CASE s # {}
        <5> DEFINE r == s \ {Pick(s)}
        <5>1. Pick(s) \in s /\ IsFiniteSet(s)
          BY <1>1, <4>2, PickFacts
        <5>2. r \in SUBSET S /\ Cardinality(r) <= n - 1
          BY <2>3, <3>5, <5>1, SmallerSet
        <5> HIDE DEF r
        <5>3. g[r] = Following(g, r) /\ h[r] = Following(g, r)
          <6> HIDE DEF Following
          <6> QED
            BY <3>3, <5>2
        <5>4. h[s] = f[Pick(s)] + g[r]
          BY <4>2 DEF r
        <5>5. Following(h, s) = f[Pick(s)] + h[r]
          <6> HIDE DEF h
          <6> QED
            BY <4>2 DEF r
        <5> QED
          BY <5>3, <5>4, <5>5
      <4> QED
        BY <4>1, <4>2
    <3> HIDE DEF h, Following
    <3>6. UpTo(n)
      BY <3>4, <3>5
    <3> QED
      BY <2>3, <3>6
  <2> QED
    BY <2>4, <2>5
<1>5. UpTo(Cardinality(S))
  <2> HIDE DEF UpTo
  <2> QED
    BY <1>2, <1>4
<1>6. PICK g \in [SUBSET S -> Nat] :
         \A s \in SUBSET S : Cardinality(s) <= Cardinality(S) => g[s] = Following(g, s)
  <2> HIDE DEF Following
  <2> QED
    BY <1>5
<1>7. \A s \in SUBSET S : g[s] = Following(g, s)
  <2> HIDE DEF Following
  <2> QED
    BY <1>1, <1>6
<1>8. g = [s \in SUBSET S |-> Following(g, s)]
  <2> HIDE DEF Following
  <2> QED
    BY <1>7
<1> QED
  BY <1>8 DEF Sums

\* The table that the operator of the community modules stands for.
LEMMA SumIs ==
  ASSUME NEW S, IsFiniteSet(S), NEW f, \A x \in S : f[x] \in Nat
  PROVE  \E g \in [SUBSET S -> Nat] : Sums(g, f, S) /\ SumFunctionOnSet(f, S) = g[S]
<1>1. PICK g \in [SUBSET S -> Nat] : Sums(g, f, S)
  BY SumsExist
<1> DEFINE h == CHOOSE k : k = [s \in SUBSET S |-> IF s = {} THEN 0 ELSE f[Pick(s)] + k[s \ {Pick(s)}]]
<1>2. SumFunctionOnSet(f, S) = h[S]
  BY DEF SumFunctionOnSet, FoldFunctionOnSet, MapThenFoldSet, Pick
<1>3. Sums(h, f, S)
  <2>1. \E k : k = [s \in SUBSET S |-> IF s = {} THEN 0 ELSE f[Pick(s)] + k[s \ {Pick(s)}]]
    BY <1>1, Zenon DEF Sums
  <2>2. h = [s \in SUBSET S |-> IF s = {} THEN 0 ELSE f[Pick(s)] + h[s \ {Pick(s)}]]
    BY <2>1, Zenon
  <2> QED
    BY <2>2, Zenon DEF Sums
<1> HIDE DEF h
<1>4. h[S] = g[S]
  BY <1>1, <1>3, SumsAgree
<1> QED
  BY <1>1, <1>2, <1>4

\* Any element may be taken first.
LEMMA SumsSplit ==
  ASSUME NEW S, IsFiniteSet(S), NEW f, \A x \in S : f[x] \in Nat,
         NEW g \in [SUBSET S -> Nat], Sums(g, f, S)
  PROVE  \A x \in S : g[S] = f[x] + g[S \ {x}]
<1> SUFFICES ASSUME NEW x \in S PROVE g[S] = f[x] + g[S \ {x}]
  OBVIOUS
<1> DEFINE Bad == {n \in Nat : \E s \in SUBSET S : \E y \in s : Cardinality(s) = n /\ g[s] # f[y] + g[s \ {y}]}
<1>1. SUFFICES Bad = {}
  <2>1. Cardinality(S) \in Nat
    BY FS_CardinalityType
  <2> QED
    BY <1>1, <2>1
<1>2. SUFFICES ASSUME Bad # {} PROVE FALSE
  OBVIOUS
<1>3. PICK n \in Bad : \A m \in Bad : n <= m
  <2>1. Bad \in SUBSET Nat
    OBVIOUS
  <2> HIDE DEF Bad
  <2> QED
    BY <1>2, <2>1, LeastNumber
<1>4. PICK s \in SUBSET S : \E y \in s : Cardinality(s) = n /\ g[s] # f[y] + g[s \ {y}]
  BY <1>3
<1>5. PICK y \in s : Cardinality(s) = n /\ g[s] # f[y] + g[s \ {y}]
  BY <1>4
<1> DEFINE c == Pick(s)
<1>6. IsFiniteSet(s) /\ c \in s
  BY <1>5, FS_Subset, PickFacts
<1>7. g[s] = f[c] + g[s \ {c}]
  BY <1>5 DEF Sums
<1> HIDE DEF c
<1>8. y # c
  BY <1>5, <1>7
<1>9. /\ s \ {c} \in SUBSET S /\ y \in s \ {c} /\ Cardinality(s \ {c}) \in Nat /\ Cardinality(s \ {c}) < n
      /\ s \ {y} \in SUBSET S /\ c \in s \ {y} /\ Cardinality(s \ {y}) \in Nat /\ Cardinality(s \ {y}) < n
      /\ n \in Nat
  <2>1. /\ Cardinality(s \ {c}) \in Nat /\ Cardinality(s \ {c}) = n - 1 /\ n \in Nat
        /\ Cardinality(s \ {y}) \in Nat /\ Cardinality(s \ {y}) = n - 1
    BY <1>5, <1>6, SmallerSet
  <2>2. s \ {c} \in SUBSET S /\ y \in s \ {c} /\ s \ {y} \in SUBSET S /\ c \in s \ {y}
    BY <1>6, <1>8
  <2> QED
    BY <2>1, <2>2
<1>10. Cardinality(s \ {c}) \notin Bad /\ Cardinality(s \ {y}) \notin Bad
  <2> HIDE DEF Bad
  <2> QED
    BY <1>3, <1>9
<1>11. g[s \ {c}] = f[y] + g[(s \ {c}) \ {y}]
  BY <1>9, <1>10
<1>12. g[s \ {y}] = f[c] + g[(s \ {y}) \ {c}]
  BY <1>9, <1>10
<1>13. (s \ {y}) \ {c} = (s \ {c}) \ {y} /\ (s \ {c}) \ {y} \in SUBSET S
  OBVIOUS
<1>14. f[c] \in Nat /\ f[y] \in Nat /\ g[(s \ {c}) \ {y}] \in Nat
  BY <1>5, <1>6, <1>13
<1> DEFINE rest == g[(s \ {c}) \ {y}]
<1>15. g[s] = f[c] + (f[y] + rest) /\ f[y] + g[s \ {y}] = f[y] + (f[c] + rest)
  BY <1>7, <1>11, <1>12, <1>13
<1>16. f[c] \in Nat /\ f[y] \in Nat /\ rest \in Nat
  BY <1>14
<1> HIDE DEF rest
<1>17. f[c] + (f[y] + rest) = f[y] + (f[c] + rest)
  BY <1>16
<1> QED
  BY <1>5, <1>15, <1>17

\* A sum is a number, and the value of any one element and the sum of the others.
LEMMA SumSplit ==
  ASSUME NEW S, IsFiniteSet(S), NEW f, \A x \in S : f[x] \in Nat
  PROVE  /\ SumFunctionOnSet(f, S) \in Nat
         /\ \A x \in S : SumFunctionOnSet(f, S) = f[x] + SumFunctionOnSet(f, S \ {x})
<1>1. PICK g \in [SUBSET S -> Nat] : Sums(g, f, S) /\ SumFunctionOnSet(f, S) = g[S]
  BY SumIs
<1>3. \A y \in S : g[S] = f[y] + g[S \ {y}]
  BY <1>1, SumsSplit, SMTT(30)
<1>2. ASSUME NEW x \in S
      PROVE  SumFunctionOnSet(f, S) = f[x] + SumFunctionOnSet(f, S \ {x})
  <2> DEFINE T == S \ {x}
  <2>1. IsFiniteSet(T) /\ T \subseteq S /\ \A y \in T : f[y] \in Nat
    BY FS_Subset
  <2> HIDE DEF T
  <2>2. PICK h \in [SUBSET T -> Nat] : Sums(h, f, T) /\ SumFunctionOnSet(f, T) = h[T]
    BY <2>1, SumIs
  <2>3. g[T] = h[T]
    BY <1>1, <2>1, <2>2, SumsAgree
  <2>4. g[S] = f[x] + g[T]
    BY <1>3 DEF T
  <2> QED
    BY <1>1, <2>2, <2>3, <2>4 DEF T
<1> QED
  BY <1>1, <1>2

\* A sum depends on the values summed only.
LEMMA SumSame ==
  ASSUME NEW S, IsFiniteSet(S), NEW f, NEW e, \A x \in S : f[x] \in Nat /\ e[x] = f[x]
  PROVE  SumFunctionOnSet(f, S) = SumFunctionOnSet(e, S)
<1>1. PICK g \in [SUBSET S -> Nat] : Sums(g, f, S) /\ SumFunctionOnSet(f, S) = g[S]
  BY SumIs
<1>2. PICK h \in [SUBSET S -> Nat] : Sums(h, e, S) /\ SumFunctionOnSet(e, S) = h[S]
  BY SumIs
<1>3. g[S] = h[S]
  BY <1>1, <1>2, SumsAgree
<1> QED
  BY <1>1, <1>2, <1>3

\* A sum over nothing, and a sum of nothing but zeros, is 0.
LEMMA EmptySum ==
  ASSUME NEW f
  PROVE  SumFunctionOnSet(f, {}) = 0
<1>1. IsFiniteSet({}) /\ \A x \in {} : f[x] \in Nat
  BY FS_EmptySet
<1>2. PICK g \in [SUBSET {} -> Nat] : Sums(g, f, {}) /\ SumFunctionOnSet(f, {}) = g[{}]
  BY <1>1, SumIs
<1>3. g[{}] = 0
  BY <1>2 DEF Sums
<1> QED
  BY <1>2, <1>3

LEMMA ZeroSum ==
  ASSUME NEW S, IsFiniteSet(S), NEW f, \A x \in S : f[x] = 0
  PROVE  SumFunctionOnSet(f, S) = 0
<1> DEFINE g == [s \in SUBSET S |-> 0]
<1>1. Sums(g, f, S)
  <2>1. \A s \in SUBSET S : s # {} => f[Pick(s)] = 0 /\ s \ {Pick(s)} \in SUBSET S
    BY PickFacts
  <2>2. \A s \in SUBSET S : s # {} => f[Pick(s)] + g[s \ {Pick(s)}] = 0
    BY <2>1
  <2>3. g = [s \in SUBSET S |-> IF s = {} THEN 0 ELSE f[Pick(s)] + g[s \ {Pick(s)}]]
    BY <2>2
  <2> QED
    BY <2>3 DEF Sums
<1>2. \A x \in S : f[x] \in Nat
  OBVIOUS
<1>3. PICK h \in [SUBSET S -> Nat] : Sums(h, f, S) /\ SumFunctionOnSet(f, S) = h[S]
  BY <1>2, SumIs
<1>4. g[S] = 0
  OBVIOUS
<1> HIDE DEF g
<1>5. g[S] = h[S]
  BY <1>1, <1>3, SumsAgree
<1> QED
  BY <1>3, <1>4, <1>5
-----------------------------------------------------------------------------
(* The invariant *)

\* What is stored of a peer is between its last undisturbed call and its last call.
BeatInv ==
    /\ \A p \in Peers : called[p] <= steady
    /\ \A t \in Threads :
          beatOf[t] # NoPeer => alone[beatOf[t]] <= now[t] /\ now[t] <= called[beatOf[t]]
    /\ \A t, u \in Threads : beatOf[t] # NoPeer /\ beatOf[t] = beatOf[u] /\ t # u => t \in disturbed
    /\ \A p \in Peers : alone[p] # -1 => p \in DOMAIN last_seen_
    /\ \A p \in DOMAIN last_seen_ : alone[p] <= last_seen_[p] /\ last_seen_[p] <= called[p]

\* The time of a node that has been heard of: both clocks have gone on by the same
\* time since, but for what system_clock was set by; 0 of any other.
HeartbeatOf(n) == IF heard[n] = -1 THEN 0 ELSE wall - shift[n] - (steady - heard[n])

HeardInv ==
    /\ wall >= Epoch - 1 /\ wall <= Epoch + MaxTime + steady
    /\ \A n \in Nodes : heard[n] <= steady
    /\ \A n \in DOMAIN nodes_ :
          nodes_[n].last_heartbeat = HeartbeatOf(n) /\ nodes_[n].last_heartbeat <= Epoch + 2 * MaxTime

\* Count, extremes and bounds of the sum, of one channel.
ChannelTrue(c) ==
    LET stats == Stats(c)
    IN  /\ IsFiniteSet(Sent(c)) /\ stats.sent = Cardinality(Sent(c))
        /\ stats.sent = 0 => stats.sum = 0
        /\ stats.sent > 0 =>
              /\ stats.min \in LatenciesOf(c) /\ stats.max \in LatenciesOf(c)
              /\ \A l \in LatenciesOf(c) : stats.min <= l /\ l <= stats.max
              /\ stats.min * stats.sent <= stats.sum /\ stats.sum <= stats.max * stats.sent

SentOf == [c \in DOMAIN channel_stats_ |-> channel_stats_[c].sent]

TotalInv ==
    /\ IsFiniteSet(DOMAIN channel_stats_)
    /\ SumFunction(SentOf) = Len(recorded)

\* The samples are the latencies recorded last.
SamplesInv ==
    /\ Len(latency_samples_) <= Len(recorded)
    /\ \A i \in 1 .. Len(latency_samples_) :
          latency_samples_[i] = recorded[Len(recorded) - Len(latency_samples_) + i][2]

StatsInv ==
    /\ \A c \in Channels : ChannelTrue(c)
    /\ TotalInv
    /\ SamplesInv
    /\ IsFiniteSet(DOMAIN nodes_)

\* Whoever holds the mutex has alerts that still tell what the tables hold.
AlertTrue(alert) ==
    \/ alert.measure = "cpu" /\ alert.source \in DOMAIN nodes_ /\ nodes_[alert.source].cpu = alert.value
    \/ alert.measure = "memory" /\ alert.source \in DOMAIN nodes_ /\ nodes_[alert.source].memory = alert.value
    \/ alert.measure = "latency" /\ latency_samples_ # << >> /\ Last(latency_samples_) = alert.value

AlertInv ==
    /\ mutex_ = NoThread => reentered = {}
    /\ \A t \in Threads : \A k \in 1 .. Len(alerts[t]) : AlertTrue(alerts[t][k])

SupervisorInv ==
    /\ SupervisorTypeOK
    /\ BeatInv
    /\ HeardInv
    /\ StatsInv
    /\ AlertInv

\* map[key] = value.
LEMMA PutFacts ==
  ASSUME NEW map, NEW key, NEW value
  PROVE  /\ DOMAIN Put(map, key, value) = DOMAIN map \cup {key}
         /\ Put(map, key, value)[key] = value
         /\ \A k \in DOMAIN map : k # key => Put(map, key, value)[k] = map[k]
  BY DEF Put

-----------------------------------------------------------------------------
(* The heartbeat monitor *)

\* A call that begins is about to store a time that is not behind what is known.
LEMMA BeatCalledStep ==
  ASSUME ClocksTypeOK, HeartbeatTypeOK, BeatInv, NEW t \in Threads, NEW p \in Peers,
         BeatCalled(t, p), UNCHANGED clocks
  PROVE  ClocksTypeOK' /\ HeartbeatTypeOK' /\ BeatInv'
<1> USE ClocksAssumption, HeartbeatAssumption
<1> DEFINE others == {u \in Threads : beatOf[u] = p}
<1>1. /\ beatOf[t] = NoPeer /\ p # NoPeer
      /\ beatOf' = [beatOf EXCEPT ![t] = p]
      /\ now' = [now EXCEPT ![t] = steady]
      /\ called' = [called EXCEPT ![p] = steady]
      /\ disturbed' = IF others = {} THEN disturbed ELSE disturbed \cup others \cup {t}
      /\ last_seen_' = last_seen_ /\ alone' = alone
      /\ steady' = steady /\ wall' = wall /\ adjustments' = adjustments
      /\ calls < MaxCalls /\ calls' = calls + 1
  BY DEF BeatCalled, OneMoreCall, clocks
<1>2. /\ steady \in Nat /\ steady <= MaxTime
      /\ \A q \in Peers : called[q] \in Int /\ alone[q] \in Int
      /\ \A u \in Threads : now[u] \in Nat
      /\ DOMAIN last_seen_ \subseteq Peers /\ \A q \in DOMAIN last_seen_ : last_seen_[q] \in Nat
  BY DEF ClocksTypeOK, HeartbeatTypeOK, Times
<1>3. ClocksTypeOK'
  BY <1>1 DEF ClocksTypeOK
<1>4. /\ beatOf' \in [Threads -> Peers \cup {NoPeer}] /\ now' \in [Threads -> Times]
      /\ called' \in [Peers -> Times \cup {-1}]
  BY <1>1, <1>2 DEF HeartbeatTypeOK, Times
<1>5. disturbed' \subseteq {u \in Threads : beatOf'[u] # NoPeer}
  BY <1>1 DEF HeartbeatTypeOK
<1>6. HeartbeatTypeOK'
  BY <1>1, <1>4, <1>5 DEF HeartbeatTypeOK, Times
<1>7. \A q \in Peers : called'[q] >= called[q] /\ called'[q] <= steady
  BY <1>1, <1>2 DEF BeatInv, HeartbeatTypeOK
<1>8. \A q \in Peers : alone[q] <= steady
  <2> SUFFICES ASSUME NEW q \in Peers PROVE alone[q] <= steady
    OBVIOUS
  <2>1. CASE alone[q] = -1
    BY <1>2, <2>1
  <2>2. CASE alone[q] # -1
    BY <1>2, <2>2 DEF BeatInv
  <2> QED
    BY <2>1, <2>2
<1>9. \A u \in Threads :
         beatOf'[u] # NoPeer => alone'[beatOf'[u]] <= now'[u] /\ now'[u] <= called'[beatOf'[u]]
  <2> SUFFICES ASSUME NEW u \in Threads, beatOf'[u] # NoPeer
               PROVE  alone[beatOf'[u]] <= now'[u] /\ now'[u] <= called'[beatOf'[u]]
    BY <1>1
  <2>1. CASE u = t
    BY <1>1, <1>2, <1>8, <2>1 DEF HeartbeatTypeOK
  <2>2. CASE u # t
    <3>1. beatOf'[u] = beatOf[u] /\ beatOf[u] \in Peers /\ now'[u] = now[u]
      BY <1>1, <2>2 DEF HeartbeatTypeOK
    <3>2. now[u] <= called[beatOf[u]] /\ alone[beatOf[u]] <= now[u]
      BY <3>1 DEF BeatInv
    <3> QED
      BY <1>2, <1>4, <1>7, <3>1, <3>2 DEF Times
  <2> QED
    BY <2>1, <2>2
<1>10. \A u, v \in Threads : beatOf'[u] # NoPeer /\ beatOf'[u] = beatOf'[v] /\ u # v => u \in disturbed'
  <2> SUFFICES ASSUME NEW u \in Threads, NEW v \in Threads,
                      beatOf'[u] # NoPeer, beatOf'[u] = beatOf'[v], u # v
               PROVE  u \in disturbed'
    OBVIOUS
  <2>1. CASE u # t /\ v # t
    BY <1>1, <2>1 DEF BeatInv, HeartbeatTypeOK
  <2>2. CASE u = t \/ v = t
    BY <1>1, <2>2 DEF HeartbeatTypeOK
  <2> QED
    BY <2>1, <2>2
<1>11. \A q \in DOMAIN last_seen_ : last_seen_[q] <= called'[q]
  BY <1>2, <1>4, <1>7 DEF BeatInv, Times
<1> QED
  BY <1>1, <1>3, <1>6, <1>7, <1>9, <1>10, <1>11 DEF BeatInv

\* Undisturbed, what is stored is the latest; disturbed, it is one of the calls met.
LEMMA BeatStoresStep ==
  ASSUME ClocksTypeOK, HeartbeatTypeOK, BeatInv, NEW t \in Threads,
         BeatStores(t), UNCHANGED clocks
  PROVE  ClocksTypeOK' /\ HeartbeatTypeOK' /\ BeatInv'
<1> USE ClocksAssumption, HeartbeatAssumption
<1> DEFINE p == beatOf[t]
<1>1. /\ p # NoPeer
      /\ last_seen_' = Put(last_seen_, p, now[t])
      /\ alone' = IF t \in disturbed THEN alone ELSE [alone EXCEPT ![p] = now[t]]
      /\ beatOf' = [beatOf EXCEPT ![t] = NoPeer]
      /\ now' = [now EXCEPT ![t] = 0]
      /\ disturbed' = disturbed \ {t}
      /\ called' = called /\ calls' = calls
      /\ steady' = steady /\ wall' = wall /\ adjustments' = adjustments
  BY DEF BeatStores, Seen, clocks
<1>2. p \in Peers /\ now[t] \in Times /\ now[t] \in Nat
  BY <1>1 DEF HeartbeatTypeOK, Times
<1>3. /\ \A q \in Peers : called[q] \in Int /\ alone[q] \in Int
      /\ \A u \in Threads : now[u] \in Nat
      /\ DOMAIN last_seen_ \subseteq Peers /\ \A q \in DOMAIN last_seen_ : last_seen_[q] \in Nat
  BY DEF HeartbeatTypeOK, Times
<1>5. alone[p] <= now[t] /\ now[t] <= called[p]
  BY <1>1 DEF BeatInv
<1> HIDE DEF p
<1>4. /\ DOMAIN last_seen_' = DOMAIN last_seen_ \cup {p}
      /\ last_seen_'[p] = now[t]
      /\ \A q \in DOMAIN last_seen_ : q # p => last_seen_'[q] = last_seen_[q]
  BY <1>1 DEF Put
<1>6. ClocksTypeOK'
  BY <1>1 DEF ClocksTypeOK
<1>7. HeartbeatTypeOK'
  <2>1. alone' \in [Peers -> Times \cup {-1}] /\ beatOf' \in [Threads -> Peers \cup {NoPeer}]
        /\ now' \in [Threads -> Times]
    BY <1>1, <1>2 DEF HeartbeatTypeOK, Times
  <2>2. DOMAIN last_seen_' \subseteq Peers /\ \A q \in DOMAIN last_seen_' : last_seen_'[q] \in Times
    BY <1>2, <1>4 DEF HeartbeatTypeOK
  <2>3. disturbed' \subseteq {u \in Threads : beatOf'[u] # NoPeer}
    BY <1>1 DEF HeartbeatTypeOK
  <2> QED
    BY <1>1, <2>1, <2>2, <2>3 DEF HeartbeatTypeOK, Times
<1>8. \A q \in Peers : q # p => alone'[q] = alone[q]
  BY <1>1, <1>2 DEF HeartbeatTypeOK
<1>9. alone'[p] <= now[t]
  BY <1>1, <1>2, <1>5 DEF HeartbeatTypeOK
<1>10. \A u \in Threads :
          beatOf'[u] # NoPeer => alone'[beatOf'[u]] <= now'[u] /\ now'[u] <= called'[beatOf'[u]]
  <2> SUFFICES ASSUME NEW u \in Threads, beatOf'[u] # NoPeer
               PROVE  alone'[beatOf'[u]] <= now'[u] /\ now'[u] <= called'[beatOf'[u]]
    OBVIOUS
  <2>1. u # t /\ beatOf'[u] = beatOf[u] /\ beatOf[u] \in Peers /\ now'[u] = now[u]
    BY <1>1 DEF HeartbeatTypeOK
  <2>2. alone[beatOf[u]] <= now[u] /\ now[u] <= called[beatOf[u]]
    BY <2>1 DEF BeatInv
  <2>3. CASE beatOf[u] = p
    <3>1. t \in disturbed
      BY <1>1, <2>1, <2>3 DEF BeatInv, p
    <3> QED
      BY <1>1, <2>1, <2>2, <3>1
  <2>4. CASE beatOf[u] # p
    BY <1>1, <1>8, <2>1, <2>2, <2>4
  <2> QED
    BY <2>3, <2>4
<1>11. \A u, v \in Threads : beatOf'[u] # NoPeer /\ beatOf'[u] = beatOf'[v] /\ u # v => u \in disturbed'
  BY <1>1 DEF BeatInv, HeartbeatTypeOK
<1>12. \A q \in Peers : alone'[q] # -1 => q \in DOMAIN last_seen_'
  BY <1>4, <1>8 DEF BeatInv
<1>13. \A q \in DOMAIN last_seen_' : alone'[q] <= last_seen_'[q] /\ last_seen_'[q] <= called'[q]
  BY <1>1, <1>3, <1>4, <1>5, <1>8, <1>9 DEF BeatInv
<1> QED
  BY <1>1, <1>6, <1>7, <1>10, <1>11, <1>12, <1>13 DEF BeatInv

-----------------------------------------------------------------------------
(* The system monitor *)

\* The parts of MonitorTypeOK.
SettingsOK == config_ \in Configs /\ is_running \in BOOLEAN /\ alert_callback_ \in BOOLEAN
TablesOK ==
    /\ DOMAIN nodes_ \subseteq Nodes /\ \A n \in DOMAIN nodes_ : nodes_[n] \in NodeInfos
    /\ DOMAIN channel_stats_ \subseteq Channels
    /\ \A c \in DOMAIN channel_stats_ : channel_stats_[c] \in ChannelStats
    /\ DOMAIN topic_stats_ \subseteq Topics /\ \A t \in DOMAIN topic_stats_ : topic_stats_[t] \in Nat
    /\ latency_samples_ \in Seq(Latencies) /\ Len(latency_samples_) <= MaxSamples
    /\ heard \in [Nodes -> -1 .. MaxTime] /\ shift \in [Nodes -> Int]
    /\ recorded \in Seq(Channels \X Latencies)
CallbackOK ==
    /\ mutex_ \in Threads \cup {NoThread}
    /\ alerts \in [Threads -> Seq(Alerts)]
    /\ \A t \in Threads : mutex_ = t <=> alerts[t] # << >>
    /\ reentered \subseteq {mutex_}

MonitorInv == MonitorTypeOK /\ HeardInv /\ StatsInv /\ AlertInv

\* The type invariant of the monitor is that of its parts.
LEMMA MonitorTypeParts == MonitorTypeOK <=> SettingsOK /\ TablesOK /\ CallbackOK
  BY DEF MonitorTypeOK, SettingsOK, TablesOK, CallbackOK

\* The statistics hold of what they are computed from.
LEMMA StatsKept ==
  ASSUME StatsInv, UNCHANGED <<channel_stats_, latency_samples_, recorded>>, IsFiniteSet(DOMAIN nodes_')
  PROVE  StatsInv'
<1>1. \A c \in Channels : ChannelTrue(c)'
  <2> SUFFICES ASSUME NEW c \in Channels PROVE ChannelTrue(c)'
    OBVIOUS
  <2>1. Stats(c)' = Stats(c) /\ Sent(c)' = Sent(c)
    BY DEF Stats, Sent
  <2>2. LatenciesOf(c)' = LatenciesOf(c)
    BY <2>1 DEF LatenciesOf
  <2> QED
    BY <2>1, <2>2 DEF StatsInv, ChannelTrue
<1>2. SentOf' = SentOf
  BY DEF SentOf
<1>3. TotalInv' /\ SamplesInv'
  BY <1>2 DEF StatsInv, TotalInv, SamplesInv
<1> QED
  BY <1>1, <1>3 DEF StatsInv

\* The settings are nobody else's business.
LEMMA SettingsStep ==
  ASSUME MonitorInv, SettingsOK', UNCHANGED <<tables, callback, heard, shift, recorded, clocks>>
  PROVE  MonitorInv'
<1>1. TablesOK' /\ CallbackOK'
  BY MonitorTypeParts DEF MonitorInv, TablesOK, CallbackOK, tables, callback
<1>2. MonitorTypeOK'
  BY <1>1 DEF MonitorTypeOK, SettingsOK, TablesOK, CallbackOK
<1>3. HeardInv'
  BY DEF MonitorInv, HeardInv, HeartbeatOf, tables, clocks
<1>4. StatsInv'
  BY StatsKept DEF MonitorInv, StatsInv, tables
<1>5. AlertInv'
  BY DEF MonitorInv, AlertInv, AlertTrue, Last, tables, callback
<1> QED
  BY <1>2, <1>3, <1>4, <1>5 DEF MonitorInv

\* Nobody has alerts when an operation begins.
LEMMA LockedIsQuiet ==
  ASSUME CallbackOK, Locked
  PROVE  \A t \in Threads : alerts[t] = << >>
  BY MonitorAssumption DEF CallbackOK, Locked

\* The operation returns without an alert.
LEMMA CallbackKept ==
  ASSUME CallbackOK, AlertInv, Locked, UNCHANGED callback
  PROVE  CallbackOK' /\ AlertInv'
<1>1. CallbackOK'
  BY DEF CallbackOK, callback
<1>2. \A t \in Threads : alerts'[t] = << >>
  BY LockedIsQuiet DEF callback
<1> QED
  BY <1>1, <1>2 DEF AlertInv, callback

\* The operation goes on to the callbacks of the alerts, if any.
LEMMA RaiseStep ==
  ASSUME CallbackOK, AlertInv, Locked, NEW t \in Threads, NEW raised \in Seq(Alerts), Raise(t, raised),
         \A k \in 1 .. Len(raised) : AlertTrue(raised[k])'
  PROVE  CallbackOK' /\ AlertInv'
<1>1. \A u \in Threads : alerts[u] = << >>
  BY LockedIsQuiet
<1>2. reentered' = {}
  BY DEF AlertInv, Raise, Locked
<1>3. alerts'[t] = raised /\ \A u \in Threads : u # t => alerts'[u] = << >>
  BY <1>1 DEF CallbackOK, Raise
<1>4. mutex_' = IF raised = << >> THEN NoThread ELSE t
  BY DEF Raise
<1>5. alerts' \in [Threads -> Seq(Alerts)]
  BY DEF CallbackOK, Raise
<1>6. \A u \in Threads : mutex_' = u <=> alerts'[u] # << >>
  BY <1>3, <1>4, MonitorAssumption
<1>7. CallbackOK'
  BY <1>2, <1>4, <1>5, <1>6 DEF CallbackOK
<1>8. \A u \in Threads : \A k \in 1 .. Len(alerts'[u]) : AlertTrue(alerts[u][k])'
  BY <1>3 DEF AlertTrue
<1> QED
  BY <1>2, <1>7, <1>8 DEF AlertInv

\* A table of nodes of the right type, and what was heard of them.
LEMMA NodesStep ==
  ASSUME MonitorTypeOK, StatsInv, DOMAIN nodes_' \subseteq Nodes, \A n \in DOMAIN nodes_' : nodes_'[n] \in NodeInfos,
         heard' \in [Nodes -> -1 .. MaxTime], shift' \in [Nodes -> Int], IsFiniteSet(DOMAIN nodes_'),
         UNCHANGED <<settings, channel_stats_, topic_stats_, latency_samples_, recorded>>
  PROVE  SettingsOK' /\ TablesOK' /\ StatsInv'
<1>1. SettingsOK' /\ TablesOK'
  BY DEF MonitorTypeOK, SettingsOK, TablesOK, settings
<1> QED
  BY <1>1, StatsKept

\* registerNode with the present time, or without one.
LEMMA RegisterNodeStep ==
  ASSUME ClocksTypeOK, MonitorInv, NEW n \in Nodes, NEW status \in Statuses, NEW heartbeat \in {0, wall},
         RegisterNode(n, status, heartbeat), UNCHANGED clocks
  PROVE  MonitorInv'
<1> USE ClocksAssumption, MonitorAssumption
<1> DEFINE info == [status |-> status, last_heartbeat |-> heartbeat, cpu |-> 0, memory |-> 0]
<1>1. MonitorTypeOK /\ HeardInv /\ StatsInv /\ AlertInv /\ SettingsOK /\ TablesOK /\ CallbackOK
  BY MonitorTypeParts DEF MonitorInv
<1>2. /\ Locked /\ nodes_' = Put(nodes_, n, info)
      /\ heard' = [heard EXCEPT ![n] = IF heartbeat = wall THEN steady ELSE -1]
      /\ shift' = [shift EXCEPT ![n] = 0]
      /\ UNCHANGED <<settings, channel_stats_, topic_stats_, latency_samples_, callback, recorded>>
      /\ steady' = steady /\ wall' = wall
  BY DEF RegisterNode, Call, clocks
<1>3. steady \in Nat /\ steady <= MaxTime /\ wall \in Nat /\ wall < Modulus /\ wall <= Epoch + 2 * MaxTime
  BY <1>1 DEF ClocksTypeOK, HeardInv
<1>4. info \in NodeInfos /\ info.last_heartbeat = heartbeat
  BY <1>3 DEF NodeInfos
<1> HIDE DEF info
<1>5. /\ DOMAIN nodes_' = DOMAIN nodes_ \cup {n} /\ nodes_'[n] = info
      /\ \A m \in DOMAIN nodes_ : m # n => nodes_'[m] = nodes_[m]
  BY <1>2 DEF Put
<1>6. IsFiniteSet(DOMAIN nodes_')
  BY <1>1, <1>5, FS_AddElement DEF StatsInv
<1>7. heard' \in [Nodes -> -1 .. MaxTime] /\ shift' \in [Nodes -> Int]
  <2>1. heard \in [Nodes -> -1 .. MaxTime] /\ shift \in [Nodes -> Int]
    BY <1>1 DEF TablesOK
  <2>2. steady \in -1 .. MaxTime /\ -1 \in -1 .. MaxTime
    BY <1>3
  <2> QED
    BY <1>2, <2>1, <2>2
<1>8. DOMAIN nodes_' \subseteq Nodes /\ \A m \in DOMAIN nodes_' : nodes_'[m] \in NodeInfos
  BY <1>1, <1>4, <1>5 DEF TablesOK
<1>9. SettingsOK' /\ TablesOK' /\ StatsInv'
  BY <1>1, <1>2, <1>6, <1>7, <1>8, NodesStep
<1>10. CallbackOK' /\ AlertInv'
  BY <1>1, <1>2, CallbackKept
<1>11. HeardInv'
  <2>1. \A m \in Nodes : heard'[m] <= steady
    BY <1>1, <1>2, <1>3 DEF HeardInv, TablesOK
  <2>2. ASSUME NEW m \in DOMAIN nodes_'
        PROVE  nodes_'[m].last_heartbeat = HeartbeatOf(m)' /\ nodes_'[m].last_heartbeat <= Epoch + 2 * MaxTime
    <3>1. CASE m = n
      <4>1. heard'[n] = (IF heartbeat = wall THEN steady ELSE -1) /\ shift'[n] = 0
        BY <1>1, <1>2 DEF TablesOK
      <4>2. nodes_'[n].last_heartbeat = heartbeat /\ (heartbeat = wall \/ heartbeat = 0)
        BY <1>4, <1>5
      <4> QED
        BY <1>2, <1>3, <3>1, <4>1, <4>2 DEF HeartbeatOf
    <3>2. CASE m # n
      <4>1. m \in DOMAIN nodes_ /\ m \in Nodes /\ nodes_'[m] = nodes_[m]
        BY <1>1, <1>5, <2>2, <3>2 DEF TablesOK
      <4>2. heard'[m] = heard[m] /\ shift'[m] = shift[m]
        BY <1>1, <1>2, <3>2, <4>1 DEF TablesOK
      <4> QED
        BY <1>1, <1>2, <4>1, <4>2 DEF HeardInv, HeartbeatOf
    <3> QED
      BY <3>1, <3>2
  <2> QED
    BY <1>1, <1>2, <2>1, <2>2 DEF HeardInv
<1>12. MonitorTypeOK'
  BY <1>9, <1>10 DEF MonitorTypeOK, SettingsOK, TablesOK, CallbackOK
<1> QED
  BY <1>9, <1>10, <1>11, <1>12 DEF MonitorInv

\* unregisterNode.
LEMMA UnregisterNodeStep ==
  ASSUME MonitorInv, NEW n \in Nodes, UnregisterNode(n), UNCHANGED clocks
  PROVE  MonitorInv'
<1>1. MonitorTypeOK /\ HeardInv /\ StatsInv /\ AlertInv /\ TablesOK /\ CallbackOK
  BY MonitorTypeParts DEF MonitorInv
<1>2. /\ Locked /\ nodes_' = [m \in DOMAIN nodes_ \ {n} |-> nodes_[m]]
      /\ UNCHANGED <<settings, channel_stats_, topic_stats_, latency_samples_, callback, heard, shift, recorded>>
      /\ steady' = steady /\ wall' = wall
  BY DEF UnregisterNode, Call, clocks
<1>3. IsFiniteSet(DOMAIN nodes_')
  BY <1>1, <1>2, FS_Subset DEF StatsInv
<1>4. SettingsOK' /\ TablesOK' /\ StatsInv'
  BY <1>1, <1>2, <1>3, NodesStep DEF TablesOK
<1>5. CallbackOK' /\ AlertInv'
  BY <1>1, <1>2, CallbackKept
<1>6. HeardInv'
  BY <1>1, <1>2 DEF HeardInv, HeartbeatOf
<1>7. MonitorTypeOK'
  BY <1>4, <1>5 DEF MonitorTypeOK, SettingsOK, TablesOK, CallbackOK
<1> QED
  BY <1>4, <1>5, <1>6, <1>7 DEF MonitorInv

\* updateHeartbeat: heard of now, by both clocks.
LEMMA UpdateHeartbeatStep ==
  ASSUME ClocksTypeOK, MonitorInv, NEW n \in Nodes, UpdateHeartbeat(n), UNCHANGED clocks
  PROVE  MonitorInv'
<1> USE ClocksAssumption, MonitorAssumption
<1> DEFINE info == [nodes_[n] EXCEPT !.last_heartbeat = wall, !.status = "RUNNING"]
<1>1. MonitorTypeOK /\ HeardInv /\ StatsInv /\ AlertInv /\ TablesOK /\ CallbackOK
  BY MonitorTypeParts DEF MonitorInv
<1>2. /\ Locked /\ n \in DOMAIN nodes_ /\ nodes_' = [nodes_ EXCEPT ![n] = info]
      /\ heard' = [heard EXCEPT ![n] = steady] /\ shift' = [shift EXCEPT ![n] = 0]
      /\ UNCHANGED <<settings, channel_stats_, topic_stats_, latency_samples_, callback, recorded>>
      /\ steady' = steady /\ wall' = wall
  BY DEF UpdateHeartbeat, Call, clocks
<1>3. steady \in Nat /\ steady <= MaxTime /\ wall \in Nat /\ wall < Modulus /\ wall <= Epoch + 2 * MaxTime
  BY <1>1 DEF ClocksTypeOK, HeardInv
<1>4. info \in NodeInfos /\ info.last_heartbeat = wall
  <2>1. nodes_[n] \in NodeInfos
    BY <1>1, <1>2 DEF TablesOK
  <2>2. wall \in 0 .. Modulus - 1 /\ "RUNNING" \in Statuses
    BY <1>3 DEF Statuses
  <2> QED
    BY <2>1, <2>2 DEF NodeInfos
<1> HIDE DEF info
<1>5. /\ DOMAIN nodes_' = DOMAIN nodes_ /\ nodes_'[n] = info
      /\ \A m \in DOMAIN nodes_ : m # n => nodes_'[m] = nodes_[m]
  BY <1>2
<1>6. IsFiniteSet(DOMAIN nodes_')
  BY <1>1, <1>5 DEF StatsInv
<1>7. heard' \in [Nodes -> -1 .. MaxTime] /\ shift' \in [Nodes -> Int]
  <2>1. heard \in [Nodes -> -1 .. MaxTime] /\ shift \in [Nodes -> Int]
    BY <1>1 DEF TablesOK
  <2>2. steady \in -1 .. MaxTime /\ -1 \in -1 .. MaxTime
    BY <1>3
  <2> QED
    BY <1>2, <2>1, <2>2
<1>8. DOMAIN nodes_' \subseteq Nodes /\ \A m \in DOMAIN nodes_' : nodes_'[m] \in NodeInfos
  BY <1>1, <1>4, <1>5 DEF TablesOK
<1>9. SettingsOK' /\ TablesOK' /\ StatsInv'
  BY <1>1, <1>2, <1>6, <1>7, <1>8, NodesStep
<1>10. CallbackOK' /\ AlertInv'
  BY <1>1, <1>2, CallbackKept
<1>11. HeardInv'
  <2>1. \A m \in Nodes : heard'[m] <= steady
    BY <1>1, <1>2, <1>3 DEF HeardInv, TablesOK
  <2>2. ASSUME NEW m \in DOMAIN nodes_
        PROVE  nodes_'[m].last_heartbeat = HeartbeatOf(m)' /\ nodes_'[m].last_heartbeat <= Epoch + 2 * MaxTime
    <3>1. CASE m = n
      <4>1. heard'[n] = steady /\ shift'[n] = 0
        BY <1>1, <1>2 DEF TablesOK
      <4> QED
        BY <1>2, <1>3, <1>4, <1>5, <3>1, <4>1 DEF HeartbeatOf
    <3>2. CASE m # n
      <4>1. m \in Nodes /\ nodes_'[m] = nodes_[m]
        BY <1>1, <1>5, <2>2, <3>2 DEF TablesOK
      <4>2. heard'[m] = heard[m] /\ shift'[m] = shift[m]
        BY <1>1, <1>2, <3>2, <4>1 DEF TablesOK
      <4> QED
        BY <1>1, <1>2, <2>2, <4>1, <4>2 DEF HeardInv, HeartbeatOf
    <3> QED
      BY <3>1, <3>2
  <2> QED
    BY <1>1, <1>2, <1>5, <2>1, <2>2 DEF HeardInv
<1>12. MonitorTypeOK'
  BY <1>9, <1>10 DEF MonitorTypeOK, SettingsOK, TablesOK, CallbackOK
<1> QED
  BY <1>9, <1>10, <1>11, <1>12 DEF MonitorInv

\* updateNodeResources, and the alerts it raises.
LEMMA UpdateNodeResourcesStep ==
  ASSUME MonitorInv, NEW t \in Threads, NEW n \in Nodes, NEW cpu \in 0 .. 1, NEW memory \in 0 .. 1,
         UpdateNodeResources(t, n, cpu, memory), UNCHANGED clocks
  PROVE  MonitorInv'
<1> DEFINE info == [nodes_[n] EXCEPT !.cpu = cpu, !.memory = memory]
           over == (IF cpu = 1 THEN <<Alert(n, "cpu", cpu)>> ELSE << >>)
                   \o (IF memory = 1 THEN <<Alert(n, "memory", memory)>> ELSE << >>)
<1>1. MonitorTypeOK /\ HeardInv /\ StatsInv /\ AlertInv /\ TablesOK /\ CallbackOK
  BY MonitorTypeParts DEF MonitorInv
<1>2. /\ Locked /\ n \in DOMAIN nodes_ /\ nodes_' = [nodes_ EXCEPT ![n] = info]
      /\ Raise(t, IF Alerting THEN over ELSE << >>)
      /\ UNCHANGED <<settings, channel_stats_, topic_stats_, latency_samples_, heard, shift, recorded>>
      /\ steady' = steady /\ wall' = wall
  BY DEF UpdateNodeResources, Call, clocks
<1>3. /\ info \in NodeInfos /\ info.last_heartbeat = nodes_[n].last_heartbeat
      /\ info.cpu = cpu /\ info.memory = memory
  BY <1>1, <1>2 DEF NodeInfos, TablesOK
<1>4. PICK raised \in Seq(Alerts) :
         /\ Raise(t, raised)
         /\ \A k \in 1 .. Len(raised) :
               raised[k] = Alert(n, "cpu", cpu) \/ raised[k] = Alert(n, "memory", memory)
  <2>1. Alert(n, "cpu", cpu) \in Alerts /\ Alert(n, "memory", memory) \in Alerts
    BY DEF Alert, Alerts
  <2>2. /\ over \in Seq(Alerts)
        /\ \A k \in 1 .. Len(over) :
              over[k] = Alert(n, "cpu", cpu) \/ over[k] = Alert(n, "memory", memory)
    BY <2>1
  <2> HIDE DEF over
  <2>3. CASE Alerting
    BY <1>2, <2>2, <2>3
  <2>4. CASE ~Alerting
    <3>1. << >> \in Seq(Alerts) /\ Len(<< >>) = 0 /\ Raise(t, << >>)
      BY <1>2, <2>4
    <3> HIDE DEF info
    <3> WITNESS << >> \in Seq(Alerts)
    <3> QED
      BY <3>1
  <2> QED
    BY <2>3, <2>4
<1> HIDE DEF info
<1>5. /\ DOMAIN nodes_' = DOMAIN nodes_ /\ nodes_'[n] = info
      /\ \A m \in DOMAIN nodes_ : m # n => nodes_'[m] = nodes_[m]
  BY <1>2
<1>6. IsFiniteSet(DOMAIN nodes_') /\ heard' \in [Nodes -> -1 .. MaxTime] /\ shift' \in [Nodes -> Int]
  BY <1>1, <1>2, <1>5 DEF StatsInv, TablesOK
<1>7. DOMAIN nodes_' \subseteq Nodes /\ \A m \in DOMAIN nodes_' : nodes_'[m] \in NodeInfos
  BY <1>1, <1>3, <1>5 DEF TablesOK
<1>8. SettingsOK' /\ TablesOK' /\ StatsInv'
  BY <1>1, <1>2, <1>6, <1>7, NodesStep
<1>9. \A k \in 1 .. Len(raised) : AlertTrue(raised[k])'
  <2>1. AlertTrue(Alert(n, "cpu", cpu))' /\ AlertTrue(Alert(n, "memory", memory))'
    BY <1>2, <1>3, <1>5 DEF AlertTrue, Alert
  <2> QED
    BY <1>4, <2>1 DEF AlertTrue
<1>10. CallbackOK' /\ AlertInv'
  BY <1>1, <1>2, <1>4, <1>9, RaiseStep
<1>11. HeardInv'
  BY <1>1, <1>2, <1>3, <1>5 DEF HeardInv, HeartbeatOf
<1>12. MonitorTypeOK'
  BY <1>8, <1>10 DEF MonitorTypeOK, SettingsOK, TablesOK, CallbackOK
<1> QED
  BY <1>8, <1>10, <1>11, <1>12 DEF MonitorInv

-----------------------------------------------------------------------------
(* The statistics of the channels *)

\* A sum follows the one value that is set.
LEMMA SumFollows ==
  ASSUME NEW f, IsFiniteSet(DOMAIN f), \A x \in DOMAIN f : f[x] \in Nat,
         NEW c, NEW v \in Nat, NEW g, DOMAIN g = DOMAIN f \cup {c}, g[c] = v,
         \A x \in DOMAIN f : x # c => g[x] = f[x],
         NEW old, old = IF c \in DOMAIN f THEN f[c] ELSE 0
  PROVE  SumFunction(f) \in Nat /\ SumFunction(g) + old = SumFunction(f) + v
<1> DEFINE D == DOMAIN f \ {c}
<1>1. IsFiniteSet(D) /\ IsFiniteSet(DOMAIN g) /\ D = DOMAIN g \ {c} /\ c \in DOMAIN g
  BY FS_Subset, FS_AddElement
<1>2. \A x \in DOMAIN g : g[x] \in Nat
  OBVIOUS
<1>3. SumFunctionOnSet(g, DOMAIN g) = v + SumFunctionOnSet(g, DOMAIN g \ {c})
  BY <1>1, <1>2, SumSplit
<1>4. SumFunctionOnSet(f, D) = SumFunctionOnSet(g, D)
  <2>1. \A x \in D : f[x] \in Nat /\ g[x] = f[x]
    OBVIOUS
  <2> HIDE DEF D
  <2> QED
    BY <1>1, <2>1, SumSame
<1>5. SumFunctionOnSet(f, D) \in Nat /\ SumFunctionOnSet(f, DOMAIN f) \in Nat
  <2>1. \A x \in D : f[x] \in Nat
    OBVIOUS
  <2> HIDE DEF D
  <2> QED
    BY <1>1, <2>1, SumSplit
<1>6. SumFunctionOnSet(f, DOMAIN f) = old + SumFunctionOnSet(f, D)
  <2>1. CASE c \in DOMAIN f
    BY <2>1, SumSplit
  <2>2. CASE c \notin DOMAIN f
    <3>1. D = DOMAIN f /\ old = 0
      BY <2>2
    <3> HIDE DEF D
    <3> QED
      BY <1>5, <3>1
  <2> QED
    BY <2>1, <2>2
<1>7. old \in Nat
  OBVIOUS
<1> HIDE DEF D
<1> QED
  BY <1>1, <1>3, <1>4, <1>5, <1>6, <1>7 DEF SumFunction

\* One channel's entry is set: the others stay, the total follows.
LEMMA SetStatsFacts ==
  ASSUME TablesOK, TotalInv, NEW c \in Channels, NEW stats \in ChannelStats,
         channel_stats_' = Put(channel_stats_, c, stats)
  PROVE  /\ DOMAIN channel_stats_' \subseteq Channels
         /\ \A d \in DOMAIN channel_stats_' : channel_stats_'[d] \in ChannelStats
         /\ IsFiniteSet(DOMAIN channel_stats_')
         /\ Stats(c)' = stats
         /\ \A d \in Channels : d # c => Stats(d)' = Stats(d)
         /\ SumFunction(SentOf') + Stats(c).sent = Len(recorded) + stats.sent
<1>1. /\ DOMAIN channel_stats_' = DOMAIN channel_stats_ \cup {c}
      /\ channel_stats_'[c] = stats
      /\ \A d \in DOMAIN channel_stats_ : d # c => channel_stats_'[d] = channel_stats_[d]
  BY DEF Put
<1>2. /\ DOMAIN channel_stats_ \subseteq Channels
      /\ \A d \in DOMAIN channel_stats_ : channel_stats_[d] \in ChannelStats
      /\ IsFiniteSet(DOMAIN channel_stats_)
  BY DEF TablesOK, TotalInv
<1>3. IsFiniteSet(DOMAIN channel_stats_')
  BY <1>1, <1>2, FS_AddElement
<1>4. Stats(c)' = stats /\ \A d \in Channels : d # c => Stats(d)' = Stats(d)
  BY <1>1 DEF Stats, NoStats
<1>5. /\ DOMAIN SentOf = DOMAIN channel_stats_ /\ DOMAIN SentOf' = DOMAIN SentOf \cup {c}
      /\ \A d \in DOMAIN SentOf : SentOf[d] \in Nat
      /\ SentOf'[c] = stats.sent /\ stats.sent \in Nat
      /\ \A d \in DOMAIN SentOf : d # c => SentOf'[d] = SentOf[d]
      /\ Stats(c).sent = IF c \in DOMAIN SentOf THEN SentOf[c] ELSE 0
  BY <1>1, <1>2 DEF SentOf, ChannelStats, Stats, NoStats
<1>6. SumFunction(SentOf') + Stats(c).sent = SumFunction(SentOf) + stats.sent
  <2>1. IsFiniteSet(DOMAIN SentOf)
    BY <1>2, <1>5
  <2> DEFINE f == SentOf
             g == SentOf'
             old == Stats(c).sent
  <2>2. /\ IsFiniteSet(DOMAIN f) /\ DOMAIN g = DOMAIN f \cup {c} /\ \A d \in DOMAIN f : f[d] \in Nat
        /\ g[c] = stats.sent /\ stats.sent \in Nat /\ \A d \in DOMAIN f : d # c => g[d] = f[d]
        /\ old = IF c \in DOMAIN f THEN f[c] ELSE 0
    BY <1>5, <2>1
  <2> HIDE DEF f, g, old
  <2>3. SumFunction(g) + old = SumFunction(f) + stats.sent
    BY <2>2, SumFollows, SMTT(30)
  <2> QED
    BY <2>3 DEF f, g, old
<1> QED
  BY <1>1, <1>2, <1>3, <1>4, <1>6 DEF TotalInv

\* An entry, or the zeros that stand for none.
LEMMA StatsTypes ==
  ASSUME TablesOK
  PROVE  \A c \in Channels : Stats(c) \in ChannelStats
  BY DEF TablesOK, Stats, NoStats, ChannelStats

\* A message received or dropped: the rest of the entry is kept, or made.
LEMMA CountStep ==
  ASSUME MonitorInv, NEW c \in Channels, NEW stats \in ChannelStats,
         stats.sent = Stats(c).sent, stats.min = Stats(c).min, stats.max = Stats(c).max, stats.sum = Stats(c).sum,
         Locked, SetStats(c, stats),
         UNCHANGED <<settings, nodes_, topic_stats_, latency_samples_, callback, heard, shift, recorded, clocks>>
  PROVE  MonitorInv'
<1>1. MonitorTypeOK /\ HeardInv /\ StatsInv /\ AlertInv /\ SettingsOK /\ TablesOK /\ CallbackOK
  BY MonitorTypeParts DEF MonitorInv
<1>2. TotalInv /\ channel_stats_' = Put(channel_stats_, c, stats)
  BY <1>1 DEF StatsInv, SetStats
<1>3. /\ DOMAIN channel_stats_' \subseteq Channels
      /\ \A d \in DOMAIN channel_stats_' : channel_stats_'[d] \in ChannelStats
      /\ IsFiniteSet(DOMAIN channel_stats_')
      /\ Stats(c)' = stats
      /\ \A d \in Channels : d # c => Stats(d)' = Stats(d)
      /\ SumFunction(SentOf') + Stats(c).sent = Len(recorded) + stats.sent
  BY <1>1, <1>2, SetStatsFacts
<1>4. SettingsOK' /\ TablesOK'
  BY <1>1, <1>3 DEF SettingsOK, TablesOK, settings
<1>5. CallbackOK' /\ AlertInv'
  BY <1>1, CallbackKept
<1>6. HeardInv'
  BY <1>1 DEF HeardInv, HeartbeatOf, clocks
<1>7. ASSUME NEW d \in Channels
      PROVE  ChannelTrue(d)'
  <2>1. Sent(d)' = Sent(d)
    BY DEF Sent
  <2>2. LatenciesOf(d)' = LatenciesOf(d)
    BY <2>1 DEF LatenciesOf
  <2>3. /\ Stats(d)'.sent = Stats(d).sent /\ Stats(d)'.min = Stats(d).min
        /\ Stats(d)'.max = Stats(d).max /\ Stats(d)'.sum = Stats(d).sum
    BY <1>3
  <2> QED
    BY <1>1, <2>1, <2>2, <2>3 DEF StatsInv, ChannelTrue
<1>8. TotalInv'
  <2>1. SumFunction(SentOf') = Len(recorded)
    <3>1. Stats(c).sent \in Nat /\ Len(recorded) \in Nat
      BY <1>1, StatsTypes DEF ChannelStats, TablesOK
    <3>2. SumFunction(SentOf') + Stats(c).sent = Len(recorded) + Stats(c).sent
      BY <1>3
    <3>3. SumFunction(SentOf') \in Nat
      <4>1. \A d \in DOMAIN SentOf' : SentOf'[d] \in Nat
        BY <1>3 DEF SentOf, ChannelStats
      <4>2. IsFiniteSet(DOMAIN SentOf')
        BY <1>3 DEF SentOf
      <4> QED
        BY <4>1, <4>2, SumSplit DEF SumFunction
    <3> QED
      BY <3>1, <3>2, <3>3
  <2> QED
    BY <1>3, <2>1 DEF TotalInv
<1>9. StatsInv'
  BY <1>1, <1>7, <1>8 DEF StatsInv, SamplesInv
<1>10. MonitorTypeOK'
  BY <1>4, <1>5 DEF MonitorTypeOK, SettingsOK, TablesOK, CallbackOK
<1> QED
  BY <1>5, <1>6, <1>9, <1>10 DEF MonitorInv

\* Sums are ordered as their parts are.
LEMMA SumsOrdered ==
  ASSUME NEW a \in Nat, NEW b \in Nat, NEW s \in Nat, NEW l \in Nat, NEW m \in Nat, NEW n \in Nat,
         a <= s, s <= b, m <= l, l <= n
  PROVE  a + m <= s + l /\ s + l <= b + n
  OBVIOUS

\* Products that bound a sum, with one more summand.
LEMMA BoundsStep ==
  ASSUME NEW a \in Nat, NEW b \in Nat, NEW n \in Nat, a <= b
  PROVE  /\ a * n \in Nat /\ b * n \in Nat /\ a * n <= b * n
         /\ a * (n + 1) = a * n + a /\ b * (n + 1) = b * n + b
<1>1. a * n \in Nat /\ b * n \in Nat /\ (b - a) * n \in Nat
  OBVIOUS
<1>2. b * n = a * n + (b - a) * n
  OBVIOUS
<1> QED
  BY <1>1, <1>2

\* The statistics of the channel a message is recorded for.
LEMMA MeasuredTrue ==
  ASSUME TablesOK, NEW c \in Channels, ChannelTrue(c), NEW latency \in Latencies,
         Stats(c)' = Measured(c, latency), recorded' = Append(recorded, <<c, latency>>)
  PROVE  ChannelTrue(c)' /\ Measured(c, latency) \in ChannelStats /\ Measured(c, latency).sent = Stats(c).sent + 1
<1> USE MonitorAssumption
<1> DEFINE old == Stats(c)
           new == Measured(c, latency)
           last == Len(recorded) + 1
<1>1. /\ old \in ChannelStats /\ old.sent \in Nat /\ old.min \in Nat /\ old.max \in Nat /\ old.sum \in Nat
      /\ latency \in Nat
  BY StatsTypes DEF ChannelStats
<1>2. /\ recorded \in Seq(Channels \X Latencies) /\ recorded' \in Seq(Channels \X Latencies)
      /\ Len(recorded) \in Nat /\ Len(recorded') = last
      /\ \A i \in 1 .. Len(recorded) : recorded'[i] = recorded[i]
      /\ recorded'[last] = <<c, latency>>
  BY DEF TablesOK
<1>3. Sent(c)' = Sent(c) \cup {last} /\ last \notin Sent(c)
  BY <1>2 DEF Sent
<1>4. LatenciesOf(c)' = LatenciesOf(c) \cup {latency}
  <2>1. \A i \in Sent(c) : recorded'[i] = recorded[i]
    BY <1>2 DEF Sent
  <2>2. recorded'[last][2] = latency
    BY <1>2
  <2> HIDE DEF last
  <2>3. LatenciesOf(c)' = {recorded'[i][2] : i \in Sent(c)'}
    BY DEF LatenciesOf
  <2> DEFINE before == Sent(c)
  <2>4. LatenciesOf(c)' = {recorded'[i][2] : i \in before \cup {last}}
    BY <1>3, <2>3
  <2>5. LatenciesOf(c) = {recorded[i][2] : i \in before} /\ \A i \in before : recorded'[i] = recorded[i]
    BY <2>1 DEF LatenciesOf
  <2> HIDE DEF before
  <2>6. {recorded'[i][2] : i \in before \cup {last}} = {recorded[i][2] : i \in before} \cup {latency}
    <3>1. \A i \in before : recorded'[i][2] = recorded[i][2]
      BY <2>5
    <3>2. {recorded'[i][2] : i \in before} = {recorded[i][2] : i \in before}
      BY <3>1
    <3>3. {recorded'[i][2] : i \in before \cup {last}} = {recorded'[i][2] : i \in before} \cup {recorded'[last][2]}
      OBVIOUS
    <3> QED
      BY <2>2, <3>2, <3>3
  <2> QED
    BY <2>4, <2>5, <2>6
<1>5. IsFiniteSet(Sent(c)') /\ Cardinality(Sent(c)') = old.sent + 1
  BY <1>3, FS_AddElement DEF ChannelTrue
<1>6. /\ new \in ChannelStats
      /\ new.sent = old.sent + 1 /\ new.sum = old.sum + latency
      /\ new.min = IF old.sent = 0 \/ latency < old.min THEN latency ELSE old.min
      /\ new.max = IF old.sent = 0 \/ latency > old.max THEN latency ELSE old.max
  <2>1. FirstMessage(c) <=> old.sent = 0
    BY DEF FirstMessage
  <2>2. new = [old EXCEPT !.sent = @ + 1, !.sum = @ + latency,
                          !.min = IF old.sent = 0 \/ latency < @ THEN latency ELSE @,
                          !.max = IF old.sent = 0 \/ latency > @ THEN latency ELSE @]
    BY <2>1 DEF Measured
  <2> HIDE DEF old, new
  <2> DEFINE min == IF old.sent = 0 \/ latency < old.min THEN latency ELSE old.min
             max == IF old.sent = 0 \/ latency > old.max THEN latency ELSE old.max
  <2>3. min \in Nat /\ max \in Nat /\ old.sent + 1 \in Nat /\ old.sum + latency \in Nat
    BY <1>1
  <2> HIDE DEF min, max
  <2>4. new = [old EXCEPT !.sent = old.sent + 1, !.sum = old.sum + latency, !.min = min, !.max = max]
    BY <1>1, <2>2 DEF min, max, ChannelStats
  <2>5. /\ new \in ChannelStats
        /\ new.sent = old.sent + 1 /\ new.sum = old.sum + latency /\ new.min = min /\ new.max = max
    BY <1>1, <2>3, <2>4 DEF ChannelStats
  <2> QED
    BY <2>5 DEF min, max
<1> HIDE DEF new, old, last
<1>7. old.sent = 0 => LatenciesOf(c) = {} /\ old.sum = 0
  <2>1. old.sent = 0 => Sent(c) = {}
    BY FS_EmptySet DEF ChannelTrue, old
  <2> QED
    BY <2>1 DEF ChannelTrue, LatenciesOf, old
<1>8. old.sent > 0 =>
         /\ old.min \in LatenciesOf(c) /\ old.max \in LatenciesOf(c)
         /\ \A l \in LatenciesOf(c) : old.min <= l /\ l <= old.max
         /\ old.min * old.sent <= old.sum /\ old.sum <= old.max * old.sent
  BY DEF ChannelTrue, old
<1>9. \A l \in LatenciesOf(c) : l \in Nat
  <2>1. \A i \in DOMAIN recorded : recorded[i] \in Channels \X Latencies
    BY <1>2
  <2>2. \A sent \in Channels \X Latencies : sent[2] \in Nat
    BY MonitorAssumption
  <2>3. \A i \in Sent(c) : recorded[i][2] \in Nat
    BY <2>1, <2>2 DEF Sent
  <2> QED
    BY <2>3 DEF LatenciesOf
<1>10. /\ new.min \in LatenciesOf(c)' /\ new.max \in LatenciesOf(c)'
       /\ \A l \in LatenciesOf(c)' : new.min <= l /\ l <= new.max
  BY <1>1, <1>4, <1>6, <1>7, <1>8, <1>9
<1>11. new.min * new.sent <= new.sum /\ new.sum <= new.max * new.sent
  <2>1. CASE old.sent = 0
    BY <1>1, <1>6, <1>7, <2>1
  <2>2. CASE old.sent # 0
    <3>1. new.min \in Nat /\ new.max \in Nat
      BY <1>1, <1>6
    <3>2. /\ new.min <= old.min /\ old.max <= new.max /\ new.min <= latency /\ latency <= new.max
      BY <1>1, <1>6, <2>2
    <3>3. new.min * old.sent <= old.min * old.sent /\ new.min * (old.sent + 1) = new.min * old.sent + new.min
      BY <1>1, <3>1, <3>2, BoundsStep
    <3>4. old.max * old.sent <= new.max * old.sent /\ new.max * (old.sent + 1) = new.max * old.sent + new.max
      BY <1>1, <3>1, <3>2, BoundsStep
    <3>5. /\ new.min * old.sent \in Nat /\ old.min * old.sent \in Nat
          /\ new.max * old.sent \in Nat /\ old.max * old.sent \in Nat
      BY <1>1, <3>1, <3>2, BoundsStep
    <3>6. old.sent > 0
      BY <1>1, <2>2
    <3>7. old.min * old.sent <= old.sum /\ old.sum <= old.max * old.sent
      BY <1>8, <3>6
    <3> DEFINE a == new.min * old.sent
               b == new.max * old.sent
               d == old.min * old.sent
               e == old.max * old.sent
    <3>8. a <= d /\ d <= old.sum /\ old.sum <= e /\ e <= b
      BY <3>3, <3>4, <3>7
    <3>9. a \in Nat /\ b \in Nat /\ d \in Nat /\ e \in Nat
      BY <3>5
    <3>10. new.min * new.sent = a + new.min /\ new.max * new.sent = b + new.max
      BY <1>6, <3>3, <3>4
    <3> HIDE DEF a, b, d, e, old, new
    <3>11. /\ old.sum \in Nat /\ latency \in Nat /\ new.min \in Nat /\ new.max \in Nat
           /\ new.min <= latency /\ latency <= new.max /\ a <= old.sum /\ old.sum <= b
      BY <1>1, <3>1, <3>2, <3>8, <3>9
    <3>12. a + new.min <= old.sum + latency /\ old.sum + latency <= b + new.max
      BY <3>9, <3>11, SumsOrdered
    <3> QED
      BY <1>6, <3>10, <3>12
  <2> QED
    BY <2>1, <2>2
<1>12. new.sent # 0
  BY <1>1, <1>6
<1>13. Stats(c)' = new
  BY DEF new
<1> QED
  BY <1>5, <1>6, <1>10, <1>11, <1>12, <1>13 DEF ChannelTrue, new, old

\* A sequence with one more.
LEMMA AppendFacts ==
  ASSUME NEW S, NEW s \in Seq(S), NEW x \in S
  PROVE  /\ Append(s, x) \in Seq(S) /\ Len(Append(s, x)) = Len(s) + 1 /\ Len(s) \in Nat
         /\ \A i \in 1 .. Len(s) : Append(s, x)[i] = s[i]
         /\ Append(s, x)[Len(s) + 1] = x
  OBVIOUS

\* The samples, with one more, are still the end of what is recorded.
LEMMA SampleStep ==
  ASSUME TablesOK, SamplesInv, NEW c \in Channels, NEW latency \in Latencies,
         latency_samples_' =
            Append(IF Len(latency_samples_) >= MaxSamples THEN Tail(latency_samples_) ELSE latency_samples_, latency),
         recorded' = Append(recorded, <<c, latency>>)
  PROVE  /\ SamplesInv'
         /\ latency_samples_' \in Seq(Latencies) /\ Len(latency_samples_') <= MaxSamples
         /\ latency_samples_' # << >> /\ Last(latency_samples_') = latency
<1> USE MonitorAssumption
<1>1. /\ latency_samples_ \in Seq(Latencies) /\ recorded \in Seq(Channels \X Latencies)
      /\ Len(latency_samples_) <= MaxSamples /\ Len(latency_samples_) \in Nat /\ Len(recorded) \in Nat
  BY DEF TablesOK
<1>2. /\ Len(recorded') = Len(recorded) + 1
      /\ \A i \in 1 .. Len(recorded) : recorded'[i] = recorded[i]
      /\ recorded'[Len(recorded) + 1][2] = latency
  <2>1. <<c, latency>> \in Channels \X Latencies
    OBVIOUS
  <2> QED
    BY <1>1, <2>1
<1>3. PICK d \in {0, 1} :
         /\ d <= Len(latency_samples_)
         /\ latency_samples_' \in Seq(Latencies)
         /\ Len(latency_samples_') = Len(latency_samples_) - d + 1 /\ Len(latency_samples_') \in 1 .. MaxSamples
         /\ \A i \in 1 .. Len(latency_samples_) - d : latency_samples_'[i] = latency_samples_[i + d]
         /\ latency_samples_'[Len(latency_samples_) - d + 1] = latency
  <2>1. CASE Len(latency_samples_) >= MaxSamples
    <3> DEFINE t == Tail(latency_samples_)
    <3>1. /\ latency_samples_' = Append(t, latency)
          /\ t \in Seq(Latencies) /\ Len(t) = Len(latency_samples_) - 1
          /\ \A i \in 1 .. Len(latency_samples_) - 1 : t[i] = latency_samples_[i + 1]
      BY <1>1, <2>1
    <3> HIDE DEF t
    <3>2. /\ latency_samples_' \in Seq(Latencies)
          /\ Len(latency_samples_') = Len(t) + 1
          /\ \A i \in 1 .. Len(t) : latency_samples_'[i] = t[i]
          /\ latency_samples_'[Len(t) + 1] = latency
      <4>1. t \in Seq(Latencies) /\ latency \in Latencies
        BY <3>1
      <4> DEFINE u == Append(t, latency)
      <4>2. /\ u \in Seq(Latencies) /\ Len(u) = Len(t) + 1
            /\ \A i \in 1 .. Len(t) : u[i] = t[i]
            /\ u[Len(t) + 1] = latency
        BY <4>1, AppendFacts
      <4> HIDE DEF u
      <4>3. latency_samples_' = u
        BY <3>1, Zenon DEF u
      <4> QED
        BY <4>2, <4>3, Zenon
    <3>3. 1 \in {0, 1} /\ 1 <= Len(latency_samples_)
      BY <1>1, <2>1
    <3> QED
      BY <1>1, <3>1, <3>2, <3>3
  <2>2. CASE ~(Len(latency_samples_) >= MaxSamples)
    <3>1. latency_samples_' = Append(latency_samples_, latency)
      BY <2>2
    <3>2. /\ latency_samples_' \in Seq(Latencies)
          /\ Len(latency_samples_') = Len(latency_samples_) + 1
          /\ \A i \in 1 .. Len(latency_samples_) : latency_samples_'[i] = latency_samples_[i]
          /\ latency_samples_'[Len(latency_samples_) + 1] = latency
      BY <1>1, <3>1, AppendFacts
    <3>3. 0 \in {0, 1} /\ 0 <= Len(latency_samples_)
      BY <1>1
    <3> QED
      BY <1>1, <2>2, <3>2, <3>3
  <2> QED
    BY <2>1, <2>2
<1>4. SamplesInv'
  <2> DEFINE n == Len(latency_samples_)
             m == Len(recorded)
             old == latency_samples_
             new == latency_samples_'
             log == recorded
             log2 == recorded'
  <2>1. /\ n \in Nat /\ m \in Nat /\ n <= m /\ d <= n
        /\ \A i \in 1 .. n : old[i] = log[m - n + i][2]
        /\ \A i \in 1 .. n - d : new[i] = old[i + d]
        /\ \A i \in 1 .. m : log2[i] = log[i]
        /\ log2[m + 1][2] = new[n - d + 1]
        /\ Len(new) = n - d + 1 /\ Len(log2) = m + 1
    BY <1>1, <1>2, <1>3 DEF SamplesInv
  <2> HIDE DEF n, m, old, new, log, log2
  <2>2. \A i \in 1 .. n - d + 1 : new[i] = log2[(m + 1) - (n - d + 1) + i][2]
    <3> SUFFICES ASSUME NEW i \in 1 .. n - d + 1
                 PROVE  new[i] = log2[(m + 1) - (n - d + 1) + i][2]
      OBVIOUS
    <3>1. CASE i = n - d + 1
      <4>1. (m + 1) - (n - d + 1) + i = m + 1
        BY <2>1, <3>1
      <4> QED
        BY <2>1, <3>1, <4>1
    <3>2. CASE i # n - d + 1
      <4>1. /\ i \in 1 .. n - d /\ i + d \in 1 .. n
            /\ m - n + (i + d) = (m + 1) - (n - d + 1) + i /\ m - n + (i + d) \in 1 .. m
        BY <2>1, <3>2
      <4>2. new[i] = log[m - n + (i + d)][2]
        BY <2>1, <4>1
      <4> QED
        BY <2>1, <4>1, <4>2
    <3> QED
      BY <3>1, <3>2
  <2>3. Len(new) <= Len(log2)
    BY <2>1
  <2>4. \A i \in 1 .. Len(new) : new[i] = log2[Len(log2) - Len(new) + i][2]
    BY <2>1, <2>2
  <2> QED
    BY <2>3, <2>4 DEF SamplesInv, new, log2
<1>5. latency_samples_' # << >> /\ Last(latency_samples_') = latency /\ Len(latency_samples_') <= MaxSamples
  BY <1>1, <1>3 DEF Last
<1> QED
  BY <1>3, <1>4, <1>5

\* recordMessageSent, and the alert it raises.
LEMMA RecordMessageSentStep ==
  ASSUME MonitorInv, NEW t \in Threads, NEW c \in Channels, NEW latency \in Latencies,
         RecordMessageSent(t, c, latency), UNCHANGED clocks
  PROVE  MonitorInv'
<1> DEFINE stats == Measured(c, latency)
<1>1. MonitorTypeOK /\ HeardInv /\ StatsInv /\ AlertInv /\ SettingsOK /\ TablesOK /\ CallbackOK
  BY MonitorTypeParts DEF MonitorInv
<1>2. /\ Locked /\ channel_stats_' = Put(channel_stats_, c, stats)
      /\ latency_samples_' =
            Append(IF Len(latency_samples_) >= MaxSamples THEN Tail(latency_samples_) ELSE latency_samples_, latency)
      /\ recorded' = Append(recorded, <<c, latency>>)
      /\ Raise(t, IF Alerting /\ latency = Max(Latencies) THEN <<Alert(c, "latency", latency)>> ELSE << >>)
      /\ UNCHANGED <<settings, nodes_, topic_stats_, heard, shift>>
      /\ wall' = wall /\ steady' = steady
  BY DEF RecordMessageSent, Call, SetStats, clocks
<1>3. TotalInv /\ SamplesInv /\ ChannelTrue(c)
  BY <1>1 DEF StatsInv
<1> HIDE DEF stats
<1>4. Stats(c)' = stats
  BY <1>2 DEF Stats, Put
<1>5. ChannelTrue(c)' /\ stats \in ChannelStats /\ stats.sent = Stats(c).sent + 1
  BY <1>1, <1>2, <1>3, <1>4, MeasuredTrue DEF stats
<1>6. /\ DOMAIN channel_stats_' \subseteq Channels
      /\ \A d \in DOMAIN channel_stats_' : channel_stats_'[d] \in ChannelStats
      /\ IsFiniteSet(DOMAIN channel_stats_')
      /\ \A d \in Channels : d # c => Stats(d)' = Stats(d)
      /\ SumFunction(SentOf') + Stats(c).sent = Len(recorded) + stats.sent
  BY <1>1, <1>2, <1>3, <1>5, SetStatsFacts
<1>7. /\ SamplesInv'
      /\ latency_samples_' \in Seq(Latencies) /\ Len(latency_samples_') <= MaxSamples
      /\ latency_samples_' # << >> /\ Last(latency_samples_') = latency
  BY <1>1, <1>2, <1>3, SampleStep
<1>8. /\ recorded' \in Seq(Channels \X Latencies) /\ Len(recorded') = Len(recorded) + 1 /\ Len(recorded) \in Nat
      /\ \A i \in 1 .. Len(recorded) : recorded'[i] = recorded[i]
      /\ recorded'[Len(recorded) + 1] = <<c, latency>>
  <2>1. recorded \in Seq(Channels \X Latencies) /\ <<c, latency>> \in Channels \X Latencies
    BY <1>1 DEF TablesOK
  <2> QED
    BY <1>2, <2>1
<1>9. SettingsOK' /\ TablesOK'
  BY <1>1, <1>2, <1>6, <1>7, <1>8 DEF SettingsOK, TablesOK, settings
<1>10. PICK raised \in Seq(Alerts) :
          Raise(t, raised) /\ \A k \in 1 .. Len(raised) : raised[k] = Alert(c, "latency", latency)
  <2>1. Alert(c, "latency", latency) \in Alerts
    BY MonitorAssumption DEF Alert, Alerts
  <2> DEFINE over == <<Alert(c, "latency", latency)>>
  <2>2. over \in Seq(Alerts) /\ \A k \in 1 .. Len(over) : over[k] = Alert(c, "latency", latency)
    BY <2>1
  <2>3. CASE Alerting /\ latency = Max(Latencies)
    <3>1. Raise(t, over)
      BY <1>2, <2>3
    <3> HIDE DEF over
    <3> QED
      BY <2>2, <3>1
  <2>4. CASE ~(Alerting /\ latency = Max(Latencies))
    <3>1. << >> \in Seq(Alerts) /\ Len(<< >>) = 0 /\ Raise(t, << >>)
      BY <1>2, <2>4
    <3> WITNESS << >> \in Seq(Alerts)
    <3> QED
      BY <3>1
  <2> QED
    BY <2>3, <2>4
<1>11. \A k \in 1 .. Len(raised) : AlertTrue(raised[k])'
  BY <1>7, <1>10 DEF AlertTrue, Alert
<1>12. CallbackOK' /\ AlertInv'
  BY <1>1, <1>2, <1>10, <1>11, RaiseStep
<1>13. HeardInv'
  BY <1>1, <1>2 DEF HeardInv, HeartbeatOf
<1>14. ASSUME NEW d \in Channels
       PROVE  ChannelTrue(d)'
  <2>1. CASE d = c
    BY <1>5, <2>1
  <2>2. CASE d # c
    <3>1. Stats(d)' = Stats(d)
      BY <1>6, <2>2
    <3>2. Sent(d)' = Sent(d)
      <4>1. DOMAIN recorded = 1 .. Len(recorded) /\ DOMAIN recorded' = 1 .. Len(recorded) + 1
        BY <1>1, <1>8 DEF TablesOK
      <4>2. recorded'[Len(recorded) + 1][1] # d
        BY <1>8, <2>2
      <4> QED
        BY <1>8, <4>1, <4>2 DEF Sent
    <3>3. LatenciesOf(d)' = LatenciesOf(d)
      <4>1. \A i \in Sent(d) : recorded'[i] = recorded[i]
        <5>1. DOMAIN recorded = 1 .. Len(recorded)
          BY <1>1 DEF TablesOK
        <5> QED
          BY <1>8, <5>1 DEF Sent
      <4> QED
        BY <3>2, <4>1 DEF LatenciesOf
    <3> QED
      BY <1>1, <3>1, <3>2, <3>3 DEF StatsInv, ChannelTrue
  <2> QED
    BY <2>1, <2>2
<1>15. TotalInv'
  <2>1. Stats(c).sent \in Nat
    BY <1>1, StatsTypes DEF ChannelStats
  <2>2. SumFunction(SentOf') \in Nat
    <3>1. \A d \in DOMAIN SentOf' : SentOf'[d] \in Nat
      BY <1>6 DEF SentOf, ChannelStats
    <3>2. IsFiniteSet(DOMAIN SentOf')
      BY <1>6 DEF SentOf
    <3> QED
      BY <3>1, <3>2, SumSplit DEF SumFunction
  <2>3. SumFunction(SentOf') = Len(recorded')
    BY <1>5, <1>6, <1>8, <2>1, <2>2
  <2> QED
    BY <1>6, <2>3 DEF TotalInv
<1>16. StatsInv'
  BY <1>1, <1>2, <1>7, <1>14, <1>15 DEF StatsInv
<1>17. MonitorTypeOK'
  BY <1>9, <1>12 DEF MonitorTypeOK, SettingsOK, TablesOK, CallbackOK
<1> QED
  BY <1>12, <1>13, <1>16, <1>17 DEF MonitorInv

\* updateTopicInfo.
LEMMA UpdateTopicInfoStep ==
  ASSUME MonitorInv, NEW topic \in Topics, UpdateTopicInfo(topic), UNCHANGED clocks
  PROVE  MonitorInv'
<1>1. MonitorTypeOK /\ HeardInv /\ StatsInv /\ AlertInv /\ SettingsOK /\ TablesOK /\ CallbackOK
  BY MonitorTypeParts DEF MonitorInv
<1>2. /\ Locked
      /\ topic_stats_' = Put(topic_stats_, topic, (IF topic \in DOMAIN topic_stats_ THEN topic_stats_[topic] ELSE 0) + 1)
      /\ UNCHANGED <<settings, nodes_, channel_stats_, latency_samples_, callback, heard, shift, recorded>>
      /\ wall' = wall /\ steady' = steady
  BY DEF UpdateTopicInfo, Call, clocks
<1>3. DOMAIN topic_stats_' \subseteq Topics /\ \A u \in DOMAIN topic_stats_' : topic_stats_'[u] \in Nat
  BY <1>1, <1>2 DEF Put, TablesOK
<1>4. SettingsOK' /\ TablesOK'
  BY <1>1, <1>2, <1>3 DEF SettingsOK, TablesOK, settings
<1>5. CallbackOK' /\ AlertInv'
  BY <1>1, <1>2, CallbackKept
<1>6. HeardInv'
  BY <1>1, <1>2 DEF HeardInv, HeartbeatOf
<1>7. StatsInv'
  BY <1>1, <1>2, StatsKept DEF StatsInv
<1>8. MonitorTypeOK'
  BY <1>4, <1>5 DEF MonitorTypeOK, SettingsOK, TablesOK, CallbackOK
<1> QED
  BY <1>5, <1>6, <1>7, <1>8 DEF MonitorInv

\* An alert callback returns, throws or calls back.
LEMMA GoOnStep ==
  ASSUME MonitorInv, NEW t \in Threads, GoOn(t), UNCHANGED clocks
  PROVE  MonitorInv'
<1> USE MonitorAssumption
<1>1. MonitorTypeOK /\ HeardInv /\ StatsInv /\ AlertInv /\ SettingsOK /\ TablesOK /\ CallbackOK
  BY MonitorTypeParts DEF MonitorInv
<1>2. /\ CallbackRuns(t)
      /\ UNCHANGED <<settings, nodes_, channel_stats_, topic_stats_, latency_samples_, heard, shift, recorded>>
      /\ wall' = wall /\ steady' = steady
  BY DEF GoOn, AlertReturns, AlertThrows, AlertCallsBack, tables, clocks
<1>3. /\ alerts[t] \in Seq(Alerts) /\ alerts[t] # << >> /\ mutex_ = t /\ reentered = {}
      /\ \A u \in Threads : u # t => alerts[u] = << >>
  BY <1>1, <1>2 DEF CallbackOK, CallbackRuns
<1>4. SettingsOK' /\ TablesOK'
  BY <1>1, <1>2 DEF SettingsOK, TablesOK, settings
<1>5. HeardInv' /\ StatsInv'
  BY <1>1, <1>2, StatsKept DEF HeardInv, HeartbeatOf, StatsInv
<1>6. \A a \in Alerts : AlertTrue(a) => AlertTrue(a)'
  BY <1>2 DEF AlertTrue
<1>7. ASSUME NEW left \in Seq(Alerts), \A k \in 1 .. Len(left) : \E j \in 1 .. Len(alerts[t]) : left[k] = alerts[t][j],
             alerts' = [alerts EXCEPT ![t] = left], mutex_' = IF left = << >> THEN NoThread ELSE t, reentered' = {}
      PROVE  CallbackOK' /\ AlertInv'
  <2>1. alerts' \in [Threads -> Seq(Alerts)]
    BY <1>1, <1>7 DEF CallbackOK
  <2>2. alerts'[t] = left /\ \A u \in Threads : u # t => alerts'[u] = << >>
    BY <1>1, <1>3, <1>7 DEF CallbackOK
  <2>3. \A u \in Threads : mutex_' = u <=> alerts'[u] # << >>
    BY <1>7, <2>2
  <2>4. CallbackOK'
    BY <1>7, <2>1, <2>3 DEF CallbackOK
  <2>5. \A j \in 1 .. Len(alerts[t]) : alerts[t][j] \in Alerts /\ AlertTrue(alerts[t][j])
    BY <1>1, <1>3 DEF AlertInv
  <2>6. ASSUME NEW k \in 1 .. Len(left)
        PROVE  AlertTrue(left[k])'
    <3>1. PICK j \in 1 .. Len(alerts[t]) : left[k] = alerts[t][j]
      BY <1>7
    <3>2. left[k] \in Alerts /\ AlertTrue(left[k])
      BY <2>5, <3>1
    <3> QED
      BY <1>6, <3>2
  <2>7. \A u \in Threads : \A k \in 1 .. Len(alerts'[u]) : AlertTrue(alerts[u][k])'
    BY <2>2, <2>6 DEF AlertTrue
  <2> QED
    BY <1>7, <2>4, <2>7 DEF AlertInv
<1>8. CallbackOK' /\ AlertInv'
  <2>1. CASE AlertReturns(t)
    <3>1. /\ alerts' = [alerts EXCEPT ![t] = Tail(alerts[t])]
          /\ mutex_' = IF Tail(alerts[t]) = << >> THEN NoThread ELSE t
          /\ reentered' = {}
      BY <1>3, <2>1 DEF AlertReturns, Raise
    <3>2. /\ Tail(alerts[t]) \in Seq(Alerts)
          /\ \A k \in 1 .. Len(Tail(alerts[t])) :
                k + 1 \in 1 .. Len(alerts[t]) /\ Tail(alerts[t])[k] = alerts[t][k + 1]
      BY <1>3
    <3>3. PICK left \in Seq(Alerts) : left = Tail(alerts[t])
      BY <3>2
    <3>4. \A k \in 1 .. Len(left) : \E j \in 1 .. Len(alerts[t]) : left[k] = alerts[t][j]
      BY <3>2, <3>3
    <3> QED
      BY <1>7, <3>1, <3>3, <3>4
  <2>2. CASE AlertThrows(t)
    <3>1. alerts' = [alerts EXCEPT ![t] = << >>] /\ mutex_' = NoThread /\ reentered' = {}
      BY <1>3, <2>2 DEF AlertThrows, Release
    <3>2. << >> \in Seq(Alerts) /\ Len(<< >>) = 0
      OBVIOUS
    <3>3. PICK left \in Seq(Alerts) : left = << >> /\ Len(left) = 0
      BY <3>2
    <3>4. \A k \in 1 .. Len(left) : \E j \in 1 .. Len(alerts[t]) : left[k] = alerts[t][j]
      BY <3>3
    <3> QED
      BY <1>7, <3>1, <3>3, <3>4
  <2>3. CASE AlertCallsBack(t)
    <3>1. alerts' = alerts /\ mutex_' = mutex_ /\ reentered' = {t}
      BY <2>3 DEF AlertCallsBack
    <3>2. CallbackOK'
      BY <1>1, <1>3, <3>1 DEF CallbackOK
    <3>3. AlertInv'
      <4>1. \A u \in Threads : \A k \in 1 .. Len(alerts[u]) : AlertTrue(alerts[u][k])'
        BY <1>1, <1>2, <3>1 DEF AlertInv, AlertTrue
      <4> QED
        BY <1>3, <3>1, <4>1 DEF AlertInv, AlertTrue
    <3> QED
      BY <3>2, <3>3
  <2> QED
    BY <2>1, <2>2, <2>3 DEF GoOn
<1>9. MonitorTypeOK'
  BY <1>4, <1>8 DEF MonitorTypeOK, SettingsOK, TablesOK, CallbackOK
<1> QED
  BY <1>5, <1>8, <1>9 DEF MonitorInv

\* Every operation of the monitor.
LEMMA OperationStep ==
  ASSUME ClocksTypeOK, MonitorInv, NEW t \in Threads, Operation(t), UNCHANGED clocks
  PROVE  MonitorInv'
<1>1. ASSUME NEW config \in Configs, Configure(config)
      PROVE  MonitorInv'
  <2>1. SettingsOK' /\ UNCHANGED <<tables, callback, heard, shift, recorded, clocks>>
    BY <1>1, MonitorTypeParts DEF MonitorInv, Configure, SettingsOK
  <2> QED
    BY <2>1, SettingsStep
<1>2. ASSUME NEW n \in Nodes,
             \/ \E status \in Statuses, heartbeat \in {0, wall} : RegisterNode(n, status, heartbeat)
             \/ UnregisterNode(n) \/ UpdateHeartbeat(n)
             \/ \E cpu, memory \in 0 .. 1 : UpdateNodeResources(t, n, cpu, memory)
      PROVE  MonitorInv'
  BY <1>2, RegisterNodeStep, UnregisterNodeStep, UpdateHeartbeatStep, UpdateNodeResourcesStep
<1>3. ASSUME NEW c \in Channels, NEW latency \in Latencies, RecordMessageSent(t, c, latency)
      PROVE  MonitorInv'
  BY <1>3, RecordMessageSentStep
<1>4. ASSUME NEW c \in Channels, RecordMessageReceived(c) \/ RecordMessageDropped(c)
      PROVE  MonitorInv'
  <2>1. Stats(c) \in ChannelStats
    BY StatsTypes, MonitorTypeParts DEF MonitorInv
  <2>2. PICK stats \in ChannelStats :
           /\ stats.sent = Stats(c).sent /\ stats.min = Stats(c).min /\ stats.max = Stats(c).max
           /\ stats.sum = Stats(c).sum /\ SetStats(c, stats)
    <3> DEFINE received == [Stats(c) EXCEPT !.received = @ + 1]
               lost == [Stats(c) EXCEPT !.dropped = @ + 1]
    <3>1. /\ received \in ChannelStats /\ received.sent = Stats(c).sent /\ received.min = Stats(c).min
          /\ received.max = Stats(c).max /\ received.sum = Stats(c).sum
      BY <2>1 DEF ChannelStats
    <3>2. /\ lost \in ChannelStats /\ lost.sent = Stats(c).sent /\ lost.min = Stats(c).min
          /\ lost.max = Stats(c).max /\ lost.sum = Stats(c).sum
      BY <2>1 DEF ChannelStats
    <3>3. SetStats(c, received) \/ SetStats(c, lost)
      BY <1>4 DEF RecordMessageReceived, RecordMessageDropped
    <3> HIDE DEF received, lost
    <3> QED
      BY <3>1, <3>2, <3>3
  <2>3. Locked /\ UNCHANGED <<settings, nodes_, topic_stats_, latency_samples_, callback, heard, shift, recorded, clocks>>
    BY <1>4 DEF RecordMessageReceived, RecordMessageDropped, Call
  <2> QED
    BY <2>2, <2>3, CountStep
<1>5. ASSUME NEW topic \in Topics, UpdateTopicInfo(topic)
      PROVE  MonitorInv'
  BY <1>5, UpdateTopicInfoStep
<1> QED
  BY <1>1, <1>2, <1>3, <1>4, <1>5 DEF Operation

-----------------------------------------------------------------------------
(* The supervisor *)

\* One monitor's steps leave the other's state alone.
LEMMA HeartbeatKept ==
  ASSUME HeartbeatTypeOK, BeatInv, UNCHANGED heartbeats, steady' >= steady, steady' \in Nat, steady \in Nat
  PROVE  HeartbeatTypeOK' /\ BeatInv'
<1>1. HeartbeatTypeOK'
  BY DEF HeartbeatTypeOK, heartbeats
<1>2. \A p \in Peers : called'[p] <= steady'
  BY HeartbeatAssumption, ClocksAssumption DEF HeartbeatTypeOK, BeatInv, heartbeats, Times
<1> QED
  BY <1>1, <1>2 DEF BeatInv, heartbeats

\* A beat changes nothing of the system monitor.
LEMMA MonitorKept ==
  ASSUME MonitorInv, UNCHANGED <<monitor, clocks>>
  PROVE  MonitorInv'
<1>1. SettingsOK'
  BY MonitorTypeParts DEF MonitorInv, SettingsOK, monitor, settings
<1> QED
  BY <1>1, SettingsStep DEF monitor

\* Both clocks go on together.
LEMMA TimePassesStep ==
  ASSUME SupervisorInv, TimePasses
  PROVE  SupervisorInv'
<1> USE ClocksAssumption, MonitorAssumption
<1>1. /\ ClocksTypeOK /\ HeartbeatTypeOK /\ BeatInv
      /\ MonitorTypeOK /\ HeardInv /\ StatsInv /\ AlertInv /\ SettingsOK /\ TablesOK /\ CallbackOK
  BY MonitorTypeParts DEF SupervisorInv, SupervisorTypeOK
<1>2. /\ steady < MaxTime /\ steady' = steady + 1 /\ wall' = wall + 1 /\ adjustments' = adjustments
      /\ UNCHANGED <<calls, heartbeats, monitor>>
  BY DEF TimePasses, Tick
<1>3. steady \in Nat /\ wall \in Nat
  BY <1>1 DEF ClocksTypeOK
<1>4. ClocksTypeOK'
  BY <1>1, <1>2, <1>3 DEF ClocksTypeOK, HeardInv
<1>5. HeartbeatTypeOK' /\ BeatInv'
  BY <1>1, <1>2, <1>3, HeartbeatKept
<1>6. HeardInv'
  <2>1. \A n \in Nodes : heard[n] \in Int /\ shift[n] \in Int
    BY <1>1 DEF TablesOK
  <2>2. \A n \in Nodes : heard[n] <= steady + 1
    BY <1>1, <1>3, <2>1 DEF HeardInv
  <2>3. ASSUME NEW n \in DOMAIN nodes_
        PROVE  nodes_'[n].last_heartbeat = HeartbeatOf(n)' /\ nodes_'[n].last_heartbeat <= Epoch + 2 * MaxTime
    <3>1. n \in Nodes
      BY <1>1, <2>3 DEF TablesOK
    <3>2. nodes_[n].last_heartbeat = HeartbeatOf(n) /\ nodes_[n].last_heartbeat <= Epoch + 2 * MaxTime
      BY <1>1, <2>3 DEF HeardInv
    <3>3. heard[n] \in Int /\ shift[n] \in Int
      BY <2>1, <3>1
    <3> QED
      BY <1>2, <1>3, <3>2, <3>3 DEF HeartbeatOf, monitor, tables
  <2> QED
    BY <1>1, <1>2, <1>3, <2>2, <2>3 DEF HeardInv, monitor, tables
<1>7. MonitorTypeOK' /\ AlertInv'
  BY <1>1, <1>2 DEF monitor, settings, tables, callback, MonitorTypeOK, AlertInv, AlertTrue
<1>8. StatsInv'
  BY <1>1, <1>2, StatsKept DEF monitor, tables, StatsInv
<1> QED
  BY <1>4, <1>5, <1>6, <1>7, <1>8 DEF SupervisorInv, SupervisorTypeOK

\* What system_clock is set by is kept with every node; the times stored stay.
LEMMA ClockIsSetStep ==
  ASSUME SupervisorInv, ClockIsSet
  PROVE  SupervisorInv'
<1> USE ClocksAssumption, MonitorAssumption
<1>1. /\ ClocksTypeOK /\ HeartbeatTypeOK /\ BeatInv
      /\ MonitorTypeOK /\ HeardInv /\ StatsInv /\ AlertInv /\ SettingsOK /\ TablesOK /\ CallbackOK
  BY MonitorTypeParts DEF SupervisorInv, SupervisorTypeOK
<1>2. /\ adjustments < MaxAdjustments /\ adjustments' = adjustments + 1
      /\ wall' \in Epoch - 1 .. Epoch + MaxTime /\ steady' = steady
      /\ shift' = [n \in Nodes |-> shift[n] + (wall' - wall)]
      /\ UNCHANGED <<calls, heartbeats, settings, tables, callback, heard, recorded>>
  BY DEF ClockIsSet, Adjust
<1>3. steady \in Nat /\ steady <= MaxTime
  BY <1>1 DEF ClocksTypeOK
<1>4. ClocksTypeOK'
  BY <1>1, <1>2, <1>3 DEF ClocksTypeOK
<1>5. HeartbeatTypeOK' /\ BeatInv'
  BY <1>1, <1>2, <1>3, HeartbeatKept
<1>6. shift' \in [Nodes -> Int]
  <2>1. \A n \in Nodes : shift[n] + (wall' - wall) \in Int
    BY <1>1, <1>2 DEF TablesOK, ClocksTypeOK
  <2> QED
    BY <1>2, <2>1
<1>7. MonitorTypeOK' /\ AlertInv'
  BY <1>1, <1>2, <1>6 DEF settings, tables, callback, MonitorTypeOK, AlertInv, AlertTrue
<1>8. StatsInv'
  BY <1>1, <1>2, StatsKept DEF tables, StatsInv
<1>9. HeardInv'
  <2>1. \A n \in Nodes : heard'[n] <= steady'
    BY <1>1, <1>2 DEF HeardInv
  <2>2. wall' >= Epoch - 1 /\ wall' <= Epoch + MaxTime + steady'
    BY <1>2, <1>3
  <2>3. ASSUME NEW n \in DOMAIN nodes_
        PROVE  nodes_[n].last_heartbeat = HeartbeatOf(n)' /\ nodes_[n].last_heartbeat <= Epoch + 2 * MaxTime
    <3>1. n \in Nodes
      BY <1>1, <2>3 DEF TablesOK
    <3>2. /\ heard[n] \in Int /\ shift[n] \in Int /\ wall \in Int /\ wall' \in Int
          /\ shift'[n] = shift[n] + (wall' - wall) /\ heard' = heard
      BY <1>1, <1>2, <3>1 DEF TablesOK, ClocksTypeOK
    <3>3. nodes_[n].last_heartbeat = HeartbeatOf(n) /\ nodes_[n].last_heartbeat <= Epoch + 2 * MaxTime
      BY <1>1, <2>3 DEF HeardInv
    <3> QED
      BY <1>2, <1>3, <3>2, <3>3 DEF HeartbeatOf
  <2> QED
    BY <1>2, <2>1, <2>2, <2>3 DEF HeardInv, tables
<1> QED
  BY <1>4, <1>5, <1>7, <1>8, <1>9 DEF SupervisorInv, SupervisorTypeOK

\* A call of the monitor counts.
LEMMA ReportCounts ==
  ASSUME ClocksTypeOK, NEW t \in Threads, GoOn(t) \/ Operation(t), UNCHANGED clocks
  PROVE  ClocksTypeOK'
<1> USE ClocksAssumption
<1>1. calls' = calls \/ OneMoreCall
  BY DEF GoOn, AlertReturns, AlertThrows, AlertCallsBack, Operation, Configure, RegisterNode, UnregisterNode,
         UpdateHeartbeat, UpdateNodeResources, RecordMessageSent, RecordMessageReceived, RecordMessageDropped,
         UpdateTopicInfo, Call
<1> QED
  BY <1>1 DEF OneMoreCall, ClocksTypeOK, clocks

\* Initially.
LEMMA SupervisorStart ==
  ASSUME SupervisorInit
  PROVE  SupervisorInv
<1> USE ClocksAssumption, HeartbeatAssumption, MonitorAssumption
<1>1. ClocksTypeOK /\ HeartbeatTypeOK /\ BeatInv
  BY DEF SupervisorInit, ClocksInit, HeartbeatInit, ClocksTypeOK, HeartbeatTypeOK, BeatInv, Times
<1>2. SettingsOK
  BY DEF SupervisorInit, MonitorInit, SettingsOK, Configs
<1>3. TablesOK
  <2>1. << >> \in Seq(Latencies) /\ << >> \in Seq(Channels \X Latencies) /\ Len(<< >>) = 0 /\ DOMAIN << >> = {}
    OBVIOUS
  <2> QED
    BY <2>1 DEF SupervisorInit, MonitorInit, TablesOK
<1>4. CallbackOK
  BY DEF SupervisorInit, MonitorInit, CallbackOK
<1>5. HeardInv
  BY DEF SupervisorInit, MonitorInit, ClocksInit, HeardInv, HeartbeatOf
<1>6. AlertInv
  BY DEF SupervisorInit, MonitorInit, AlertInv
<1>7. StatsInv
  <2>1. nodes_ = << >> /\ channel_stats_ = << >> /\ latency_samples_ = << >> /\ recorded = << >>
    BY DEF SupervisorInit, MonitorInit
  <2>2. IsFiniteSet({}) /\ Cardinality({}) = 0 /\ DOMAIN << >> = {} /\ Len(<< >>) = 0
    BY FS_EmptySet
  <2>3. \A c \in Channels : Stats(c) = NoStats /\ Sent(c) = {}
    BY <2>1, <2>2 DEF Stats, Sent
  <2>4. ASSUME NEW c \in Channels PROVE ChannelTrue(c)
    <3>1. /\ Stats(c).sent = 0 /\ Stats(c).sum = 0 /\ Sent(c) = {}
          /\ IsFiniteSet(Sent(c)) /\ Cardinality(Sent(c)) = 0
      BY <2>2, <2>3, <2>4 DEF NoStats
    <3> QED
      BY <3>1 DEF ChannelTrue
  <2>5. SumFunction(SentOf) = 0
    <3>1. DOMAIN SentOf = {}
      BY <2>1, <2>2 DEF SentOf
    <3> QED
      BY <2>2, <3>1, EmptySum DEF SumFunction
  <2> QED
    BY <2>1, <2>2, <2>4, <2>5 DEF StatsInv, TotalInv, SamplesInv
<1> QED
  BY <1>1, <1>2, <1>3, <1>4, <1>5, <1>6, <1>7, MonitorTypeParts DEF SupervisorInv, SupervisorTypeOK

\* Every step of the supervisor.
LEMMA SupervisorStep ==
  ASSUME SupervisorInv, [SupervisorNext]_supervisorVars
  PROVE  SupervisorInv'
<1>1. /\ ClocksTypeOK /\ HeartbeatTypeOK /\ BeatInv /\ MonitorInv
      /\ steady \in Nat
  BY DEF SupervisorInv, SupervisorTypeOK, MonitorInv, ClocksTypeOK
<1>2. ASSUME MonitorInv', HeartbeatTypeOK', BeatInv', ClocksTypeOK'
      PROVE  SupervisorInv'
  BY <1>2 DEF SupervisorInv, SupervisorTypeOK, MonitorInv
<1>3. ASSUME UNCHANGED <<clocks, calls, heartbeats>>
      PROVE  ClocksTypeOK' /\ HeartbeatTypeOK' /\ BeatInv'
  <2>1. steady' = steady
    BY <1>3 DEF clocks
  <2>2. ClocksTypeOK'
    BY <1>1, <1>3 DEF ClocksTypeOK, clocks
  <2> QED
    BY <1>1, <1>3, <2>1, <2>2, HeartbeatKept
<1>4. CASE Manage
  <2>1. /\ SettingsOK' /\ UNCHANGED <<tables, callback, heard, shift, recorded, clocks>>
        /\ UNCHANGED <<clocks, calls, heartbeats>>
    BY <1>1, <1>4, MonitorTypeParts DEF Manage, SetRunning, SetAlertCallback, SettingsOK, MonitorInv
  <2> QED
    BY <1>1, <1>2, <1>3, <2>1, SettingsStep
<1>5. CASE TimePasses
  BY <1>5, TimePassesStep
<1>6. CASE ClockIsSet
  BY <1>6, ClockIsSetStep
<1>7. ASSUME NEW t \in Threads, Beat(t)
      PROVE  SupervisorInv'
  <2>1. MonitorInv'
    BY <1>1, <1>7, MonitorKept DEF Beat
  <2>2. ClocksTypeOK' /\ HeartbeatTypeOK' /\ BeatInv'
    BY <1>1, <1>7, BeatStoresStep, BeatCalledStep DEF Beat
  <2> QED
    BY <1>2, <2>1, <2>2
<1>8. ASSUME NEW t \in Threads, Report(t)
      PROVE  SupervisorInv'
  <2>1. UNCHANGED <<clocks, heartbeats>> /\ (GoOn(t) \/ Operation(t)) /\ steady' = steady
    BY <1>8 DEF Report, clocks
  <2>2. MonitorInv'
    BY <1>1, <2>1, GoOnStep, OperationStep
  <2>3. ClocksTypeOK'
    BY <1>1, <2>1, ReportCounts
  <2>4. HeartbeatTypeOK' /\ BeatInv'
    BY <1>1, <2>1, HeartbeatKept
  <2> QED
    BY <1>2, <2>2, <2>3, <2>4
<1>9. CASE UNCHANGED supervisorVars
  <2>1. UNCHANGED <<clocks, calls, heartbeats>> /\ UNCHANGED <<monitor, clocks>>
    BY <1>9 DEF supervisorVars
  <2> QED
    BY <1>1, <1>2, <1>3, <2>1, MonitorKept
<1> QED
  BY <1>4, <1>5, <1>6, <1>7, <1>8, <1>9 DEF SupervisorNext

-----------------------------------------------------------------------------
(* The theorems *)

\* The inductive invariant holds in every reachable state.
THEOREM SupervisorInvariance == SupervisorSpec => []SupervisorInv
<1>1. SupervisorInit => SupervisorInv
  BY SupervisorStart
<1>2. SupervisorInv /\ [SupervisorNext]_supervisorVars => SupervisorInv'
  BY SupervisorStep
<1> QED
  BY <1>1, <1>2, PTL DEF SupervisorSpec

\* Every table, clock and history has its type; the mutex is held by the thread whose
\* alert callback runs, and by nobody else.
THEOREM SupervisorTypeCorrect == SupervisorSpec => []SupervisorTypeOK
<1>1. SupervisorInv => SupervisorTypeOK
  BY DEF SupervisorInv
<1> QED
  BY <1>1, SupervisorInvariance, PTL

\* expired() names nobody who has beaten undisturbed within the timeout, and misses
\* nobody who has been silent for longer, however the calls of the threads interleave.
THEOREM ExpiredMeansSilent == SupervisorSpec => []ExpiredIsSilent
<1>1. SupervisorInv => ExpiredIsSilent
  <2> SUFFICES ASSUME SupervisorInv, NEW p \in DOMAIN last_seen_
               PROVE  IF p \in Expired(steady, Timeout)
                      THEN alone[p] = -1 \/ steady - alone[p] > Timeout
                      ELSE steady - called[p] <= Timeout
    BY DEF ExpiredIsSilent
  <2>1. /\ alone[p] <= last_seen_[p] /\ last_seen_[p] <= called[p]
        /\ alone[p] \in Int /\ called[p] \in Int /\ last_seen_[p] \in Int /\ steady \in Int /\ Timeout \in Int
    BY HeartbeatAssumption, ClocksAssumption
    DEF SupervisorInv, BeatInv, SupervisorTypeOK, HeartbeatTypeOK, ClocksTypeOK, Times
  <2>2. p \in Expired(steady, Timeout) <=> steady - last_seen_[p] > Timeout
    BY DEF Expired
  <2> QED
    BY <2>1, <2>2
<1> QED
  BY <1>1, SupervisorInvariance, PTL

\* A running node is reported by getTimeoutNodes and checkHealth exactly when it has
\* been silent for longer than the timeout as system_clock shows it, when the clock
\* stands before its last heartbeat, or when it was registered without a time and has
\* not been heard of since.
THEOREM TimeoutMeansSilence == SupervisorSpec => []TimeoutIsSilence
<1>1. SupervisorInv => TimeoutIsSilence
  <2> DEFINE timeout == config_.heartbeat_timeout_ms
  <2> SUFFICES ASSUME SupervisorInv, NEW n \in Running
               PROVE  n \in Unhealthy <=> heard[n] = -1 \/ Silence(n) > timeout \/ Silence(n) < 0
    BY DEF TimeoutIsSilence
  <2> USE ClocksAssumption, MonitorAssumption
  <2>1. n \in DOMAIN nodes_ /\ n \in Nodes
    BY DEF Running, SupervisorInv, SupervisorTypeOK, MonitorTypeOK
  <2>2. n \in Unhealthy <=> Late(n)
    BY <2>1 DEF Unhealthy, TimeoutNodes
  <2>3. /\ nodes_[n].last_heartbeat = HeartbeatOf(n) /\ nodes_[n].last_heartbeat <= Epoch + 2 * MaxTime
        /\ heard[n] <= steady /\ wall >= Epoch - 1 /\ wall <= Epoch + MaxTime + steady
    BY <2>1 DEF SupervisorInv, HeardInv
  <2>4. heard[n] \in Int /\ shift[n] \in Int /\ steady \in Nat /\ steady <= MaxTime /\ wall \in Nat
    BY <2>1 DEF SupervisorInv, SupervisorTypeOK, MonitorTypeOK, ClocksTypeOK
  <2>5. nodes_[n].last_heartbeat \in Nat
    BY <2>1 DEF SupervisorInv, SupervisorTypeOK, MonitorTypeOK, NodeInfos
  <2>6. /\ timeout \in Nat /\ timeout < Epoch - 1 /\ timeout + Epoch + 2 * MaxTime < Modulus
        /\ Epoch \in Nat /\ MaxTime \in Nat /\ Modulus \in Nat /\ wall < Modulus
    <3>1. timeout \in Timeouts
      BY DEF SupervisorInv, SupervisorTypeOK, MonitorTypeOK, Configs
    <3> HIDE DEF timeout
    <3> QED
      BY <2>3, <2>4, <3>1
  <2>7. Late(n) <=> Elapsed(n) > timeout
    BY DEF Late
  <2> HIDE DEF timeout
  <2>8. CASE heard[n] = -1
    <3>1. Elapsed(n) = wall
      BY <2>3, <2>4, <2>6, <2>8 DEF Elapsed, HeartbeatOf
    <3> QED
      BY <2>2, <2>3, <2>4, <2>6, <2>7, <2>8, <3>1
  <2>9. CASE heard[n] # -1
    <3>1. wall - nodes_[n].last_heartbeat = Silence(n) /\ Silence(n) \in Int
      BY <2>3, <2>4, <2>5, <2>9 DEF HeartbeatOf, Silence
    <3> DEFINE silence == Silence(n)
    <3>2. Elapsed(n) = silence % Modulus /\ silence \in Int
      BY <3>1 DEF Elapsed
    <3>3. silence <= wall /\ silence >= 0 - (Epoch + 2 * MaxTime)
      BY <2>3, <2>4, <2>5, <2>6, <3>1
    <3> HIDE DEF silence
    <3>4. CASE silence >= 0
      <4>1. silence % Modulus = silence
        BY <2>4, <2>6, <3>2, <3>3, <3>4
      <4> QED
        BY <2>2, <2>7, <2>9, <3>2, <3>4, <4>1 DEF silence
    <3>5. CASE silence < 0
      <4>1. silence + Modulus \in 0 .. Modulus - 1 /\ silence + Modulus > timeout
        BY <2>6, <3>2, <3>3, <3>5
      <4>2. silence % Modulus = silence + Modulus
        BY <2>6, <3>2, <4>1
      <4> QED
        BY <2>2, <2>7, <3>2, <3>5, <4>1, <4>2 DEF silence
    <3> QED
      BY <3>2, <3>4, <3>5
  <2> QED
    BY <2>8, <2>9
<1> QED
  BY <1>1, SupervisorInvariance, PTL

\* Min and Max are what bounds the set from within.
LEMMA ExtremesAre ==
  ASSUME NEW S \in SUBSET Nat, NEW least \in S, NEW greatest \in S, \A l \in S : least <= l /\ l <= greatest
  PROVE  least = Min(S) /\ greatest = Max(S)
<1>1. PICK m \in S : m = Min(S) /\ \A l \in S : m <= l
  BY DEF Min
<1>2. PICK k \in S : k = Max(S) /\ \A l \in S : k >= l
  BY DEF Max
<1>3. m \in Nat /\ k \in Nat /\ least \in Nat /\ greatest \in Nat
  OBVIOUS
<1>4. least <= m /\ m <= least /\ greatest <= k /\ k <= greatest
  BY <1>1, <1>2
<1>5. least = m /\ greatest = k
  BY <1>3, <1>4
<1> QED
  BY <1>1, <1>2, <1>5

\* A sequence that agrees with the end of another is a suffix of it.
LEMMA EndIsSuffix ==
  ASSUME NEW S, NEW s \in Seq(S), NEW t \in Seq(S), Len(s) <= Len(t),
         \A i \in 1 .. Len(s) : s[i] = t[Len(t) - Len(s) + i]
  PROVE  IsSuffix(s, t)
<1>1. PICK n \in Nat, m \in Nat : n = Len(s) /\ m = Len(t) /\ n <= m
  OBVIOUS
<1> DEFINE rs == Reverse(s)
           rt == Reverse(t)
<1>2. /\ rs \in Seq(S) /\ Len(rs) = n /\ \A i \in 1 .. n : rs[i] = s[n - i + 1]
      /\ rt \in Seq(S) /\ Len(rt) = m /\ \A i \in 1 .. m : rt[i] = t[m - i + 1]
  BY <1>1 DEF Reverse
<1> HIDE DEF rs, rt
<1>3. \A i \in 1 .. n : rs[i] = rt[i]
  <2> SUFFICES ASSUME NEW i \in 1 .. n PROVE rs[i] = rt[i]
    OBVIOUS
  <2>1. n - i + 1 \in 1 .. n /\ m - n + (n - i + 1) = m - i + 1 /\ i \in 1 .. m
    BY <1>1
  <2>2. s[n - i + 1] = t[m - n + (n - i + 1)]
    BY <1>1, <2>1
  <2> QED
    BY <1>2, <2>1, <2>2
<1>4. SubSeq(rs, 1, n) = SubSeq(rt, 1, n)
  <2>1. /\ SubSeq(rs, 1, n) \in Seq(S) /\ Len(SubSeq(rs, 1, n)) = n /\ \A i \in 1 .. n : SubSeq(rs, 1, n)[i] = rs[i]
        /\ SubSeq(rt, 1, n) \in Seq(S) /\ Len(SubSeq(rt, 1, n)) = n /\ \A i \in 1 .. n : SubSeq(rt, 1, n)[i] = rt[i]
    BY <1>1, <1>2
  <2> DEFINE a == SubSeq(rs, 1, n)
             b == SubSeq(rt, 1, n)
  <2>2. a \in Seq(S) /\ b \in Seq(S) /\ Len(a) = n /\ Len(b) = n /\ \A i \in 1 .. n : a[i] = b[i]
    BY <1>3, <2>1
  <2> HIDE DEF a, b
  <2>3. a = b
    BY <2>2
  <2> QED
    BY <2>3 DEF a, b
<1> QED
  BY <1>1, <1>2, <1>4 DEF IsSuffix, IsPrefix, rs, rt

\* Counts, extremes, bounds of the mean, samples and total are those of the messages
\* recorded, also while an alert callback runs and after it has thrown.
THEOREM StatisticsAreTrue == SupervisorSpec => []StatisticsTellTruth
<1>1. SupervisorInv => StatisticsTellTruth
  <2> SUFFICES ASSUME SupervisorInv PROVE StatisticsTellTruth
    OBVIOUS
  <2> USE MonitorAssumption
  <2>1. StatsInv /\ AlertInv /\ TablesOK /\ CallbackOK
    BY MonitorTypeParts DEF SupervisorInv, SupervisorTypeOK
  <2>2. ASSUME NEW c \in Channels
        PROVE  LET stats == Stats(c)
               IN  /\ stats.sent = Cardinality(Sent(c))
                   /\ stats.sent > 0 => /\ stats.min = Min(LatenciesOf(c)) /\ stats.max = Max(LatenciesOf(c))
                                        /\ stats.min * stats.sent <= stats.sum /\ stats.sum <= stats.max * stats.sent
    <3>1. ChannelTrue(c)
      BY <2>1 DEF StatsInv
    <3>2. LatenciesOf(c) \in SUBSET Nat
      <4>1. \A i \in DOMAIN recorded : recorded[i] \in Channels \X Latencies
        BY <2>1 DEF TablesOK
      <4>2. \A i \in DOMAIN recorded : recorded[i][2] \in Nat
        BY <4>1
      <4> QED
        BY <4>2 DEF LatenciesOf, Sent
    <3>3. Stats(c).sent > 0 => Stats(c).min = Min(LatenciesOf(c)) /\ Stats(c).max = Max(LatenciesOf(c))
      BY <3>1, <3>2, ExtremesAre DEF ChannelTrue
    <3> QED
      BY <3>1, <3>3 DEF ChannelTrue
  <2>3. IsSuffix(latency_samples_, [i \in DOMAIN recorded |-> recorded[i][2]])
    <3> DEFINE log == [i \in DOMAIN recorded |-> recorded[i][2]]
    <3>1. /\ log \in Seq(Latencies) /\ Len(log) = Len(recorded) /\ Len(recorded) \in Nat
          /\ \A i \in 1 .. Len(recorded) : log[i] = recorded[i][2]
      <4>1. recorded \in Seq(Channels \X Latencies)
        BY <2>1 DEF TablesOK
      <4>2. \A i \in 1 .. Len(recorded) : recorded[i][2] \in Latencies
        BY <4>1
      <4>3. DOMAIN recorded = 1 .. Len(recorded) /\ Len(recorded) \in Nat
        BY <4>1
      <4>4. log \in [1 .. Len(recorded) -> Latencies]
        BY <4>2, <4>3
      <4> QED
        BY <4>3, <4>4, SMTT(30)
    <3>2. latency_samples_ \in Seq(Latencies) /\ Len(latency_samples_) \in Nat
      BY <2>1 DEF TablesOK
    <3> HIDE DEF log
    <3>3. Len(latency_samples_) <= Len(log)
      BY <2>1, <3>1 DEF StatsInv, SamplesInv
    <3>4. ASSUME NEW i \in 1 .. Len(latency_samples_)
          PROVE  latency_samples_[i] = log[Len(log) - Len(latency_samples_) + i]
      <4>1. Len(recorded) - Len(latency_samples_) + i \in 1 .. Len(recorded)
        BY <3>1, <3>2, <3>3
      <4> QED
        BY <2>1, <3>1, <4>1 DEF StatsInv, SamplesInv
    <3>5. IsSuffix(latency_samples_, log)
      BY <3>1, <3>2, <3>3, <3>4, EndIsSuffix
    <3> QED
      BY <3>5 DEF log
  <2>4. ASSUME \A n \in DOMAIN nodes_ : nodes_[n].cpu = 0
        PROVE  TotalMessagesSent = Len(recorded)
    <3> DEFINE cpus == [n \in DOMAIN nodes_ |-> nodes_[n].cpu]
    <3>1. IsFiniteSet(DOMAIN cpus) /\ \A n \in DOMAIN cpus : cpus[n] = 0
      BY <2>1, <2>4 DEF StatsInv
    <3>2. SumFunction(SentOf) = Len(recorded) /\ Len(recorded) \in Nat
      BY <2>1 DEF StatsInv, TotalInv, TablesOK
    <3>3. TotalMessagesSent = SumFunction(SentOf) + SumFunction(cpus)
      BY DEF TotalMessagesSent, SentOf
    <3> HIDE DEF cpus
    <3>4. SumFunction(cpus) = 0
      BY <3>1, ZeroSum DEF SumFunction
    <3> QED
      BY <3>2, <3>3, <3>4
  <2>5. ASSUME NEW t \in Threads, alerts[t] # << >>
        PROVE  LET alert == Head(alerts[t])
               IN  CASE alert.measure = "cpu" -> nodes_[alert.source].cpu = alert.value
                     [] alert.measure = "memory" -> nodes_[alert.source].memory = alert.value
                     [] alert.measure = "latency" -> Last(latency_samples_) = alert.value
    <3>1. alerts[t] \in Seq(Alerts) /\ 1 \in 1 .. Len(alerts[t]) /\ Head(alerts[t]) = alerts[t][1]
      BY <2>1, <2>5 DEF CallbackOK
    <3>2. AlertTrue(Head(alerts[t]))
      BY <2>1, <3>1 DEF AlertInv
    <3> QED
      BY <3>2 DEF AlertTrue
  <2> QED
    BY <2>2, <2>3, <2>4, <2>5 DEF StatisticsTellTruth
<1> QED
  BY <1>1, SupervisorInvariance, PTL
=============================================================================
