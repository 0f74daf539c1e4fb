---------------------------- MODULE ServiceDiscovery ----------------------------
(***************************************************************************)
(* src/discovery/service_discovery.cpp: nodes that announce their services *)
(* to each other by multicast datagrams.  In each node one thread calls    *)
(* Start and Stop, others register and unregister services, and a thread   *)
(* started by Start listens.  A table is reduced to how many entries it    *)
(* holds for a channel and a node: announcements are compared by these two *)
(* names, and nothing reads the timestamp, the type and the direction that *)
(* they carry (CleanupExpiredServices has no caller).  Processes register      *)
(* services under their own name, and have set OnServiceFound; the         *)
(* callback may call back, and then waits for the mutex it is called under.*)
(***************************************************************************)
EXTENDS Naturals, Sequences, FiniteSets

CONSTANTS Processes, ChannelNames, NoChannel,
          MaxInbox,      \* datagrams the kernel keeps for a socket
          MaxRegisters,  \* bound: calls of RegisterService
          MaxUnregisters,\* bound: calls of UnregisterService that remove something
          MaxStarts,     \* bound: calls of Start
          MaxDeaths      \* bound: processes that die, each once

ASSUME DiscoveryAssumption ==
    /\ NoChannel \notin ChannelNames
    /\ {MaxInbox, MaxRegisters, MaxUnregisters, MaxStarts, MaxDeaths} \subseteq Nat

VARIABLES services,    \* of each node, channel and node: entries in services_
          running_, stop_flag_,
          udp_socket_, \* whether there is one: bound, and a member of the group
          listener,    \* of each node: what listen_thread_ does
          hand,        \* of each node: the announcement its listener has received
          stopping,    \* nodes in which a Stop has begun and not returned
          announcing,  \* of each node: the channel of the RegisterService that holds mutex_
          network,     \* datagrams sent: each may arrive anywhere late, often or never
          inbox,       \* of each node: what its socket has received
          found,       \* history of the table: calls of on_found_, by channel and node
          forgot,      \* history of the table: calls of UnregisterService that removed something
          died,        \* history: nodes whose process has died
          registers, unregisters, starts \* how often, for the bounds

table == <<services, found, forgot>>
flags == <<running_, stop_flag_, udp_socket_>>
bounds == <<registers, unregisters, starts>>
vars == <<table, flags, listener, hand, stopping, announcing, network, inbox, died, bounds>>

Announcements == [node : Processes, channel : ChannelNames]

PerService(S) == [ChannelNames -> [Processes -> S]]

TypeOK ==
    /\ services \in [Processes -> PerService(Nat)]
    /\ found \in [Processes -> PerService(Nat)] /\ forgot \in [Processes -> PerService(Nat)]
    /\ running_ \in [Processes -> BOOLEAN] /\ stop_flag_ \in [Processes -> BOOLEAN]
    /\ udp_socket_ \in [Processes -> BOOLEAN]
    /\ listener \in [Processes -> {"none", "test", "select", "process", "stuck"}]
    /\ hand \in [Processes -> Announcements \cup {NoChannel}]
    /\ stopping \subseteq Processes
    /\ announcing \in [Processes -> ChannelNames \cup {NoChannel}]
    /\ network \subseteq Announcements
    /\ inbox \in [Processes -> Seq(Announcements)]
    /\ registers \in 0 .. MaxRegisters /\ unregisters \in 0 .. MaxUnregisters
    /\ starts \in 0 .. MaxStarts /\ died \subseteq Processes
    /\ \A n \in Processes :
          /\ Len(inbox[n]) <= MaxInbox
          /\ listener[n] = "process" => hand[n] \in Announcements
          /\ ~udp_socket_[n] => inbox[n] = << >> /\ ~running_[n]
          /\ n \in stopping => stop_flag_[n] /\ ~running_[n]

NoEntries == [c \in ChannelNames |-> [m \in Processes |-> 0]]

Init ==
    /\ services = [n \in Processes |-> NoEntries]
    /\ found = [n \in Processes |-> NoEntries] /\ forgot = [n \in Processes |-> NoEntries]
    /\ running_ = [n \in Processes |-> FALSE] /\ stop_flag_ = [n \in Processes |-> FALSE]
    /\ udp_socket_ = [n \in Processes |-> FALSE]
    /\ listener = [n \in Processes |-> "none"] /\ hand = [n \in Processes |-> NoChannel]
    /\ stopping = {} /\ announcing = [n \in Processes |-> NoChannel]
    /\ network = {} /\ inbox = [n \in Processes |-> << >>]
    /\ registers = 0 /\ unregisters = 0
    /\ starts = 0 /\ died = {}

-----------------------------------------------------------------------------
(* Registering *)

\* mutex_ is held by a RegisterService that announces, and for ever by a listener
\* that waits for it: the other critical sections are single steps.
MutexFree(n) == announcing[n] = NoChannel /\ listener[n] # "stuck"

\* The entry is added in any case, the announcement made only by a node that
\* runs: Start does not announce what was registered before.
RegisterService(n, c) ==
    /\ registers < MaxRegisters /\ MutexFree(n)
    /\ registers' = registers + 1
    /\ services' = [services EXCEPT ![n][c][n] = @ + 1]
    /\ announcing' = IF running_[n] THEN [announcing EXCEPT ![n] = c] ELSE announcing
    /\ UNCHANGED <<found, forgot, flags, listener, hand, stopping, network, inbox, unregisters, starts, died>>

\* Stop does not take the mutex: the socket may be gone meanwhile.
SendAnnouncement(n) ==
    /\ announcing[n] # NoChannel
    /\ network' = IF udp_socket_[n] THEN network \cup {[node |-> n, channel |-> announcing[n]]} ELSE network
    /\ announcing' = [announcing EXCEPT ![n] = NoChannel]
    /\ UNCHANGED <<table, flags, listener, hand, stopping, inbox, died, bounds>>

\* All entries of node m, which may be another one; nobody is told.
UnregisterService(n, m, c) ==
    /\ unregisters < MaxUnregisters /\ MutexFree(n)
    /\ services[n][c][m] > 0
    /\ unregisters' = unregisters + 1
    /\ services' = [services EXCEPT ![n][c][m] = 0]
    /\ forgot' = [forgot EXCEPT ![n][c][m] = @ + 1]
    /\ UNCHANGED <<found, flags, listener, hand, stopping, announcing, network, inbox, registers, starts, died>>

-----------------------------------------------------------------------------
(* Start and Stop *)

\* Mutant: stop_flag_ keeps its value.
ResetNothing(n) == UNCHANGED stop_flag_

ResetStopFlag(n) == stop_flag_' = [stop_flag_ EXCEPT ![n] = FALSE]

\* A call that returns false changes nothing.
Start(n) ==
    /\ starts < MaxStarts
    /\ ~running_[n] /\ n \notin stopping
    /\ starts' = starts + 1
    /\ udp_socket_' = [udp_socket_ EXCEPT ![n] = TRUE]
    /\ running_' = [running_ EXCEPT ![n] = TRUE]
    /\ ResetStopFlag(n)
    /\ listener' = [listener EXCEPT ![n] = "test"]
    /\ UNCHANGED <<table, hand, stopping, announcing, network, inbox, registers, unregisters, died>>

Stop(n) ==
    /\ running_[n]
    /\ stop_flag_' = [stop_flag_ EXCEPT ![n] = TRUE]
    /\ running_' = [running_ EXCEPT ![n] = FALSE]
    /\ stopping' = stopping \cup {n}
    /\ UNCHANGED <<table, udp_socket_, listener, hand, announcing, network, inbox, died, bounds>>

\* Mutant: the thread is not waited for.
JoinedAtOnce(n) == TRUE

Joined(n) == listener[n] = "none"

StopReturns(n) ==
    /\ n \in stopping /\ Joined(n)
    /\ udp_socket_' = [udp_socket_ EXCEPT ![n] = FALSE]
    /\ inbox' = [inbox EXCEPT ![n] = << >>]
    /\ stopping' = stopping \ {n}
    /\ UNCHANGED <<table, running_, stop_flag_, listener, hand, announcing, network, died, bounds>>

-----------------------------------------------------------------------------
(* The listener *)

TestStopFlag(n) ==
    /\ listener[n] = "test"
    /\ listener' = [listener EXCEPT ![n] = IF stop_flag_[n] THEN "none" ELSE "select"]
    /\ UNCHANGED <<table, flags, hand, stopping, announcing, network, inbox, died, bounds>>

\* A second without a datagram.
SelectTimesOut(n) ==
    /\ listener[n] = "select" /\ inbox[n] = << >>
    /\ listener' = [listener EXCEPT ![n] = "test"]
    /\ UNCHANGED <<table, flags, hand, stopping, announcing, network, inbox, died, bounds>>

Receive(n) ==
    /\ listener[n] = "select" /\ inbox[n] # << >>
    /\ hand' = [hand EXCEPT ![n] = Head(inbox[n])]
    /\ inbox' = [inbox EXCEPT ![n] = Tail(@)]
    /\ listener' = [listener EXCEPT ![n] = "process"]
    /\ UNCHANGED <<table, flags, stopping, announcing, network, died, bounds>>

\* Mutant: a node does not look for its own services.
KnownOfOthers(n, m, c) == m # n /\ services[n][c][m] > 0

Known(n, m, c) == services[n][c][m] > 0

\* on_found_, called when the service is new, returns, or calls a function of its
\* own ServiceDiscovery.
AfterCallback(n, m, c) == IF Known(n, m, c) THEN {"test"} ELSE {"test", "stuck"}

\* A node hears its own announcements, too.
ProcessAnnouncement(n) ==
    LET c == hand[n].channel
        m == hand[n].node
    IN  /\ listener[n] = "process" /\ MutexFree(n)
        /\ IF Known(n, m, c)
           THEN UNCHANGED <<services, found>>
           ELSE /\ services' = [services EXCEPT ![n][c][m] = @ + 1]
                /\ found' = [found EXCEPT ![n][c][m] = @ + 1]
        /\ hand' = [hand EXCEPT ![n] = NoChannel]
        /\ \E step \in AfterCallback(n, m, c) : listener' = [listener EXCEPT ![n] = step]
        /\ UNCHANGED <<forgot, flags, stopping, announcing, network, inbox, died, bounds>>

-----------------------------------------------------------------------------
(* The network and the operating system *)

Deliver(n, d) ==
    /\ udp_socket_[n] /\ Len(inbox[n]) < MaxInbox
    /\ inbox' = [inbox EXCEPT ![n] = Append(@, d)]
    /\ UNCHANGED <<table, flags, listener, hand, stopping, announcing, network, died, bounds>>

\* The process dies; another one may start under the same name.
Die(n) ==
    /\ n \notin died /\ Cardinality(died) < MaxDeaths
    /\ died' = died \cup {n}
    /\ services' = [services EXCEPT ![n] = NoEntries]
    /\ found' = [found EXCEPT ![n] = NoEntries] /\ forgot' = [forgot EXCEPT ![n] = NoEntries]
    /\ running_' = [running_ EXCEPT ![n] = FALSE] /\ stop_flag_' = [stop_flag_ EXCEPT ![n] = FALSE]
    /\ udp_socket_' = [udp_socket_ EXCEPT ![n] = FALSE] /\ inbox' = [inbox EXCEPT ![n] = << >>]
    /\ listener' = [listener EXCEPT ![n] = "none"] /\ hand' = [hand EXCEPT ![n] = NoChannel]
    /\ stopping' = stopping \ {n} /\ announcing' = [announcing EXCEPT ![n] = NoChannel]
    /\ UNCHANGED <<network, registers, unregisters, starts>>

-----------------------------------------------------------------------------
Listen(n) == TestStopFlag(n) \/ SelectTimesOut(n) \/ Receive(n) \/ ProcessAnnouncement(n)

Next == \E n \in Processes :
    \/ \E c \in ChannelNames : RegisterService(n, c) \/ \E m \in Processes : UnregisterService(n, m, c)
    \/ SendAnnouncement(n)
    \/ Start(n) \/ Stop(n) \/ StopReturns(n)
    \/ Listen(n)
    \/ \E d \in network : Deliver(n, d)
    \/ Die(n)

Spec == Init /\ [][Next]_vars

\* The threads that have begun something are scheduled; the network owes nothing.
FairSpec == Spec /\ \A n \in Processes : WF_vars(Listen(n)) /\ WF_vars(SendAnnouncement(n)) /\ WF_vars(StopReturns(n))

-----------------------------------------------------------------------------
(* Properties *)

\* However late, often and disordered announcements arrive: a service of another
\* node is in the table at most once, and on_found_ has reported it exactly as
\* often as it was added and removed by hand; a service of the node's own is
\* reported only if it was removed before its announcement came back, or was
\* announced before the process died.
FoundOnce ==
    \A n, m \in Processes : \A c \in ChannelNames :
        IF m = n THEN found[n][c][n] <= forgot[n][c][n] + IF n \in died THEN 1 ELSE 0
        ELSE /\ services[n][c][m] <= 1
             /\ found[n][c][m] = forgot[n][c][m] + services[n][c][m]

\* When Stop has returned no listener runs: on_found_ is not called any more, and
\* its owner may be destroyed.
QuietAfterStop == \A n \in Processes : ~running_[n] /\ n \notin stopping => listener[n] = "none"

\* The listener serves both that ask something of it: an announcement that has
\* reached the socket becomes known unless the node stops, also after it was
\* stopped and started again; and Stop returns.  Only a callback that calls back
\* stands in the way.
ListenerServes ==
    \A n \in Processes :
        /\ \A d \in Announcements :
              (\E i \in DOMAIN inbox[n] : inbox[n][i] = d)
                  ~> services[n][d.channel][d.node] > 0 \/ ~running_[n] \/ listener[n] = "stuck"
        /\ n \in stopping ~> n \notin stopping \/ listener[n] = "stuck"
=============================================================================
