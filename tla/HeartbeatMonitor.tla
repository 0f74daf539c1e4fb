---------------------------- MODULE HeartbeatMonitor ----------------------------
(***************************************************************************)
(* src/heartbeat.cpp: when each peer was last seen.  register_peer and     *)
(* beat do the same, and take the time in a default argument: it is read   *)
(* when the call begins and stored when the mutex has been taken, so that  *)
(* calls of several threads may store their times in another order.        *)
(***************************************************************************)
EXTENDS Clocks

CONSTANTS Peers,
          NoPeer,
          Timeout    \* what expired is asked about

ASSUME HeartbeatAssumption == NoPeer \notin Peers /\ Timeout \in Nat

VARIABLES last_seen_,  \* peer -> time, for the peers known
          beatOf, now, \* of each thread: the peer and the time its call was given
          disturbed,   \* history: threads whose call met another one about the same peer
          called, alone \* histories: time of the last call about a peer, and of the last
                       \* one that has returned and met no other; -1: none

heartbeats == <<last_seen_, beatOf, now, disturbed, called, alone>>

Times == 0 .. MaxTime

HeartbeatTypeOK ==
    /\ DOMAIN last_seen_ \subseteq Peers /\ \A p \in DOMAIN last_seen_ : last_seen_[p] \in Times
    /\ beatOf \in [Threads -> Peers \cup {NoPeer}]
    /\ now \in [Threads -> Times]
    /\ disturbed \subseteq {t \in Threads : beatOf[t] # NoPeer}
    /\ called \in [Peers -> Times \cup {-1}] /\ alone \in [Peers -> Times \cup {-1}]

HeartbeatInit ==
    /\ last_seen_ = << >>
    /\ beatOf = [t \in Threads |-> NoPeer] /\ now = [t \in Threads |-> 0]
    /\ disturbed = {}
    /\ called = [p \in Peers |-> -1] /\ alone = [p \in Peers |-> -1]

\* The call begins: its default argument is evaluated.
BeatCalled(t, p) ==
    LET others == {u \in Threads : beatOf[u] = p}
    IN  /\ OneMoreCall
        /\ beatOf[t] = NoPeer
        /\ beatOf' = [beatOf EXCEPT ![t] = p]
        /\ now' = [now EXCEPT ![t] = steady]
        /\ called' = [called EXCEPT ![p] = steady]
        /\ disturbed' = IF others = {} THEN disturbed ELSE disturbed \cup others \cup {t}
        /\ UNCHANGED <<last_seen_, alone>>

\* Mutant: a peer that is known keeps its time, as emplace would have it.
SeenFirst(t) == IF beatOf[t] \in DOMAIN last_seen_ THEN last_seen_ ELSE Put(last_seen_, beatOf[t], now[t])

Seen(t) == Put(last_seen_, beatOf[t], now[t])

\* The critical section, and the return.
BeatStores(t) ==
    /\ beatOf[t] # NoPeer
    /\ last_seen_' = Seen(t)
    /\ alone' = IF t \in disturbed THEN alone ELSE [alone EXCEPT ![beatOf[t]] = now[t]]
    /\ beatOf' = [beatOf EXCEPT ![t] = NoPeer]
    /\ now' = [now EXCEPT ![t] = 0]
    /\ disturbed' = disturbed \ {t}
    /\ UNCHANGED <<called, calls>>

\* expired(at, timeout); time points and durations are signed.
Expired(at, timeout) == {p \in DOMAIN last_seen_ : at - last_seen_[p] > timeout}

-----------------------------------------------------------------------------
(* Properties *)

\* Who is asked about now is expired only if it has not beaten within the timeout,
\* a beat not counting while another thread handles one of the same peer, too; and
\* who is not expired has been heard of within the timeout.
ExpiredIsSilent ==
    \A p \in DOMAIN last_seen_ :
        IF p \in Expired(steady, Timeout)
        THEN alone[p] = -1 \/ steady - alone[p] > Timeout
        ELSE steady - called[p] <= Timeout
=============================================================================
