-------------------------------- MODULE Broker --------------------------------
(***************************************************************************)
(* src/broker.cpp: the table of subscriptions and the threads that publish *)
(* through it.  subscribe and unsubscribe hold mutex_ from beginning to    *)
(* end and are one step.  publish copies the callbacks of its topic under  *)
(* the mutex and calls them after releasing it, so that the table may      *)
(* change meanwhile; a callback may itself publish, which nests a call of  *)
(* publish in the one that runs it.  Publisher, Subscriber, Channel and    *)
(* Node of broker.hpp and core.hpp only pass calls on to these three.      *)
(***************************************************************************)
EXTENDS Naturals, Sequences, SequencesExt

CONSTANTS Topics,
          Publishers,        \* threads that publish
          MaxSubscriptions,  \* bound: calls of subscribe
          MaxPublishes,      \* bound: messages of each publisher
          MaxDepth           \* bound: publish inside a callback of publish ...

ASSUME BoundsAssumption ==
    MaxSubscriptions \in Nat /\ MaxPublishes \in Nat /\ MaxDepth \in Nat

VARIABLES subscriptions,  \* topic -> ids in the vector; only topics that have an entry
          next_id,
          calls,          \* publisher -> its nested calls of publish, the innermost last
          count,          \* publisher -> messages published: a message is <<publisher, number>>
          topicOf,        \* history: the topic of each id
          retired,        \* history: ids whose unsubscribe has returned
          thrown,         \* history: messages whose publish ended with an exception
          owed, got,      \* histories: <<id, message>>: subscribed when publish read the table; called
          within          \* history: message -> the messages from whose callbacks it was published

table == <<subscriptions, next_id, topicOf, retired>>
delivery == <<calls, count, thrown, owed, got, within>>
brokerVars == <<table, delivery>>

Ids == 1 .. MaxSubscriptions
Messages == Publishers \X (1 .. MaxPublishes)

\* A call of publish: its message, the callbacks not called yet, and the one
\* that runs (0: none).
Frames == [message : Messages, callbacks : Seq(Ids), running : Ids \cup {0}]

BrokerTypeOK ==
    /\ DOMAIN subscriptions \subseteq Topics
    /\ \A t \in DOMAIN subscriptions : subscriptions[t] \in Seq(Ids)
    /\ next_id \in 1 .. MaxSubscriptions + 1
    /\ calls \in [Publishers -> Seq(Frames)]
    /\ \A p \in Publishers : Len(calls[p]) <= MaxDepth
    /\ count \in [Publishers -> 0 .. MaxPublishes]
    /\ topicOf \in [1 .. next_id - 1 -> Topics]
    /\ retired \subseteq 1 .. next_id - 1
    /\ thrown \subseteq Messages
    /\ owed \subseteq Ids \X Messages /\ got \subseteq Ids \X Messages
    /\ within \in [Messages -> SUBSET Messages]

BrokerInit ==
    /\ subscriptions = << >> /\ next_id = 1
    /\ calls = [p \in Publishers |-> << >>]
    /\ count = [p \in Publishers |-> 0]
    /\ topicOf = << >> /\ retired = {}
    /\ thrown = {} /\ owed = {} /\ got = {}
    /\ within = [m \in Messages |-> {}]

-----------------------------------------------------------------------------
(* subscribe and unsubscribe *)

HasEntry(t) == t \in DOMAIN subscriptions

NewId == next_id

Subscribe(t) ==
    /\ next_id <= MaxSubscriptions
    /\ subscriptions' =
          [u \in DOMAIN subscriptions \cup {t} |->
              IF u # t THEN subscriptions[u]
              ELSE IF HasEntry(t) THEN Append(subscriptions[t], NewId) ELSE <<NewId>>]
    /\ next_id' = next_id + 1
    /\ topicOf' = Append(topicOf, t)
    /\ UNCHANGED <<retired, delivery>>

\* Mutant: only the first subscription of the vector is looked at.
EraseFirstOnly(t, id) ==
    LET left == IF Head(subscriptions[t]) = id THEN Tail(subscriptions[t]) ELSE subscriptions[t]
    IN  [u \in {w \in DOMAIN subscriptions : w # t \/ left # << >>} |->
            IF u = t THEN left ELSE subscriptions[u]]

Without(ids, id) ==
    IF \E k \in DOMAIN ids : ids[k] = id
    THEN RemoveAt(ids, CHOOSE k \in DOMAIN ids : ids[k] = id) ELSE ids

\* The table without subscription id of topic t: the ids are unique, so that
\* remove_if removes one at most.  An empty vector loses its entry.
Erase(t, id) ==
    LET left == Without(subscriptions[t], id)
    IN  [u \in {w \in DOMAIN subscriptions : w # t \/ left # << >>} |->
            IF u = t THEN left ELSE subscriptions[u]]

\* The id may belong to another topic, or be gone already: nothing happens.
Unsubscribe(t, id) ==
    /\ id < next_id
    /\ subscriptions' = IF HasEntry(t) THEN Erase(t, id) ELSE subscriptions
    /\ retired' = IF topicOf[id] = t THEN retired \cup {id} ELSE retired
    /\ UNCHANGED <<next_id, topicOf, delivery>>

-----------------------------------------------------------------------------
(* publish *)

Live(t) == {id \in 1 .. next_id - 1 : topicOf[id] = t /\ id \notin retired}

\* Mutant: the subscription added last is left out.
SnapshotMissesLast(t) == Front(subscriptions[t])

Snapshot(t) == subscriptions[t]

\* A thread publishes when it is in no callback, or from inside the callback
\* its innermost publish runs.
MayPublish(p) ==
    /\ count[p] < MaxPublishes
    /\ Len(calls[p]) < MaxDepth
    /\ calls[p] # << >> => Last(calls[p]).running # 0

PublishNobody(p, t) ==
    /\ MayPublish(p)
    /\ ~HasEntry(t)
    /\ count' = [count EXCEPT ![p] = @ + 1]
    /\ UNCHANGED <<table, calls, thrown, owed, got, within>>

Publish(p, t) ==
    LET m == <<p, count[p] + 1>>
    IN  /\ MayPublish(p)
        /\ HasEntry(t)
        /\ count' = [count EXCEPT ![p] = @ + 1]
        /\ calls' = [calls EXCEPT ![p] = Append(@, [message |-> m, callbacks |-> Snapshot(t), running |-> 0])]
        /\ owed' = owed \cup (Live(t) \X {m})
        /\ within' = [within EXCEPT ![m] = {calls[p][k].message : k \in DOMAIN calls[p]}]
        /\ UNCHANGED <<table, thrown, got>>

\* Mutant: the loop does not advance.
NextCallbacksStay(callbacks) == callbacks

NextCallbacks(callbacks) == Tail(callbacks)

\* publish calls its next callback.
CallbackBegins(p) ==
    LET frame == Last(calls[p])
    IN  /\ calls[p] # << >>
        /\ frame.running = 0 /\ frame.callbacks # << >>
        /\ calls' = [calls EXCEPT ![p][Len(calls[p])] =
                        [@ EXCEPT !.running = Head(frame.callbacks),
                                  !.callbacks = NextCallbacks(frame.callbacks)]]
        /\ got' = got \cup {<<Head(frame.callbacks), frame.message>>}
        /\ UNCHANGED <<table, count, thrown, owed, within>>

CallbackReturns(p) ==
    /\ calls[p] # << >>
    /\ Last(calls[p]).running # 0
    /\ calls' = [calls EXCEPT ![p][Len(calls[p])].running = 0]
    /\ UNCHANGED <<table, count, thrown, owed, got, within>>

\* The exception ends publish, and goes on to the callback that called it, if any:
\* that one handles it, or throws in its turn.
CallbackThrows(p) ==
    /\ calls[p] # << >>
    /\ Last(calls[p]).running # 0
    /\ calls' = [calls EXCEPT ![p] = Front(@)]
    /\ thrown' = thrown \cup {Last(calls[p]).message}
    /\ UNCHANGED <<table, count, owed, got, within>>

PublishReturns(p) ==
    /\ calls[p] # << >>
    /\ Last(calls[p]).running = 0 /\ Last(calls[p]).callbacks = << >>
    /\ calls' = [calls EXCEPT ![p] = Front(@)]
    /\ UNCHANGED <<table, count, thrown, owed, got, within>>

-----------------------------------------------------------------------------
GoOn(p) == CallbackBegins(p) \/ CallbackReturns(p) \/ CallbackThrows(p) \/ PublishReturns(p)

BrokerNext ==
    \/ \E t \in Topics : Subscribe(t)
    \/ \E t \in Topics, id \in Ids : Unsubscribe(t, id)
    \/ \E p \in Publishers, t \in Topics : Publish(p, t) \/ PublishNobody(p, t)
    \/ \E p \in Publishers : GoOn(p)

BrokerSpec == BrokerInit /\ [][BrokerNext]_brokerVars

\* A publish that has begun goes on: callbacks return or throw.
BrokerFairSpec == BrokerSpec /\ \A p \in Publishers : WF_brokerVars(GoOn(p))

-----------------------------------------------------------------------------
(* Properties *)

\* A message reaches only those who were subscribed to its topic when publish
\* read the table: never somebody whose unsubscribe had returned by then, and
\* nobody who came later.
OnlyOwed == got \subseteq owed

CallsWith(id, m) ==
    \E p \in Publishers :
        /\ CallbackBegins(p)
        /\ Last(calls[p]).message = m
        /\ Head(Last(calls[p]).callbacks) = id

\* Nobody sees a message twice.  Messages of one thread arrive in the order they
\* were published, except that one published inside a callback overtakes the
\* message that callback was called with.
OnceAndInOrder ==
    [][\A id \in Ids, m \in Messages :
          CallsWith(id, m) =>
              /\ <<id, m>> \notin got
              /\ \A n \in Messages :
                    <<id, n>> \in got /\ n[1] = m[1] /\ n[2] > m[2] => m \in within[n]]_brokerVars

\* Whoever was subscribed when publish read the table is called, even when it
\* unsubscribes or others do meanwhile, unless a callback before it throws.
EveryoneServed ==
    \A id \in Ids, m \in Messages :
        <<id, m>> \in owed ~> <<id, m>> \in got \/ m \in thrown
=============================================================================
