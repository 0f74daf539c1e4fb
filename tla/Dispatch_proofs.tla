----------------------------- MODULE Dispatch_proofs -----------------------------
(***************************************************************************)
(* The two components that call what others handed them.  Executor: for    *)
(* any calling threads and tasks and any number of posts, it is a queue,   *)
(* the worker never sleeps through a notification, and the stop that came  *)
(* first drains the queue.  Broker: for any topics, publishing threads and *)
(* numbers of subscriptions, messages and nested calls of publish, a       *)
(* callback gets what it is owed, once and in order.                       *)
(***************************************************************************)
EXTENDS Executor, Broker, TLAPS

(* Executor *)

\* The tasks taken out of the queue so far.
Begun == IF worker = "running" THEN Len(executed) + 1 ELSE Len(executed)

\* Executed tasks, the running one and the queue make up the accepted ones.
Accounted ==
    /\ Len(accepted) = Begun + Len(tasks)
    /\ \A k \in 1 .. Len(executed) : executed[k] = accepted[k]
    /\ worker = "running" => task = accepted[Len(executed) + 1]
    /\ \A k \in 1 .. Len(tasks) : tasks[k] = accepted[Begun + k]

\* A stop that has begun is either joined or still in the hands of its caller,
\* unless a task has misbehaved.
Ending ==
    /\ stopping /\ ~joined /\ ~misbehaved => \E c \in Callers : pc[c] \in {"notify_all", "join"}
    /\ fate = "destroyed" => joined
    /\ fate = "terminated" => misbehaved

IndInv ==
    /\ TypeOK
    /\ Accounted
    /\ Len(accepted) <= MaxPosts
    /\ NoLostWakeUp
    /\ worker = "exited" => stopping /\ tasks = << >>
    /\ joined => worker = "exited"
    /\ Ending

LEMMA InitIndInv == Init => IndInv
<1> SUFFICES ASSUME Init PROVE IndInv
  OBVIOUS
<1>1. TypeOK
  <2>1. << >> \in Seq(Tasks)
    OBVIOUS
  <2>2. worker # "running" /\ task = NoTask
    BY DEF Init
  <2>3. pc \in [Callers -> {"idle", "notify_one", "notify_all", "join"}]
    BY DEF Init
  <2> QED
    BY <2>1, <2>2, <2>3 DEF Init, TypeOK
<1>2. /\ Len(tasks) = 0 /\ Len(accepted) = 0 /\ Len(executed) = 0
      /\ worker = "test" /\ ~joined /\ ~stopping /\ fate = "alive"
  BY DEF Init
<1>3. Accounted /\ NoLostWakeUp /\ Ending
  BY <1>2 DEF Accounted, Begun, NoLostWakeUp, Ending
<1> QED
  BY <1>1, <1>2, <1>3, MaxPostsAssumption DEF IndInv

\* What the queue and the history look like after a critical section of post.
LEMMA EnqueueAccounted ==
  ASSUME IndInv, NEW t \in Tasks, Enqueue(t), UNCHANGED <<worker, task, executed>>
  PROVE  /\ Accounted'
         /\ tasks' \in Seq(Tasks) /\ accepted' \in Seq(Tasks)
         /\ Len(accepted') <= MaxPosts
         /\ worker # "exited"
<1> USE MaxPostsAssumption
<1>1. TypeOK /\ Accounted /\ ~stopping
  BY DEF IndInv, Enqueue
<1>2. /\ tasks \in Seq(Tasks) /\ accepted \in Seq(Tasks) /\ executed \in Seq(Tasks)
      /\ Len(tasks) \in Nat /\ Len(accepted) \in Nat /\ Len(executed) \in Nat
  BY <1>1 DEF TypeOK
<1>3. /\ Len(tasks') = Len(tasks) + 1 /\ tasks'[Len(tasks) + 1] = t
      /\ \A k \in 1 .. Len(tasks) : tasks'[k] = tasks[k]
      /\ tasks' \in Seq(Tasks)
  BY <1>2 DEF Enqueue
<1>4. /\ Len(accepted') = Len(accepted) + 1 /\ accepted'[Len(accepted) + 1] = t
      /\ \A k \in 1 .. Len(accepted) : accepted'[k] = accepted[k]
      /\ accepted' \in Seq(Tasks)
  BY <1>2 DEF Enqueue
<1>5. Begun' = Begun /\ Begun \in Nat /\ Len(accepted) = Begun + Len(tasks)
      /\ Len(executed) <= Begun /\ (worker = "running" => Len(executed) + 1 = Begun)
  BY <1>1, <1>2 DEF Begun, Accounted
<1>6. \A k \in 1 .. Len(executed) : executed'[k] = accepted'[k]
  BY <1>1, <1>2, <1>4, <1>5 DEF Accounted
<1>7. worker' = "running" => task' = accepted'[Len(executed') + 1]
  BY <1>1, <1>2, <1>4, <1>5 DEF Accounted
<1>8. \A k \in 1 .. Len(tasks') : tasks'[k] = accepted'[Begun' + k]
  <2> SUFFICES ASSUME NEW k \in 1 .. Len(tasks) + 1 PROVE tasks'[k] = accepted'[Begun + k]
    BY <1>3, <1>5
  <2>1. CASE k \in 1 .. Len(tasks)
    BY <2>1, <1>1, <1>2, <1>3, <1>4, <1>5 DEF Accounted
  <2>2. CASE k = Len(tasks) + 1
    BY <2>2, <1>2, <1>3, <1>4, <1>5
  <2> QED
    BY <2>1, <2>2, <1>2
<1>9. worker # "exited"
  BY <1>1 DEF IndInv
<1>10. Len(accepted') <= MaxPosts
  BY <1>2, <1>4 DEF Enqueue
<1> QED
  BY <1>2, <1>3, <1>4, <1>5, <1>6, <1>7, <1>8, <1>9, <1>10 DEF Accounted

\* The steps of the callers.
LEMMA CallerStep ==
  ASSUME IndInv, NEW c \in Callers, Call(c) \/ Return(c)
  PROVE  IndInv'
<1>1. ASSUME NEW t \in Tasks, Post(c, t)
      PROVE  IndInv'
  <2>1. Enqueue(t) /\ ~stopping /\ UNCHANGED <<stopping, worker, task, joined, executed, life>>
    BY <1>1 DEF Post, Enqueue
  <2>2. pc'[c] = "notify_one" /\ pc' \in [Callers -> {"idle", "notify_one", "notify_all", "join"}]
    BY <1>1 DEF Post, IndInv, TypeOK
  <2>3. NoLostWakeUp'
    BY <2>2 DEF NoLostWakeUp
  <2> QED
    BY <2>1, <2>2, <2>3, EnqueueAccounted DEF IndInv, TypeOK, Ending, life
<1>2. CASE PostRefused(c) \/ StopAgain(c)
  <2>1. UNCHANGED vars
    BY <1>2 DEF PostRefused, StopAgain
  <2>2. TypeOK' /\ Accounted' /\ NoLostWakeUp' /\ Ending'
    BY <2>1 DEF vars, life, IndInv, TypeOK, Accounted, Begun, NoLostWakeUp, Ending
  <2> QED
    BY <2>1, <2>2 DEF vars, IndInv
<1>3. CASE Stop(c)
  <2>1. pc'[c] = "notify_all" /\ pc' \in [Callers -> {"idle", "notify_one", "notify_all", "join"}]
    BY <1>3 DEF Stop, IndInv, TypeOK
  <2>2. NoLostWakeUp' /\ Ending'
    BY <1>3, <2>1 DEF NoLostWakeUp, Stop, Ending, IndInv, life
  <2> QED
    BY <1>3, <2>1, <2>2 DEF Stop, IndInv, TypeOK, Accounted, Begun, life
<1>4. CASE PostNotify(c) \/ StopNotify(c)
  <2>1. WakeUp /\ UNCHANGED <<tasks, stopping, task, joined, accepted, executed, life>>
    BY <1>4 DEF PostNotify, StopNotify
  <2>2. pc' \in [Callers -> {"idle", "notify_one", "notify_all", "join"}]
    BY <1>4 DEF PostNotify, StopNotify, IndInv, TypeOK
  <2>3. worker' # "waiting" /\ worker' \in {"test", "waiting", "running", "exited"}
    BY <2>1 DEF WakeUp, IndInv, TypeOK
  <2>4. (worker' = "running" <=> worker = "running") /\ (worker' = "exited" <=> worker = "exited")
    BY <2>1 DEF WakeUp
  <2>5. Accounted' /\ NoLostWakeUp'
    BY <2>1, <2>3, <2>4 DEF IndInv, Accounted, Begun, NoLostWakeUp
  <2>6. Ending'
    BY <1>4, <2>1 DEF PostNotify, StopNotify, IndInv, TypeOK, Ending, life
  <2> QED
    BY <2>1, <2>2, <2>3, <2>4, <2>5, <2>6 DEF IndInv, TypeOK, life
<1>5. CASE StopJoin(c)
  <2>1. pc' \in [Callers -> {"idle", "notify_one", "notify_all", "join"}]
    BY <1>5 DEF StopJoin, IndInv, TypeOK
  <2>2. Ending'
    BY <1>5 DEF StopJoin, IndInv, TypeOK, Ending, life
  <2> QED
    BY <1>5, <2>1, <2>2 DEF StopJoin, IndInv, TypeOK, Accounted, Begun, NoLostWakeUp, life
<1> QED
  BY <1>1, <1>2, <1>3, <1>4, <1>5 DEF Call, Return

\* The steps of the worker and of the task it runs, and the destructor.
LEMMA WorkerStep ==
  ASSUME IndInv, Run \/ Task \/ SpuriousWakeUp \/ Destroy
  PROVE  IndInv'
<1>0. TypeOK /\ Accounted
  BY DEF IndInv
<1>1. CASE RunWait
  BY <1>1 DEF RunWait, IndInv, TypeOK, Accounted, Begun, NoLostWakeUp, Ending, life
<1>2. CASE SpuriousWakeUp
  BY <1>2 DEF SpuriousWakeUp, IndInv, TypeOK, Accounted, Begun, NoLostWakeUp, Ending, life
<1>3. CASE RunReturn
  BY <1>3 DEF RunReturn, IndInv, TypeOK, Accounted, Begun, NoLostWakeUp, Ending, life
<1>4. CASE RunTake
  <2>1. /\ tasks \in Seq(Tasks) /\ tasks # << >> /\ Len(executed) \in Nat /\ Len(tasks) \in Nat
        /\ worker = "test" /\ worker' = "running"
        /\ UNCHANGED <<stopping, pc, joined, accepted, executed, life>>
    BY <1>4, <1>0 DEF RunTake, TypeOK
  <2>2. /\ tasks' \in Seq(Tasks) /\ Len(tasks') = Len(tasks) - 1 /\ Len(tasks) >= 1
        /\ \A k \in 1 .. Len(tasks') : tasks'[k] = tasks[k + 1]
        /\ task' = tasks[1] /\ task' \in Tasks
    BY <1>4, <2>1 DEF RunTake
  <2>3. Begun = Len(executed) /\ Begun' = Len(executed) + 1
    BY <2>1 DEF Begun
  <2>4. \A k \in 1 .. Len(tasks) : tasks[k] = accepted[Len(executed) + k]
    BY <1>0, <2>3 DEF Accounted
  <2>5. task' = accepted[Len(executed) + 1]
    BY <2>1, <2>2, <2>4
  <2>6. \A k \in 1 .. Len(tasks') : tasks'[k] = accepted[Begun' + k]
    <3> SUFFICES ASSUME NEW k \in 1 .. Len(tasks')
                 PROVE  tasks'[k] = accepted[Begun' + k]
      OBVIOUS
    <3>1. k + 1 \in 1 .. Len(tasks) /\ Len(executed) + (k + 1) = Begun' + k
      BY <2>1, <2>2, <2>3
    <3>2. tasks[k + 1] = accepted[Len(executed) + (k + 1)]
      BY <3>1, <2>4
    <3> QED
      BY <3>1, <3>2, <2>2
  <2>7. Len(accepted) = Len(executed) + Len(tasks)
    BY <1>0, <2>3 DEF Accounted
  <2>8. Len(accepted') = Begun' + Len(tasks')
    BY <2>1, <2>2, <2>3, <2>7
  <2>9. \A k \in 1 .. Len(executed') : executed'[k] = accepted'[k]
    BY <1>0, <2>1 DEF Accounted
  <2>10. Accounted'
    BY <2>1, <2>5, <2>6, <2>8, <2>9 DEF Accounted
  <2> QED
    BY <1>0, <2>1, <2>2, <2>10 DEF IndInv, TypeOK, NoLostWakeUp, Ending, life
<1>5. CASE RunTask
  <2>1. /\ executed \in Seq(Tasks) /\ Len(executed) \in Nat /\ Len(tasks) \in Nat
        /\ worker = "running" /\ worker' = "test" /\ task \in Tasks /\ task' = NoTask
        /\ UNCHANGED <<tasks, stopping, pc, joined, accepted, life>>
    BY <1>5, <1>0 DEF RunTask, TypeOK
  <2>2. /\ executed' \in Seq(Tasks) /\ Len(executed') = Len(executed) + 1
        /\ executed'[Len(executed) + 1] = task
        /\ \A k \in 1 .. Len(executed) : executed'[k] = executed[k]
    BY <1>5, <2>1 DEF RunTask
  <2>3. Begun = Len(executed) + 1 /\ Begun' = Begun
    BY <2>1, <2>2 DEF Begun
  <2>4. \A k \in 1 .. Len(executed') : executed'[k] = accepted[k]
    BY <1>0, <2>1, <2>2 DEF Accounted
  <2>5. Accounted'
    BY <1>0, <2>1, <2>2, <2>3, <2>4 DEF Accounted
  <2> QED
    BY <1>0, <2>1, <2>2, <2>5 DEF IndInv, TypeOK, NoLostWakeUp, Ending, life
<1>6. ASSUME NEW t \in Tasks, TaskPosts(t)
      PROVE  IndInv'
  <2>1. /\ worker = "running" /\ Enqueue(t)
        /\ UNCHANGED <<stopping, worker, task, pc, joined, executed, life>>
    BY <1>6 DEF TaskPosts
  <2> QED
    BY <1>0, <2>1, EnqueueAccounted DEF IndInv, TypeOK, NoLostWakeUp, Ending, life
<1>7. CASE TaskThrows
  BY <1>7 DEF TaskThrows, IndInv, TypeOK, Accounted, Begun, NoLostWakeUp, Ending
<1>8. CASE TaskStops
  BY <1>8 DEF TaskStops, IndInv, TypeOK, Accounted, Begun, NoLostWakeUp, Ending
<1>9. CASE Destroy
  BY <1>9 DEF Destroy, Joinable, IndInv, TypeOK, Accounted, Begun, NoLostWakeUp, Ending
<1> QED
  BY <1>1, <1>2, <1>3, <1>4, <1>5, <1>6, <1>7, <1>8, <1>9 DEF Run, Task

\* The invariant holds in every behaviour.
THEOREM Invariance == Spec => []IndInv
<1>1. IndInv /\ [Next]_vars => IndInv'
  <2> SUFFICES ASSUME IndInv, [Next]_vars PROVE IndInv'
    OBVIOUS
  <2>1. CASE UNCHANGED vars
    BY <2>1 DEF vars, life, IndInv, TypeOK, Accounted, Begun, NoLostWakeUp, Ending
  <2> QED
    BY <2>1, CallerStep, WorkerStep DEF Next, Ended
<1> QED
  BY <1>1, InitIndInv, PTL DEF Spec

\* Every variable keeps its type, and the local task exists only while it runs.
THEOREM TypeCorrect == Spec => []TypeOK
BY Invariance, PTL DEF IndInv

\* A worker that waits with work to do is about to be notified.
THEOREM WorkerIsNotified == Spec => []NoLostWakeUp
BY Invariance, PTL DEF IndInv

\* When the stop that came first has returned, every accepted task has run; the
\* executor is destroyed after that, or a task has thrown or called stop.
THEOREM StopWaitsForTasks == Spec => []StopDrains
<1>1. IndInv => StopDrains
  <2> SUFFICES ASSUME IndInv, joined PROVE worker = "exited" /\ executed = accepted
    BY DEF StopDrains, IndInv, Ending
  <2>1. worker = "exited" /\ tasks = << >>
    BY DEF IndInv
  <2>2. executed \in Seq(Tasks) /\ accepted \in Seq(Tasks) /\ Len(executed) \in Nat
    BY DEF IndInv, TypeOK
  <2>3. Len(accepted) = Len(executed)
    BY <2>1, <2>2 DEF IndInv, Accounted, Begun
  <2>4. \A k \in 1 .. Len(executed) : executed[k] = accepted[k]
    BY DEF IndInv, Accounted
  <2> QED
    BY <2>1, <2>2, <2>3, <2>4
<1> QED
  BY <1>1, Invariance, PTL

\* Tasks run in the order in which they were accepted, each once.
THEOREM ImplementsFifo == Spec => FifoSpec
<1>1. Init => Fifo!Init
  BY DEF Init, Fifo!Init
<1>2. IndInv /\ [Next]_vars => [Fifo!Next]_<<accepted, executed>>
  <2> SUFFICES ASSUME IndInv, Next, ~UNCHANGED <<accepted, executed>>
               PROVE  Fifo!Next
    BY DEF vars
  <2>1. TypeOK /\ Accounted
    BY DEF IndInv
  <2>2. Len(accepted) \in Nat /\ Len(executed) \in Nat /\ Len(tasks) \in Nat /\ MaxPosts \in Nat
    BY <2>1, MaxPostsAssumption DEF TypeOK
  <2>3. ASSUME NEW t \in Tasks, Enqueue(t), UNCHANGED executed
        PROVE  Fifo!Next
    <3>1. Fifo!Push(t)
      BY <2>2, <2>3 DEF Enqueue, Fifo!Push
    <3> QED
      BY <3>1 DEF Fifo!Next
  <2>4. CASE RunTask
    <3>1. task = accepted[Len(executed) + 1] /\ Len(executed) < Len(accepted)
      BY <2>1, <2>2, <2>4 DEF RunTask, Accounted, Begun
    <3>2. Fifo!Pop
      BY <3>1, <2>4 DEF RunTask, Fifo!Pop
    <3> QED
      BY <3>2 DEF Fifo!Next
  <2>5. ASSUME NEW c \in Callers, Call(c) \/ Return(c)
        PROVE  Fifo!Next
    BY <2>3, <2>5 DEF Call, Return, Post, PostRefused, Stop, StopAgain, PostNotify, StopNotify,
       StopJoin, vars
  <2>6. ASSUME NEW t \in Tasks, TaskPosts(t)
        PROVE  Fifo!Next
    BY <2>3, <2>6 DEF TaskPosts
  <2> QED
    BY <2>4, <2>5, <2>6 DEF Next, Run, RunWait, RunReturn, RunTake, SpuriousWakeUp, Task,
       TaskThrows, TaskStops, Destroy, Ended, vars
<1> QED
  BY <1>1, <1>2, Invariance, PTL DEF Spec, FifoSpec, Fifo!Spec

-----------------------------------------------------------------------------
(* Broker *)

\* A vector holds an id once, and only of its own topic and not unsubscribed.
TableInv ==
    \A t \in DOMAIN subscriptions :
        LET v == subscriptions[t]
        IN  /\ \A k, l \in 1 .. Len(v) : v[k] = v[l] => k = l
            /\ \A k \in 1 .. Len(v) : v[k] \in Live(t)

\* What each call of publish has left to call is owed, once each.
PendingInv ==
    \A p \in Publishers : \A k \in 1 .. Len(calls[p]) :
        LET v == calls[p][k].callbacks
            m == calls[p][k].message
        IN  /\ \A i, j \in 1 .. Len(v) : v[i] = v[j] => i = j
            /\ \A i \in 1 .. Len(v) : <<v[i], m>> \in owed \ got

\* The nested calls of a thread publish its messages in their order.
NestedInv ==
    \A p \in Publishers :
        /\ \A k \in 1 .. Len(calls[p]) :
              calls[p][k].message[1] = p /\ calls[p][k].message[2] <= count[p]
        /\ \A k, l \in 1 .. Len(calls[p]) :
              k < l => calls[p][k].message[2] < calls[p][l].message[2]

\* Whatever was published since an open call began was published within it.
OvertakenInv ==
    /\ \A id \in Ids, n \in Messages : <<id, n>> \in owed => n[2] <= count[n[1]]
    /\ \A p \in Publishers : \A k \in 1 .. Len(calls[p]) : \A id \in Ids, n \in Messages :
          <<id, n>> \in owed /\ n[1] = p /\ n[2] > calls[p][k].message[2]
          => calls[p][k].message \in within[n]

BrokerInv ==
    /\ BrokerTypeOK
    /\ TableInv
    /\ PendingInv
    /\ NestedInv
    /\ OvertakenInv
    /\ OnlyOwed

\* Nobody has subscribed, nothing is published.
LEMMA BrokerInitial == BrokerInit => BrokerInv
  BY BoundsAssumption DEF BrokerInit, BrokerInv, BrokerTypeOK, TableInv, PendingInv, NestedInv, OvertakenInv, OnlyOwed, Ids, Messages

\* Erasing an id leaves the others, each once.
LEMMA WithoutFacts ==
  ASSUME NEW S, NEW ids \in Seq(S), NEW id,
         \A k, l \in 1 .. Len(ids) : ids[k] = ids[l] => k = l
  PROVE  LET left == Without(ids, id)
         IN  /\ left \in Seq(S)
             /\ \A k, l \in 1 .. Len(left) : left[k] = left[l] => k = l
             /\ \A k \in 1 .. Len(left) : left[k] # id /\ \E l \in 1 .. Len(ids) : left[k] = ids[l]
<1> DEFINE left == Without(ids, id)
<1>1. CASE ~ \E k \in DOMAIN ids : ids[k] = id
  <2>1. left = ids
    BY <1>1 DEF Without
  <2> QED
    BY <1>1, <2>1
<1>2. CASE \E k \in DOMAIN ids : ids[k] = id
  <2> DEFINE k0 == CHOOSE k \in DOMAIN ids : ids[k] = id
  <2>1. k0 \in 1 .. Len(ids) /\ ids[k0] = id
    BY <1>2
  <2>2. left = SubSeq(ids, 1, k0 - 1) \o SubSeq(ids, k0 + 1, Len(ids))
    BY <1>2 DEF Without, RemoveAt
  <2> HIDE DEF k0, left
  <2>3. /\ left \in Seq(S)
        /\ Len(left) = Len(ids) - 1
        /\ \A k \in 1 .. Len(left) : left[k] = ids[IF k < k0 THEN k ELSE k + 1]
    <3> DEFINE before == SubSeq(ids, 1, k0 - 1)
               after == SubSeq(ids, k0 + 1, Len(ids))
    <3>1. /\ before \in Seq(S) /\ Len(before) = k0 - 1
          /\ \A k \in 1 .. Len(before) : before[k] = ids[k]
      BY <2>1
    <3>2. /\ after \in Seq(S) /\ Len(after) = Len(ids) - k0
          /\ \A k \in 1 .. Len(after) : after[k] = ids[k + k0]
      BY <2>1
    <3> HIDE DEF before, after
    <3>3. left = before \o after
      BY <2>2 DEF before, after
    <3>4. left \in Seq(S) /\ Len(left) = Len(ids) - 1
      BY <2>1, <3>1, <3>2, <3>3
    <3>5. ASSUME NEW k \in 1 .. Len(left)
          PROVE  left[k] = ids[IF k < k0 THEN k ELSE k + 1]
      <4>1. CASE k < k0
        BY <2>1, <3>1, <3>2, <3>3, <3>4, <4>1
      <4>2. CASE k >= k0
        <5>1. k - (k0 - 1) \in 1 .. Len(after) /\ left[k] = after[k - (k0 - 1)]
          BY <2>1, <3>1, <3>2, <3>3, <3>4, <4>2
        <5>2. (k - (k0 - 1)) + k0 = k + 1
          BY <2>1, <3>4
        <5> QED
          BY <2>1, <3>2, <4>2, <5>1, <5>2
      <4> QED
        BY <2>1, <4>1, <4>2
    <3> QED
      BY <3>4, <3>5
  <2>4. \A k \in 1 .. Len(left) :
           /\ (IF k < k0 THEN k ELSE k + 1) \in 1 .. Len(ids)
           /\ (IF k < k0 THEN k ELSE k + 1) # k0
    BY <2>1, <2>3
  <2>5. \A k, l \in 1 .. Len(left) :
           (IF k < k0 THEN k ELSE k + 1) = (IF l < k0 THEN l ELSE l + 1) => k = l
    BY <2>1, <2>3
  <2>6. \A k, l \in 1 .. Len(left) : left[k] = left[l] => k = l
    BY <2>3, <2>4, <2>5
  <2>7. \A k \in 1 .. Len(left) : left[k] # id /\ \E l \in 1 .. Len(ids) : left[k] = ids[l]
    BY <2>1, <2>3, <2>4
  <2> QED
    BY <2>3, <2>6, <2>7 DEF left
<1> QED
  BY <1>1, <1>2

\* Steps that leave the open calls, owed and got alone.
LEMMA PendingKept ==
  ASSUME PendingInv, UNCHANGED <<calls, owed, got>>
  PROVE  PendingInv'
<1> SUFFICES ASSUME NEW p \in Publishers, NEW k \in 1 .. Len(calls'[p])
             PROVE  LET v == calls'[p][k].callbacks
                        m == calls'[p][k].message
                    IN  /\ \A i, j \in 1 .. Len(v) : v[i] = v[j] => i = j
                        /\ \A i \in 1 .. Len(v) : <<v[i], m>> \in owed' \ got'
  BY DEF PendingInv
<1> DEFINE v == calls[p][k].callbacks
           m == calls[p][k].message
<1>1. calls' = calls /\ owed' = owed /\ got' = got
  OBVIOUS
<1>2. /\ \A i, j \in 1 .. Len(v) : v[i] = v[j] => i = j
      /\ \A i \in 1 .. Len(v) : <<v[i], m>> \in owed \ got
  BY <1>1 DEF PendingInv
<1> HIDE DEF v, m
<1> QED
  BY <1>1, <1>2 DEF v, m

\* subscribe and unsubscribe leave what publish has read alone.
LEMMA DeliveryKept ==
  ASSUME BrokerInv, UNCHANGED delivery
  PROVE  PendingInv' /\ NestedInv' /\ OvertakenInv' /\ OnlyOwed'
<1> USE DEF BrokerInv, delivery
<1>1. PendingInv'
  BY PendingKept
<1>2. NestedInv'
  BY DEF NestedInv
<1>3. OvertakenInv'
  BY DEF OvertakenInv, Ids, Messages
<1>4. OnlyOwed'
  BY DEF OnlyOwed
<1> QED
  BY <1>1, <1>2, <1>3, <1>4

\* publish leaves the table alone.
LEMMA TableKept ==
  ASSUME BrokerInv, UNCHANGED table
  PROVE  TableInv'
  BY DEF BrokerInv, table, TableInv, Live

\* subscribe adds a new id to the vector of its topic.
LEMMA SubscribeStep ==
  ASSUME BrokerInv, NEW t \in Topics, Subscribe(t)
  PROVE  BrokerInv'
<1> USE BoundsAssumption
<1>1. PendingInv' /\ NestedInv' /\ OvertakenInv' /\ OnlyOwed'
  BY DeliveryKept DEF Subscribe
<1>2. BrokerTypeOK /\ TableInv
  BY DEF BrokerInv
<1>3. next_id \in Ids /\ next_id' = next_id + 1
  BY <1>2 DEF Subscribe, BrokerTypeOK, Ids
<1> DEFINE new == IF HasEntry(t) THEN Append(subscriptions[t], next_id) ELSE <<next_id>>
<1>4. /\ DOMAIN subscriptions' = DOMAIN subscriptions \cup {t}
      /\ \A u \in DOMAIN subscriptions' : subscriptions'[u] = IF u # t THEN subscriptions[u] ELSE new
  BY DEF Subscribe, NewId
<1>5. \A u \in DOMAIN subscriptions : subscriptions[u] \in Seq(Ids)
  BY <1>2 DEF BrokerTypeOK
<1>6. /\ topicOf \in [1 .. next_id - 1 -> Topics]
      /\ topicOf' \in [1 .. next_id' - 1 -> Topics]
      /\ \A i \in 1 .. next_id - 1 : topicOf'[i] = topicOf[i]
      /\ topicOf'[next_id] = t
  <2>1. next_id - 1 \in Nat /\ topicOf \in [1 .. next_id - 1 -> Topics]
    BY <1>2 DEF BrokerTypeOK
  <2>2. topicOf \in Seq(Topics)
    BY <2>1
  <2>3. Len(topicOf) = next_id - 1
    BY <2>1, <2>2
  <2>4. /\ topicOf' \in Seq(Topics) /\ Len(topicOf') = next_id
        /\ \A i \in 1 .. next_id - 1 : topicOf'[i] = topicOf[i]
        /\ topicOf'[next_id] = t
    <3>1. topicOf' = Append(topicOf, t)
      BY DEF Subscribe
    <3> HIDE DEF new
    <3>2. t \in Topics /\ next_id \in Nat
      BY <1>3 DEF Ids
    <3> QED
      BY <2>1, <2>2, <2>3, <3>1, <3>2
  <2>5. topicOf' \in [1 .. next_id -> Topics]
    BY <2>4
  <2> QED
    BY <1>3, <2>1, <2>4, <2>5
<1>7. \A u \in Topics : Live(u) \subseteq Live(u)'
  BY <1>2, <1>3, <1>6 DEF Live, Subscribe, BrokerTypeOK
<1>8. next_id \in Live(t)' /\ \A u \in Topics : next_id \notin Live(u)
  BY <1>2, <1>3, <1>6 DEF Live, Subscribe, BrokerTypeOK
<1>9. /\ new \in Seq(Ids)
      /\ \A k, l \in 1 .. Len(new) : new[k] = new[l] => k = l
      /\ \A k \in 1 .. Len(new) : new[k] \in Live(t)'
  <2>1. CASE HasEntry(t)
    <3>1. t \in DOMAIN subscriptions /\ subscriptions[t] \in Seq(Ids) /\ new = Append(subscriptions[t], next_id)
      BY <1>5, <2>1 DEF HasEntry
    <3>2. \A k \in 1 .. Len(subscriptions[t]) : subscriptions[t][k] \in Live(t)
      BY <1>2, <3>1 DEF TableInv
    <3>3. \A k, l \in 1 .. Len(subscriptions[t]) : subscriptions[t][k] = subscriptions[t][l] => k = l
      BY <1>2, <3>1 DEF TableInv
    <3> HIDE DEF new
    <3> QED
      BY <1>3, <1>7, <1>8, <3>1, <3>2, <3>3
  <2>2. CASE ~HasEntry(t)
    BY <1>3, <1>8, <2>2
  <2> QED
    BY <2>1, <2>2
<1> HIDE DEF new
<1>10. TableInv'
  <2> SUFFICES ASSUME NEW u \in DOMAIN subscriptions'
               PROVE  /\ \A k, l \in 1 .. Len(subscriptions'[u]) : subscriptions'[u][k] = subscriptions'[u][l] => k = l
                      /\ \A k \in 1 .. Len(subscriptions'[u]) : subscriptions'[u][k] \in Live(u)'
    BY DEF TableInv
  <2>1. CASE u = t
    BY <1>4, <1>9, <2>1
  <2>2. CASE u # t
    BY <1>2, <1>4, <1>7, <2>2 DEF TableInv, BrokerTypeOK
  <2> QED
    BY <2>1, <2>2
<1>11. BrokerTypeOK'
  <2>1. DOMAIN subscriptions' \subseteq Topics
    BY <1>2, <1>4 DEF BrokerTypeOK
  <2>2. \A u \in DOMAIN subscriptions' : subscriptions'[u] \in Seq(Ids)
    BY <1>4, <1>5, <1>9
  <2>3. next_id' \in 1 .. MaxSubscriptions + 1 /\ retired' \subseteq 1 .. next_id' - 1
    BY <1>2 DEF Subscribe, BrokerTypeOK
  <2> QED
    BY <1>2, <1>6, <2>1, <2>2, <2>3 DEF Subscribe, BrokerTypeOK, delivery
<1> QED
  BY <1>1, <1>10, <1>11 DEF BrokerInv

\* unsubscribe takes an id out of the vector of its topic, or nothing.
LEMMA UnsubscribeStep ==
  ASSUME BrokerInv, NEW t \in Topics, NEW id \in Ids, Unsubscribe(t, id)
  PROVE  BrokerInv'
<1>1. PendingInv' /\ NestedInv' /\ OvertakenInv' /\ OnlyOwed'
  BY DeliveryKept DEF Unsubscribe
<1>2. BrokerTypeOK /\ TableInv
  BY DEF BrokerInv
<1>3. \A u \in DOMAIN subscriptions : subscriptions[u] \in Seq(Ids)
  BY <1>2 DEF BrokerTypeOK
<1> DEFINE left == Without(subscriptions[t], id)
<1>4. ASSUME t \in DOMAIN subscriptions
      PROVE  /\ left \in Seq(Ids)
             /\ \A k, l \in 1 .. Len(left) : left[k] = left[l] => k = l
             /\ \A k \in 1 .. Len(left) :
                   left[k] # id /\ \E l \in 1 .. Len(subscriptions[t]) : left[k] = subscriptions[t][l]
  <2>1. \A k, l \in 1 .. Len(subscriptions[t]) : subscriptions[t][k] = subscriptions[t][l] => k = l
    BY <1>2, <1>4 DEF TableInv
  <2> QED
    BY <1>3, <1>4, <2>1, WithoutFacts
<1>5. /\ DOMAIN subscriptions' \subseteq DOMAIN subscriptions
      /\ \A u \in DOMAIN subscriptions' : subscriptions'[u] = IF u = t THEN left ELSE subscriptions[u]
  <2>1. CASE HasEntry(t)
    BY <2>1 DEF Unsubscribe, Erase
  <2>2. CASE ~HasEntry(t)
    BY <2>2 DEF Unsubscribe, HasEntry
  <2> QED
    BY <2>1, <2>2
<1>6. \A u \in Topics : \A i \in Live(u) : u # t \/ i # id => i \in Live(u)'
  BY DEF Live, Unsubscribe
<1> HIDE DEF left
<1>7. TableInv'
  <2> SUFFICES ASSUME NEW u \in DOMAIN subscriptions'
               PROVE  /\ \A k, l \in 1 .. Len(subscriptions'[u]) : subscriptions'[u][k] = subscriptions'[u][l] => k = l
                      /\ \A k \in 1 .. Len(subscriptions'[u]) : subscriptions'[u][k] \in Live(u)'
    BY DEF TableInv
  <2>0. u \in Topics /\ u \in DOMAIN subscriptions
    BY <1>2, <1>5 DEF BrokerTypeOK
  <2>3. \A k \in 1 .. Len(subscriptions[u]) : subscriptions[u][k] \in Live(u)
    BY <1>2, <2>0 DEF TableInv
  <2>1. CASE u = t
    BY <1>4, <1>5, <1>6, <2>0, <2>1, <2>3
  <2>2. CASE u # t
    BY <1>2, <1>5, <1>6, <2>0, <2>2, <2>3 DEF TableInv
  <2> QED
    BY <2>1, <2>2
<1>8. BrokerTypeOK'
  <2>1. \A u \in DOMAIN subscriptions' : subscriptions'[u] \in Seq(Ids)
    BY <1>3, <1>4, <1>5
  <2>2. retired' \subseteq 1 .. next_id' - 1
    BY <1>2 DEF Unsubscribe, BrokerTypeOK, Ids
  <2> QED
    BY <1>2, <1>5, <2>1, <2>2 DEF Unsubscribe, BrokerTypeOK, delivery
<1> QED
  BY <1>1, <1>7, <1>8 DEF BrokerInv

\* What is on the stack of a thread is a call of publish.
LEMMA FrameMessages ==
  ASSUME BrokerTypeOK
  PROVE  \A q \in Publishers : \A k \in 1 .. Len(calls[q]) :
            calls[q][k] \in Frames /\ calls[q][k].message \in Messages
<1>1. \A q \in Publishers : calls[q] \in Seq(Frames)
  BY DEF BrokerTypeOK
<1>2. \A q \in Publishers : \A k \in 1 .. Len(calls[q]) : calls[q][k] \in Frames
  BY <1>1
<1> QED
  BY <1>2 DEF Frames

\* Steps that leave the messages of the open calls alone keep their order.
LEMMA SameMessages ==
  ASSUME BrokerInv, UNCHANGED <<count, owed, within>>,
         \A p \in Publishers :
            /\ Len(calls'[p]) <= Len(calls[p])
            /\ \A k \in 1 .. Len(calls'[p]) : calls'[p][k].message = calls[p][k].message,
         \A p \in Publishers : Len(calls[p]) \in Nat /\ Len(calls'[p]) \in Nat
  PROVE  NestedInv' /\ OvertakenInv'
<1>1. \A p \in Publishers : \A k \in 1 .. Len(calls'[p]) : k \in 1 .. Len(calls[p])
  OBVIOUS
<1>2. NestedInv'
  BY <1>1 DEF BrokerInv, NestedInv
<1>3. OvertakenInv'
  BY <1>1 DEF BrokerInv, OvertakenInv, Ids, Messages
<1> QED
  BY <1>2, <1>3

\* The innermost call of publish ends.
LEMMA PopStep ==
  ASSUME BrokerInv, NEW p \in Publishers, calls[p] # << >>,
         calls' = [calls EXCEPT ![p] = Front(@)],
         UNCHANGED <<table, count, owed, got, within>>, thrown' \subseteq Messages
  PROVE  BrokerInv'
<1>1. BrokerTypeOK
  BY DEF BrokerInv
<1>2. \A q \in Publishers :
         /\ calls[q] \in Seq(Frames) /\ Len(calls[q]) \in Nat /\ Len(calls[q]) <= MaxDepth
         /\ calls'[q] \in Seq(Frames) /\ Len(calls'[q]) \in Nat /\ Len(calls'[q]) <= Len(calls[q])
         /\ \A k \in 1 .. Len(calls'[q]) : calls'[q][k] = calls[q][k]
  <2> SUFFICES ASSUME NEW q \in Publishers
               PROVE  /\ calls[q] \in Seq(Frames) /\ Len(calls[q]) \in Nat /\ Len(calls[q]) <= MaxDepth
                      /\ calls'[q] \in Seq(Frames) /\ Len(calls'[q]) \in Nat /\ Len(calls'[q]) <= Len(calls[q])
                      /\ \A k \in 1 .. Len(calls'[q]) : calls'[q][k] = calls[q][k]
    OBVIOUS
  <2>1. calls[q] \in Seq(Frames) /\ Len(calls[q]) \in Nat /\ Len(calls[q]) <= MaxDepth
    BY <1>1 DEF BrokerTypeOK
  <2>2. CASE q = p
    <3>1. calls'[q] = SubSeq(calls[q], 1, Len(calls[q]) - 1)
      BY <1>1, <2>2 DEF Front, BrokerTypeOK
    <3>2. Len(calls[q]) - 1 \in Nat
      BY <2>1, <2>2
    <3> QED
      BY <2>1, <3>1, <3>2
  <2>3. CASE q # p
    BY <1>1, <2>1, <2>3 DEF BrokerTypeOK
  <2> QED
    BY <2>2, <2>3
<1>3. NestedInv' /\ OvertakenInv'
  BY <1>2, SameMessages
<1>4. TableInv'
  BY TableKept
<1>5. PendingInv'
  <2> SUFFICES ASSUME NEW q \in Publishers, NEW k \in 1 .. Len(calls'[q])
               PROVE  LET v == calls'[q][k].callbacks
                          n == calls'[q][k].message
                      IN  /\ \A i, j \in 1 .. Len(v) : v[i] = v[j] => i = j
                          /\ \A i \in 1 .. Len(v) : <<v[i], n>> \in owed' \ got'
    BY DEF PendingInv
  <2>1. k \in 1 .. Len(calls[q]) /\ calls'[q][k] = calls[q][k]
    BY <1>2
  <2> DEFINE v == calls[q][k].callbacks
             n == calls[q][k].message
  <2>2. /\ \A i, j \in 1 .. Len(v) : v[i] = v[j] => i = j
        /\ \A i \in 1 .. Len(v) : <<v[i], n>> \in owed \ got
    BY <2>1 DEF BrokerInv, PendingInv
  <2> HIDE DEF v, n
  <2> QED
    BY <2>1, <2>2 DEF v, n
<1>6. calls' \in [Publishers -> Seq(Frames)] /\ \A q \in Publishers : Len(calls'[q]) <= MaxDepth
  BY <1>1, <1>2, BoundsAssumption DEF BrokerTypeOK
<1>7. BrokerTypeOK'
  BY <1>1, <1>6 DEF BrokerTypeOK, table
<1> QED
  BY <1>3, <1>4, <1>5, <1>7 DEF BrokerInv, OnlyOwed

\* publish to a topic without an entry.
LEMMA PublishNobodyStep ==
  ASSUME BrokerInv, NEW p \in Publishers, NEW t \in Topics, PublishNobody(p, t)
  PROVE  BrokerInv'
<1>1. BrokerTypeOK
  BY DEF BrokerInv
<1>2. count' \in [Publishers -> 0 .. MaxPublishes] /\ \A q \in Publishers : count'[q] >= count[q]
  <2>1. count' = [count EXCEPT ![p] = @ + 1] /\ count[p] < MaxPublishes
    BY DEF PublishNobody, MayPublish
  <2> QED
    BY <1>1, <2>1, BoundsAssumption DEF BrokerTypeOK
<1>3. BrokerTypeOK'
  BY <1>1, <1>2 DEF PublishNobody, BrokerTypeOK, table
<1>4. TableInv'
  BY TableKept DEF PublishNobody
<1>5. PendingInv'
  BY PendingKept DEF BrokerInv, PublishNobody
<1>6. NestedInv'
  <2>1. \A q \in Publishers : \A k \in 1 .. Len(calls[q]) : calls[q][k].message[2] \in Nat
    BY <1>1, FrameMessages DEF Messages
  <2>2. NestedInv /\ calls' = calls
    BY DEF BrokerInv, PublishNobody
  <2>3. \A q \in Publishers : \A k \in 1 .. Len(calls[q]) : calls[q][k].message[2] <= count'[q]
    <3> SUFFICES ASSUME NEW q \in Publishers, NEW k \in 1 .. Len(calls[q])
                 PROVE  calls[q][k].message[2] <= count'[q]
      OBVIOUS
    <3>1. calls[q][k].message[2] \in Nat /\ calls[q][k].message[2] <= count[q]
      BY <2>1, <2>2 DEF NestedInv
    <3>2. count[q] \in Nat /\ count'[q] \in Nat /\ count'[q] >= count[q]
      BY <1>1, <1>2 DEF BrokerTypeOK
    <3> QED
      BY <3>1, <3>2
  <2> QED
    BY <2>2, <2>3 DEF NestedInv
<1>7. OvertakenInv'
  <2>1. \A id \in Ids, n \in Messages : <<id, n>> \in owed => n[2] <= count'[n[1]]
    BY <1>1, <1>2 DEF BrokerInv, OvertakenInv, BrokerTypeOK, Messages
  <2> QED
    BY <2>1 DEF BrokerInv, OvertakenInv, PublishNobody, Ids, Messages
<1> QED
  BY <1>3, <1>4, <1>5, <1>6, <1>7 DEF BrokerInv, OnlyOwed, PublishNobody

\* publish copies the vector: whoever is in it is owed the message.
LEMMA PublishStep ==
  ASSUME BrokerInv, NEW p \in Publishers, NEW t \in Topics, Publish(p, t)
  PROVE  BrokerInv'
<1> DEFINE m == <<p, count[p] + 1>>
           frame == [message |-> m, callbacks |-> Snapshot(t), running |-> 0]
           depth == Len(calls[p])
<1>1. BrokerTypeOK /\ TableInv /\ PendingInv /\ NestedInv /\ OvertakenInv /\ OnlyOwed
  BY DEF BrokerInv
<1>2. m \in Messages /\ count[p] \in Nat /\ m[1] = p /\ m[2] = count[p] + 1
  BY <1>1, BoundsAssumption DEF Publish, MayPublish, BrokerTypeOK, Messages
<1>3. /\ t \in DOMAIN subscriptions /\ Snapshot(t) \in Seq(Ids)
      /\ \A i, j \in 1 .. Len(Snapshot(t)) : Snapshot(t)[i] = Snapshot(t)[j] => i = j
      /\ \A i \in 1 .. Len(Snapshot(t)) : Snapshot(t)[i] \in Live(t)
  BY <1>1 DEF Publish, HasEntry, Snapshot, BrokerTypeOK, TableInv
<1>4. frame \in Frames /\ frame.message = m /\ frame.callbacks = Snapshot(t)
  BY <1>2, <1>3 DEF Frames
<1>5. /\ count' = [count EXCEPT ![p] = @ + 1]
      /\ calls' = [calls EXCEPT ![p] = Append(@, frame)]
      /\ owed' = owed \cup (Live(t) \X {m})
      /\ within' = [within EXCEPT ![m] = {calls[p][k].message : k \in DOMAIN calls[p]}]
      /\ UNCHANGED <<table, thrown, got>>
      /\ depth < MaxDepth
  BY DEF Publish, MayPublish
<1>6. \A id \in Ids : <<id, m>> \notin owed /\ <<id, m>> \notin got
  BY <1>1, <1>2 DEF OvertakenInv, OnlyOwed
<1>7. \A q \in Publishers : q # p => calls'[q] = calls[q]
  BY <1>1, <1>5 DEF BrokerTypeOK
<1>8. \A q \in Publishers : calls[q] \in Seq(Frames) /\ Len(calls[q]) \in Nat
  BY <1>1 DEF BrokerTypeOK
<1>9. /\ calls'[p] \in Seq(Frames) /\ Len(calls'[p]) = depth + 1 /\ depth \in Nat
      /\ \A k \in 1 .. depth : calls'[p][k] = calls[p][k]
      /\ calls'[p][depth + 1] = frame
  <2>1. calls'[p] = Append(calls[p], frame)
    BY <1>1, <1>5 DEF BrokerTypeOK
  <2> HIDE DEF frame
  <2> QED
    BY <1>4, <1>8, <2>1
<1> HIDE DEF frame
<1>10. count' \in [Publishers -> 0 .. MaxPublishes] /\ count'[p] = count[p] + 1
       /\ \A q \in Publishers : count'[q] >= count[q]
  BY <1>1, <1>2, <1>5, BoundsAssumption DEF BrokerTypeOK, Messages
<1>11. \A q \in Publishers : \A k \in 1 .. Len(calls[q]) :
          calls[q][k] \in Frames /\ calls[q][k].message \in Messages /\ calls[q][k].message[2] \in Nat
  BY <1>1, FrameMessages DEF Messages
<1> HIDE DEF m, depth
<1>12. Live(t) \subseteq Ids
  BY <1>1, BoundsAssumption DEF Live, BrokerTypeOK, Ids
<1>13. BrokerTypeOK'
  <2>1. calls' \in [Publishers -> Seq(Frames)]
    BY <1>1, <1>5, <1>7, <1>9 DEF BrokerTypeOK
  <2>2. \A q \in Publishers : Len(calls'[q]) <= MaxDepth
    BY <1>1, <1>5, <1>7, <1>9, BoundsAssumption DEF BrokerTypeOK
  <2>3. owed' \subseteq Ids \X Messages
    BY <1>1, <1>2, <1>5, <1>12 DEF BrokerTypeOK
  <2>4. within' \in [Messages -> SUBSET Messages]
    <3>1. {calls[p][k].message : k \in DOMAIN calls[p]} \subseteq Messages
      BY <1>8, <1>11
    <3> QED
      BY <1>1, <1>5, <3>1 DEF BrokerTypeOK
  <2> QED
    BY <1>1, <1>5, <1>10, <2>1, <2>2, <2>3, <2>4 DEF BrokerTypeOK, table
<1>14. TableInv'
  BY <1>5, TableKept
<1>15. PendingInv'
  <2> SUFFICES ASSUME NEW q \in Publishers, NEW k \in 1 .. Len(calls'[q])
               PROVE  LET v == calls'[q][k].callbacks
                          n == calls'[q][k].message
                      IN  /\ \A i, j \in 1 .. Len(v) : v[i] = v[j] => i = j
                          /\ \A i \in 1 .. Len(v) : <<v[i], n>> \in owed' \ got'
    BY DEF PendingInv
  <2>1. CASE q = p /\ k = depth + 1
    <3>1. calls'[q][k].callbacks = Snapshot(t) /\ calls'[q][k].message = m
      BY <1>4, <1>9, <2>1
    <3>2. \A i \in 1 .. Len(Snapshot(t)) : <<Snapshot(t)[i], m>> \in owed' \ got'
      BY <1>3, <1>5, <1>6, <1>12
    <3> QED
      BY <1>3, <3>1, <3>2
  <2>2. CASE ~(q = p /\ k = depth + 1)
    <3>1. k \in 1 .. Len(calls[q]) /\ calls'[q][k] = calls[q][k]
      BY <1>7, <1>8, <1>9, <2>2 DEF depth
    <3> QED
      <4> DEFINE v == calls[q][k].callbacks
      <4>1. /\ \A i, j \in 1 .. Len(v) : v[i] = v[j] => i = j
            /\ \A i \in 1 .. Len(v) : <<v[i], calls[q][k].message>> \in owed \ got
        BY <1>1, <3>1 DEF PendingInv
      <4>2. owed \subseteq owed' /\ got' = got
        BY <1>5
      <4> QED
        BY <3>1, <4>1, <4>2
  <2> QED
    BY <2>1, <2>2
<1>16. NestedInv'
  <2>1. ASSUME NEW q \in Publishers, NEW k \in 1 .. Len(calls'[q])
        PROVE  /\ calls'[q][k].message[1] = q /\ calls'[q][k].message[2] <= count'[q]
               /\ \A l \in 1 .. Len(calls'[q]) : k < l => calls'[q][k].message[2] < calls'[q][l].message[2]
    <3>1. CASE q = p /\ k = depth + 1
      BY <1>2, <1>4, <1>9, <1>10, <3>1
    <3>2. CASE ~(q = p /\ k = depth + 1)
      <4>1. k \in 1 .. Len(calls[q]) /\ calls'[q][k] = calls[q][k]
        BY <1>7, <1>8, <1>9, <3>2 DEF depth
      <4>2. calls[q][k].message[1] = q /\ calls[q][k].message[2] <= count[q] /\ count[q] \in Nat
        BY <1>1, <4>1 DEF NestedInv, BrokerTypeOK
      <4>3. calls'[q][k].message[1] = q /\ calls'[q][k].message[2] <= count'[q]
        BY <1>10, <1>11, <4>1, <4>2
      <4>4. ASSUME NEW l \in 1 .. Len(calls'[q]), k < l
            PROVE  calls'[q][k].message[2] < calls'[q][l].message[2]
        <5>1. CASE q = p /\ l = depth + 1
          BY <1>2, <1>4, <1>9, <1>11, <4>1, <4>2, <5>1
        <5>2. CASE ~(q = p /\ l = depth + 1)
          <6>1. l \in 1 .. Len(calls[q]) /\ calls'[q][l] = calls[q][l]
            BY <1>7, <1>8, <1>9, <5>2 DEF depth
          <6> QED
            BY <1>1, <4>1, <4>4, <6>1 DEF NestedInv
        <5> QED
          BY <5>1, <5>2
      <4> QED
        BY <4>3, <4>4
    <3> QED
      BY <3>1, <3>2
  <2> QED
    BY <2>1 DEF NestedInv
<1>17. OvertakenInv'
  <2>1. ASSUME NEW id \in Ids, NEW n \in Messages, <<id, n>> \in owed'
        PROVE  (n = m \/ <<id, n>> \in owed) /\ n[2] <= count'[n[1]]
    <3>1. n = m \/ <<id, n>> \in owed
      BY <1>5, <2>1
    <3>2. <<id, n>> \in owed => n[2] <= count[n[1]]
      BY <1>1 DEF OvertakenInv
    <3>3. n[1] \in Publishers /\ n[2] \in Nat /\ count[n[1]] \in Nat
      BY <1>1 DEF Messages, BrokerTypeOK
    <3> QED
      BY <1>2, <1>10, <3>1, <3>2, <3>3
  <2>2. ASSUME NEW q \in Publishers, NEW k \in 1 .. Len(calls'[q]), NEW id \in Ids, NEW n \in Messages,
               <<id, n>> \in owed', n[1] = q, n[2] > calls'[q][k].message[2]
        PROVE  calls'[q][k].message \in within'[n]
    <3>1. CASE q = p /\ k = depth + 1
      <4>1. n[2] \in Nat /\ n[2] > count[p] + 1
        BY <1>2, <1>4, <1>9, <2>2, <3>1 DEF Messages
      <4>2. n[2] <= count[p] + 1
        BY <1>10, <2>1, <2>2, <3>1
      <4> QED
        BY <1>2, <4>1, <4>2
    <3>2. CASE ~(q = p /\ k = depth + 1)
      <4>1. k \in 1 .. Len(calls[q]) /\ calls'[q][k] = calls[q][k]
        BY <1>7, <1>8, <1>9, <3>2 DEF depth
      <4>2. CASE n = m
        <5>1. q = p /\ within'[m] = {calls[p][j].message : j \in DOMAIN calls[p]}
          BY <1>1, <1>2, <1>5, <2>2, <4>2 DEF BrokerTypeOK
        <5>2. k \in DOMAIN calls[p]
          BY <1>8, <4>1, <5>1
        <5> QED
          BY <4>1, <4>2, <5>1, <5>2
      <4>3. CASE n # m
        <5>1. <<id, n>> \in owed /\ within'[n] = within[n]
          BY <1>1, <1>5, <2>1, <2>2, <4>3 DEF BrokerTypeOK
        <5> QED
          BY <1>1, <2>2, <4>1, <5>1 DEF OvertakenInv
      <4> QED
        BY <4>2, <4>3
    <3> QED
      BY <3>1, <3>2
  <2> QED
    BY <2>1, <2>2 DEF OvertakenInv, Ids, Messages
<1>18. OnlyOwed'
  BY <1>1, <1>5 DEF OnlyOwed
<1> QED
  BY <1>13, <1>14, <1>15, <1>16, <1>17, <1>18 DEF BrokerInv

\* The next callback is called, and is owed nothing more.
LEMMA CallbackBeginsStep ==
  ASSUME BrokerInv, NEW p \in Publishers, CallbackBegins(p)
  PROVE  BrokerInv'
<1> DEFINE depth == Len(calls[p])
           frame == calls[p][depth]
           id == Head(frame.callbacks)
           next == [frame EXCEPT !.running = id, !.callbacks = Tail(frame.callbacks)]
<1>1. BrokerTypeOK /\ PendingInv /\ NestedInv /\ OvertakenInv /\ OnlyOwed
  BY DEF BrokerInv
<1>2. \A q \in Publishers : calls[q] \in Seq(Frames) /\ Len(calls[q]) \in Nat /\ Len(calls[q]) <= MaxDepth
  BY <1>1 DEF BrokerTypeOK
<1>3. /\ depth \in 1 .. Len(calls[p]) /\ frame \in Frames
      /\ frame.message \in Messages /\ frame.callbacks \in Seq(Ids)
  <2>1. depth \in 1 .. Len(calls[p])
    BY <1>2 DEF CallbackBegins
  <2> QED
    BY <1>1, <2>1, FrameMessages DEF Frames
<1>4. /\ frame.callbacks # << >>
      /\ calls' = [calls EXCEPT ![p][depth] = next]
      /\ got' = got \cup {<<id, frame.message>>}
      /\ UNCHANGED <<table, count, thrown, owed, within>>
  BY DEF CallbackBegins, NextCallbacks, Last
<1>5. /\ id \in Ids /\ Tail(frame.callbacks) \in Seq(Ids)
      /\ 1 \in 1 .. Len(frame.callbacks) /\ id = frame.callbacks[1]
      /\ \A i \in 1 .. Len(Tail(frame.callbacks)) :
            i + 1 \in 1 .. Len(frame.callbacks) /\ Tail(frame.callbacks)[i] = frame.callbacks[i + 1]
  BY <1>3, <1>4
<1>6. next \in Frames /\ next.message = frame.message /\ next.callbacks = Tail(frame.callbacks)
  BY <1>3, <1>5 DEF Frames
<1>7. \A q \in Publishers : q # p => calls'[q] = calls[q]
  BY <1>1, <1>4 DEF BrokerTypeOK
<1>8. calls'[p] = [calls[p] EXCEPT ![depth] = next]
  BY <1>1, <1>4 DEF BrokerTypeOK
<1> HIDE DEF next, id, frame
<1>9. /\ calls'[p] \in Seq(Frames) /\ Len(calls'[p]) = Len(calls[p])
      /\ calls'[p][depth] = next
      /\ \A k \in 1 .. Len(calls[p]) : k # depth => calls'[p][k] = calls[p][k]
  BY <1>2, <1>3, <1>6, <1>8
<1> HIDE DEF depth
<1>10. \A q \in Publishers :
          /\ Len(calls'[q]) = Len(calls[q])
          /\ \A k \in 1 .. Len(calls'[q]) : calls'[q][k].message = calls[q][k].message
  BY <1>6, <1>7, <1>9 DEF frame
<1>11. NestedInv' /\ OvertakenInv'
  BY <1>2, <1>4, <1>10, SameMessages
<1>12. TableInv'
  BY <1>4, TableKept
<1>13. /\ \A i, j \in 1 .. Len(frame.callbacks) : frame.callbacks[i] = frame.callbacks[j] => i = j
       /\ \A i \in 1 .. Len(frame.callbacks) : <<frame.callbacks[i], frame.message>> \in owed \ got
  BY <1>1, <1>3 DEF PendingInv, frame
<1>14. PendingInv'
  <2> SUFFICES ASSUME NEW q \in Publishers, NEW k \in 1 .. Len(calls'[q])
               PROVE  LET v == calls'[q][k].callbacks
                          n == calls'[q][k].message
                      IN  /\ \A i, j \in 1 .. Len(v) : v[i] = v[j] => i = j
                          /\ \A i \in 1 .. Len(v) : <<v[i], n>> \in owed' \ got'
    BY DEF PendingInv
  <2>1. CASE q = p /\ k = depth
    <3>1. calls'[q][k].callbacks = Tail(frame.callbacks) /\ calls'[q][k].message = frame.message
      BY <1>6, <1>9, <2>1
    <3>2. \A i, j \in 1 .. Len(Tail(frame.callbacks)) :
             Tail(frame.callbacks)[i] = Tail(frame.callbacks)[j] => i = j
      BY <1>3, <1>5, <1>13
    <3>3. \A i \in 1 .. Len(Tail(frame.callbacks)) : Tail(frame.callbacks)[i] # id
      BY <1>3, <1>5, <1>13
    <3>4. \A i \in 1 .. Len(Tail(frame.callbacks)) :
             <<Tail(frame.callbacks)[i], frame.message>> \in owed' \ got'
      BY <1>4, <1>5, <1>13, <3>3
    <3> QED
      BY <3>1, <3>2, <3>4
  <2>2. CASE ~(q = p /\ k = depth)
    <3>1. k \in 1 .. Len(calls[q]) /\ calls'[q][k] = calls[q][k]
      BY <1>7, <1>9, <1>10, <2>2
    <3> DEFINE v == calls[q][k].callbacks
               n == calls[q][k].message
    <3>2. /\ \A i, j \in 1 .. Len(v) : v[i] = v[j] => i = j
          /\ \A i \in 1 .. Len(v) : <<v[i], n>> \in owed \ got
      BY <1>1, <3>1 DEF PendingInv
    <3>3. n # frame.message
      <4>1. n[1] = q /\ frame.message[1] = p
        BY <1>1, <1>3, <3>1 DEF NestedInv, frame
      <4>2. CASE q = p
        <5>1. n[2] < frame.message[2] \/ frame.message[2] < n[2]
          BY <1>1, <1>3, <2>2, <3>1, <4>2 DEF NestedInv, frame
        <5>2. n[2] \in Nat
          BY <1>1, <3>1, FrameMessages DEF Messages
        <5> QED
          BY <5>1, <5>2
      <4> QED
        BY <4>1, <4>2
    <3> QED
      BY <1>4, <3>1, <3>2, <3>3
  <2> QED
    BY <2>1, <2>2
<1>15. BrokerTypeOK'
  <2>1. calls' \in [Publishers -> Seq(Frames)] /\ \A q \in Publishers : Len(calls'[q]) <= MaxDepth
    BY <1>1, <1>2, <1>4, <1>7, <1>9 DEF BrokerTypeOK
  <2>2. got' \subseteq Ids \X Messages
    BY <1>1, <1>3, <1>4, <1>5 DEF BrokerTypeOK
  <2> QED
    BY <1>1, <1>4, <2>1, <2>2 DEF BrokerTypeOK, table
<1>16. OnlyOwed'
  <2>1. <<id, frame.message>> \in owed
    BY <1>5, <1>13
  <2> QED
    BY <1>1, <1>4, <2>1 DEF OnlyOwed
<1> QED
  BY <1>11, <1>12, <1>14, <1>15, <1>16 DEF BrokerInv

\* A callback returns to the loop of publish.
LEMMA CallbackReturnsStep ==
  ASSUME BrokerInv, NEW p \in Publishers, CallbackReturns(p)
  PROVE  BrokerInv'
<1> DEFINE depth == Len(calls[p])
           frame == calls[p][depth]
           next == [frame EXCEPT !.running = 0]
<1>1. BrokerTypeOK /\ PendingInv
  BY DEF BrokerInv
<1>2. \A q \in Publishers : calls[q] \in Seq(Frames) /\ Len(calls[q]) \in Nat /\ Len(calls[q]) <= MaxDepth
  BY <1>1 DEF BrokerTypeOK
<1>3. depth \in 1 .. Len(calls[p]) /\ frame \in Frames
  <2>1. depth \in 1 .. Len(calls[p])
    BY <1>2 DEF CallbackReturns
  <2> QED
    BY <1>1, <2>1, FrameMessages
<1>4. /\ calls' = [calls EXCEPT ![p][depth] = next]
      /\ UNCHANGED <<table, count, thrown, owed, got, within>>
  BY DEF CallbackReturns
<1>5. next \in Frames /\ next.message = frame.message /\ next.callbacks = frame.callbacks
  BY <1>3 DEF Frames
<1>6. \A q \in Publishers : q # p => calls'[q] = calls[q]
  BY <1>1, <1>4 DEF BrokerTypeOK
<1>7. calls'[p] = [calls[p] EXCEPT ![depth] = next]
  BY <1>1, <1>4 DEF BrokerTypeOK
<1> HIDE DEF next
<1>8. /\ calls'[p] \in Seq(Frames) /\ Len(calls'[p]) = Len(calls[p])
      /\ calls'[p][depth] = next
      /\ \A k \in 1 .. Len(calls[p]) : k # depth => calls'[p][k] = calls[p][k]
  BY <1>2, <1>3, <1>5, <1>7
<1>9. \A q \in Publishers :
         /\ Len(calls'[q]) = Len(calls[q])
         /\ \A k \in 1 .. Len(calls'[q]) :
               /\ calls'[q][k].message = calls[q][k].message
               /\ calls'[q][k].callbacks = calls[q][k].callbacks
  BY <1>5, <1>6, <1>8
<1>10. NestedInv' /\ OvertakenInv'
  BY <1>2, <1>4, <1>9, SameMessages
<1>11. TableInv'
  BY <1>4, TableKept
<1>12. PendingInv'
  BY <1>1, <1>4, <1>9 DEF PendingInv
<1>13. calls' \in [Publishers -> Seq(Frames)] /\ \A q \in Publishers : Len(calls'[q]) <= MaxDepth
  BY <1>1, <1>2, <1>4, <1>6, <1>8 DEF BrokerTypeOK
<1>14. BrokerTypeOK'
  BY <1>1, <1>4, <1>13 DEF BrokerTypeOK, table
<1> QED
  BY <1>4, <1>10, <1>11, <1>12, <1>14 DEF BrokerInv, OnlyOwed

\* Every step keeps the invariant.
LEMMA BrokerInductive == BrokerInv /\ [BrokerNext]_brokerVars => BrokerInv'
<1> SUFFICES ASSUME BrokerInv, [BrokerNext]_brokerVars PROVE BrokerInv'
  OBVIOUS
<1>1. CASE UNCHANGED brokerVars
  <2>1. BrokerTypeOK'
    BY <1>1 DEF brokerVars, table, delivery, BrokerInv, BrokerTypeOK
  <2>2. TableInv'
    BY <1>1, TableKept DEF brokerVars
  <2> QED
    BY <1>1, <2>1, <2>2, DeliveryKept DEF brokerVars, BrokerInv
<1>2. ASSUME NEW p \in Publishers, GoOn(p) PROVE BrokerInv'
  <2>1. CASE CallbackBegins(p)
    BY <2>1, CallbackBeginsStep
  <2>2. CASE CallbackReturns(p)
    BY <2>2, CallbackReturnsStep
  <2>3. CASE CallbackThrows(p)
    <3>1. Len(calls[p]) \in 1 .. Len(calls[p])
      BY <2>3 DEF CallbackThrows, BrokerInv, BrokerTypeOK
    <3>2. thrown' \subseteq Messages
      BY <2>3, <3>1, FrameMessages DEF CallbackThrows, Last, BrokerInv, BrokerTypeOK
    <3> QED
      BY <2>3, <3>2, PopStep DEF CallbackThrows
  <2>4. CASE PublishReturns(p)
    BY <2>4, PopStep DEF PublishReturns, BrokerInv, BrokerTypeOK
  <2> QED
    BY <1>2, <2>1, <2>2, <2>3, <2>4 DEF GoOn
<1> QED
  BY <1>1, <1>2, SubscribeStep, UnsubscribeStep, PublishStep, PublishNobodyStep DEF BrokerNext

\* The vectors, and what the open calls of publish still have to do, in every behaviour.
THEOREM BrokerInvariance == BrokerSpec => []BrokerInv
  BY BrokerInitial, BrokerInductive, PTL DEF BrokerSpec

\* Every variable of the broker keeps its type.
THEOREM BrokerTypeCorrect == BrokerSpec => []BrokerTypeOK
<1>1. BrokerInv => BrokerTypeOK
  BY DEF BrokerInv
<1> QED
  BY <1>1, BrokerInvariance, PTL

\* A callback is called only with messages whose publish found it subscribed, never
\* after an unsubscribe that had returned before.
THEOREM CalledIsOwed == BrokerSpec => []OnlyOwed
<1>1. BrokerInv => OnlyOwed
  BY DEF BrokerInv
<1> QED
  BY <1>1, BrokerInvariance, PTL

\* A subscriber gets a message once, and those of one thread in the order they were
\* published, but for those published inside the callback an earlier one is in.
THEOREM DeliveredOnceInOrder == BrokerSpec => OnceAndInOrder
<1> DEFINE A == \A id \in Ids, m \in Messages :
                   CallsWith(id, m) =>
                       /\ <<id, m>> \notin got
                       /\ \A n \in Messages :
                             <<id, n>> \in got /\ n[1] = m[1] /\ n[2] > m[2] => m \in within[n]
<1>1. BrokerInv => A
  <2> SUFFICES ASSUME BrokerInv, NEW id \in Ids, NEW m \in Messages, NEW p \in Publishers,
                      CallbackBegins(p), Last(calls[p]).message = m,
                      Head(Last(calls[p]).callbacks) = id
               PROVE  /\ <<id, m>> \notin got
                      /\ \A n \in Messages :
                            <<id, n>> \in got /\ n[1] = m[1] /\ n[2] > m[2] => m \in within[n]
    BY DEF CallsWith
  <2> DEFINE depth == Len(calls[p])
             frame == calls[p][depth]
  <2>1. BrokerTypeOK /\ PendingInv /\ NestedInv /\ OvertakenInv /\ OnlyOwed
    BY DEF BrokerInv
  <2>2. depth \in 1 .. Len(calls[p]) /\ Last(calls[p]) = frame
    BY <2>1 DEF CallbackBegins, BrokerTypeOK, Last
  <2>3. frame.callbacks \in Seq(Ids) /\ frame.callbacks # << >>
    BY <2>1, <2>2, FrameMessages DEF Frames, CallbackBegins
  <2>4. 1 \in 1 .. Len(frame.callbacks) /\ id = frame.callbacks[1]
    BY <2>2, <2>3
  <2>5. <<id, m>> \notin got
    BY <2>1, <2>2, <2>4 DEF PendingInv
  <2>6. m[1] = p
    BY <2>1, <2>2 DEF NestedInv
  <2>7. \A n \in Messages : <<id, n>> \in got /\ n[1] = m[1] /\ n[2] > m[2] => m \in within[n]
    BY <2>1, <2>2, <2>6 DEF OvertakenInv, OnlyOwed
  <2> QED
    BY <2>5, <2>7
<1>2. BrokerSpec => [][A]_brokerVars
  BY <1>1, BrokerInvariance, PTL DEF BrokerSpec
<1> QED
  BY <1>2 DEF OnceAndInOrder
=============================================================================
