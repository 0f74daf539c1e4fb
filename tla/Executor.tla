------------------------------- MODULE Executor -------------------------------
(***************************************************************************)
(* src/executor.cpp: one worker thread runs the tasks that other threads,  *)
(* and the tasks themselves, post.  What happens while mutex_ is held is   *)
(* one step; the notifications of the condition variable are sent after    *)
(* the mutex was released and are steps of their own, and the worker may   *)
(* also wake up without one.  A task that throws ends the process, and one *)
(* that calls stop makes the worker join itself, which throws into the     *)
(* task.  The executor is destroyed when no caller is in a call of it.     *)
(***************************************************************************)
EXTENDS Naturals, Sequences

CONSTANTS Callers,   \* the threads that call post and stop
          Tasks,
          NoTask,
          MaxPosts   \* bound: tasks put into the queue

ASSUME NoTaskAssumption == NoTask \notin Tasks
ASSUME MaxPostsAssumption == MaxPosts \in Nat

VARIABLES tasks, stopping,    \* tasks_, stopping_
          worker, task,       \* the worker: its step in run, and its local task
          pc,                 \* the callers' steps
          joined,             \* has the stop that set stopping_ returned?
          fate,               \* of the executor; "terminated": std::terminate ended the process
          misbehaved,         \* history: has a task thrown, or called the stop that came first?
          accepted, executed  \* histories: tasks queued, tasks that returned

life == <<fate, misbehaved>>
vars == <<tasks, stopping, worker, task, pc, joined, life, accepted, executed>>

TypeOK ==
    /\ tasks \in Seq(Tasks)
    /\ stopping \in BOOLEAN
    /\ worker \in {"test", "waiting", "running", "exited"}
    /\ task \in IF worker = "running" THEN Tasks ELSE {NoTask}
    /\ pc \in [Callers -> {"idle", "notify_one", "notify_all", "join"}]
    /\ joined \in BOOLEAN
    /\ fate \in {"alive", "destroyed", "terminated"} /\ misbehaved \in BOOLEAN
    /\ accepted \in Seq(Tasks) /\ executed \in Seq(Tasks)

\* The constructor, with the worker about to lock mutex_ in run.
Init ==
    /\ tasks = << >>
    /\ stopping = FALSE
    /\ worker = "test" /\ task = NoTask
    /\ pc = [c \in Callers |-> "idle"]
    /\ joined = FALSE
    /\ fate = "alive" /\ misbehaved = FALSE
    /\ accepted = << >> /\ executed = << >>

-----------------------------------------------------------------------------
(* post *)

\* The critical section of post, for a caller or for the running task.
Enqueue(t) ==
    /\ ~stopping
    /\ Len(accepted) < MaxPosts
    /\ tasks' = Append(tasks, t)
    /\ accepted' = Append(accepted, t)

\* Mutant: post does not notify.
PostForgetsToNotify(c, t) ==
    /\ pc[c] = "idle"
    /\ Enqueue(t)
    /\ UNCHANGED <<stopping, worker, task, pc, joined, executed, life>>

Post(c, t) ==
    /\ pc[c] = "idle"
    /\ Enqueue(t)
    /\ pc' = [pc EXCEPT ![c] = "notify_one"]
    /\ UNCHANGED <<stopping, worker, task, joined, executed, life>>

PostRefused(c) ==
    /\ pc[c] = "idle"
    /\ stopping
    /\ UNCHANGED vars

WakeUp == worker' = IF worker = "waiting" THEN "test" ELSE worker

PostNotify(c) ==
    /\ pc[c] = "notify_one"
    /\ WakeUp
    /\ pc' = [pc EXCEPT ![c] = "idle"]
    /\ UNCHANGED <<tasks, stopping, task, joined, accepted, executed, life>>

\* A task posts: nobody waits, so that the notification is lost without harm.
TaskPosts(t) ==
    /\ worker = "running"
    /\ Enqueue(t)
    /\ UNCHANGED <<stopping, worker, task, pc, joined, executed, life>>

\* An exception leaves the task, and with it run and the thread.
TaskThrows ==
    /\ worker = "running"
    /\ fate' = "terminated" /\ misbehaved' = TRUE
    /\ UNCHANGED <<tasks, stopping, worker, task, pc, joined, accepted, executed>>

-----------------------------------------------------------------------------
(* stop *)

Stop(c) ==
    /\ pc[c] = "idle"
    /\ ~stopping
    /\ stopping' = TRUE
    /\ pc' = [pc EXCEPT ![c] = "notify_all"]
    /\ UNCHANGED <<tasks, worker, task, joined, accepted, executed, life>>

\* Another stop came first: this one returns at once, without waiting.
StopAgain(c) ==
    /\ pc[c] = "idle"
    /\ stopping
    /\ UNCHANGED vars

\* Mutant: stop does not wake the worker.
StopForgetsToNotify(c) ==
    /\ pc[c] = "notify_all"
    /\ pc' = [pc EXCEPT ![c] = "join"]
    /\ UNCHANGED <<tasks, stopping, worker, task, joined, accepted, executed, life>>

StopNotify(c) ==
    /\ pc[c] = "notify_all"
    /\ WakeUp
    /\ pc' = [pc EXCEPT ![c] = "join"]
    /\ UNCHANGED <<tasks, stopping, task, joined, accepted, executed, life>>

StopJoin(c) ==
    /\ pc[c] = "join"
    /\ worker = "exited"
    /\ pc' = [pc EXCEPT ![c] = "idle"]
    /\ joined' = TRUE
    /\ UNCHANGED <<tasks, stopping, worker, task, accepted, executed, life>>

\* A task calls stop first: the join of the worker by itself throws, and the
\* thread stays joinable.  The task handles the exception, or the process ends.
\* (A task that calls stop when somebody else has changes nothing.)
TaskStops ==
    /\ worker = "running"
    /\ ~stopping
    /\ stopping' = TRUE
    /\ fate' \in {"alive", "terminated"} /\ misbehaved' = TRUE
    /\ UNCHANGED <<tasks, worker, task, pc, joined, accepted, executed>>

\* Nobody has joined worker_.
Joinable == ~joined

\* The end of the destructor, whose stop has returned: worker_ is destroyed, and
\* a thread that is still joinable then ends the process.
Destroy ==
    /\ stopping
    /\ \A c \in Callers : pc[c] = "idle"
    /\ fate' = IF Joinable THEN "terminated" ELSE "destroyed"
    /\ UNCHANGED <<tasks, stopping, worker, task, pc, joined, misbehaved, accepted, executed>>

-----------------------------------------------------------------------------
(* run *)

\* The predicate of cv_.wait is false: release mutex_ and block, in one step.
RunWait ==
    /\ worker = "test"
    /\ ~stopping /\ tasks = << >>
    /\ worker' = "waiting"
    /\ UNCHANGED <<tasks, stopping, task, pc, joined, accepted, executed, life>>

SpuriousWakeUp ==
    /\ worker = "waiting"
    /\ worker' = "test"
    /\ UNCHANGED <<tasks, stopping, task, pc, joined, accepted, executed, life>>

\* Mutant: the worker leaves as soon as it is told to stop.
RunReturnAtOnce ==
    /\ worker = "test"
    /\ stopping
    /\ worker' = "exited"
    /\ UNCHANGED <<tasks, stopping, task, pc, joined, accepted, executed, life>>

RunReturn ==
    /\ worker = "test"
    /\ stopping /\ tasks = << >>
    /\ worker' = "exited"
    /\ UNCHANGED <<tasks, stopping, task, pc, joined, accepted, executed, life>>

\* Mutant: the newest task is taken first.
RunTakeLast ==
    /\ worker = "test"
    /\ tasks # << >>
    /\ task' = tasks[Len(tasks)]
    /\ tasks' = SubSeq(tasks, 1, Len(tasks) - 1)
    /\ worker' = "running"
    /\ UNCHANGED <<stopping, pc, joined, accepted, executed, life>>

RunTake ==
    /\ worker = "test"
    /\ tasks # << >>
    /\ task' = Head(tasks)
    /\ tasks' = Tail(tasks)
    /\ worker' = "running"
    /\ UNCHANGED <<stopping, pc, joined, accepted, executed, life>>

\* The local of the loop's body dies with the iteration.
RunTask ==
    /\ worker = "running"
    /\ worker' = "test"
    /\ task' = NoTask
    /\ executed' = Append(executed, task)
    /\ UNCHANGED <<tasks, stopping, pc, joined, accepted, life>>

-----------------------------------------------------------------------------
Alive == fate = "alive"

Call(c) ==
    /\ Alive
    /\ \/ \E t \in Tasks : Post(c, t)
       \/ PostRefused(c) \/ Stop(c) \/ StopAgain(c)

Return(c) == Alive /\ (PostNotify(c) \/ StopNotify(c) \/ StopJoin(c))

Run == Alive /\ (RunWait \/ RunReturn \/ RunTake \/ RunTask)

Task == Alive /\ (TaskThrows \/ TaskStops \/ \E t \in Tasks : TaskPosts(t))

\* The executor or the process is gone.
Ended == ~Alive /\ UNCHANGED vars

Next ==
    \/ \E c \in Callers : Call(c) \/ Return(c)
    \/ Run \/ Task
    \/ Alive /\ (SpuriousWakeUp \/ Destroy)
    \/ Ended

Spec == Init /\ [][Next]_vars

\* Calls that were begun go on, and so does the worker: its tasks return.
\* Nobody has to call, and a wake-up without notification need not come.
FairSpec == Spec /\ WF_vars(Run) /\ \A c \in Callers : WF_vars(Return(c))

-----------------------------------------------------------------------------
(* Properties *)

\* The worker never sleeps through a task or a stop: while it waits for nothing
\* any more, somebody is about to notify it.
NoLostWakeUp ==
    worker = "waiting" /\ (stopping \/ tasks # << >>) =>
        \E c \in Callers : pc[c] \in {"notify_one", "notify_all"}

\* When the stop that came first has returned, every accepted task has run and
\* nothing is running (tests/test_executor.cpp posts, stops and then counts).  A
\* stop that came second promises nothing, but the executor is never destroyed
\* before the first has returned, and the process is ended by it only if a task
\* threw or stopped its own executor.
StopDrains ==
    /\ joined => worker = "exited" /\ executed = accepted
    /\ fate = "destroyed" => joined
    /\ fate = "terminated" => misbehaved

\* Tasks run in the order their posts were accepted, each once: the executor is
\* a queue (MaxPosts stands for a bound it does not have).
Fifo == INSTANCE BoundedFifo WITH
            Values <- Tasks, Bound <- MaxPosts, inp <- accepted, out <- executed
FifoSpec == Fifo!Spec

\* Every accepted task runs, unless the process ends.
EveryTaskRuns ==
    \A k \in 1 .. MaxPosts : Len(accepted) >= k ~> Len(executed) >= k \/ fate = "terminated"

\* A stop that has begun returns, unless it waits for itself or a task throws.
StopReturns == stopping ~> joined \/ misbehaved
=============================================================================
