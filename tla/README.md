# LwIPC: a verification development

This directory holds TLA+ models of LwIPC, a C++ library for communication
between the threads and the processes of one machine, the configurations under
which TLC checks them, and proofs about them that TLAPS checks. Paths of source
files are relative to the repository (`src/...`, `include/lwipc/...`).

Contents

1. The system
2. How the models relate to the code
3. The modules, one by one
4. The runs: bounds, fairness, what they show
5. What is proved, and how
6. What the code does otherwise than its comments and tests say
7. What is not modelled, and the plan

## 1. The system

| Part | State it keeps | Operations | Talks to | What makes it correct |
|---|---|---|---|---|
| `SpscRingBuffer` (`ring_buffer_spsc.hpp`) | `buffer_`, `head_`, `tail_` | `try_push`, `try_pop`, `empty` | one producer thread, one consumer thread | a queue; the threads never touch one cell at a time |
| `MpmcRingBuffer` (`ring_buffer_mpmc.hpp`) | cells with a sequence number, `enqueue_pos_`, `dequeue_pos_` | `try_push`, `try_pop`, `empty`, `size`, move | any number of threads | a queue; one owner per cell; "full" and "empty" are true when said |
| `AtomicRWLock` (`atomic_rw_lock.hpp`) | one word: writer bit and reader count | `try_lock_read`, `try_lock_write`, unlocks, two guards | any number of threads | writers exclude everybody; nobody is refused without a reason |
| `ShmChannel` (`shm_channel.cpp`) | in shared memory: control block, slots with a state; per handle: `local_sequence_`, mapping | `create`, `open`, `publish`, `consume`, `empty`, `destroy` | one publishing and one consuming process; `ShmSegment` | a queue across processes; states and indices agree; what a dead process leaves behind |
| `ShmTransport` (channel manager, `shm_channel.cpp`) | map from name to channel, mutex | `createPublisher`, `createSubscriber`, `listChannels`, `destroyChannel` | `ShmChannel` | one name, one channel; a handle it gave out stays usable |
| `ShmSegment` (`shm_segment.cpp`) | descriptor, mapping, name | `create`, `open`, `close`, moves | the operating system | a name leads to the segment that is in use |
| `Executor` (`executor.cpp`) | task queue, `stopping_`, worker thread, mutex and condition variable | `post`, `stop`, `run`, destructor | callers' threads, tasks | no wake-up lost; `stop` drains the queue; the executor is not destroyed before |
| `Broker`, `Publisher`, `Subscriber`, `Channel`, `Node` (`broker.cpp`, `core.hpp`) | table of callbacks by topic, `next_id_`, mutex | `subscribe`, `unsubscribe`, `publish` | callbacks of the user, called outside the mutex | everyone subscribed is called, once, in order, and nobody else |
| `Signal`, `SignalManager` (`signal_slot.hpp`) | vector of slots with a connected flag | `connect`, `disconnect`, `disconnectAll`, `emit` | slots of the user, called under the mutex | connected slots are called, others not; no deadlock |
| `BagRecorder`, `BagPlayer` (`bag_recorder.cpp`) | file, topic list, flags, thread of playback | `start`, `record`, `stop`; `open`, `play`, `pause`, `resume`, `stop`, `close` | files, callbacks of the user | what was recorded is played, in order; calls return |
| `ServiceDiscovery` (`discovery/`) | table of services, socket, listener thread | `Start`, `Stop`, `Register`, `Unregister`, `Find` | datagrams between nodes; callback of the user, under the mutex | a service is reported once for each time it appears; nothing happens after `Stop` |
| `Node`, `Transmitter`, `Receiver` (`node/`) | channels of a node | `Init`, `Start`, `Stop`, `Transmit`, `SetCallback` | `ServiceDiscovery`, a `ShmChannel` that does not exist | see section 7 |
| `SystemMonitor` (`system_monitor.cpp`) | nodes, statistics of channels and topics, latency samples, configuration, callback | `configure`, `registerNode`, `unregisterNode`, `update...`, `record...`, `checkHealth`, `getTimeoutNodes`, `getSystemStats` | `system_clock`; callback of the user, under the mutex | a silent node is reported, a live one is not; statistics are those of what was recorded; it answers again after an alert |
| `HeartbeatMonitor` (`heartbeat.cpp`) | time at which each peer was last seen | `register_peer`, `beat`, `expired` | `steady_clock` | who is expired is silent |
| `Metrics`, `MemoryPool` | four counters; a free list | one step each, atomic or under a mutex | users | a slot has one owner |
| `SensorManager`, `StaticTopology`, `UdpTransport`, `ShmTransport` of `transport.cpp`, `proto_codec` | see section 7 | | | |

The behaviours that make the library hard are those of its shared state: rings
whose two ends move at the same time, slots whose state and whose index are
written one after the other, copies of tables used after the mutex was
released, notifications sent after a condition became true, and processes that
die while they hold a slot. `PROJECT.json` lists these hazards one by one, with
the line where each bites and the properties that would notice it.

## 2. How the models relate to the code

* **Steps.** A step is one access to state that others can see, or one critical
  section of a mutex. Local computation between two such accesses belongs to
  the earlier one or the later one. Where the code checks and then acts with
  something in between (a `load` before a `compare_exchange`, a copy made
  before an `unlock`), the model has two steps and lets everybody else in
  between them.
* **Memory.** Steps interleave in one order that all threads see. The models do
  not reorder the relaxed, acquire and release accesses of one thread; what
  they show is that the algorithms are right when their accesses take effect in
  program order. Whether the chosen memory orders are strong enough to make
  them look that way is outside these models.
* **Data.** Values, payloads and tasks are model values from a small set: none of
  the code looks into them. Tickets and sequence numbers are numbers, because
  the code computes with them; they do not wrap at 2^64.
* **Histories.** `pushed`, `popped`, `published`, `taken`, `accepted`, `owed` and
  their like are not in the code. They record what has happened so that the
  properties can speak of it; no guard reads them except to apply a bound.
* **Bounds.** Constants named `Max...` bound histories and counters so that the
  state space is finite. They appear as guards of the actions that would pass
  them and nowhere else.
* **Broken variants.** Operators with a comment `Mutant:` are deliberately wrong
  versions of the definition that follows them. No specification uses them.
  `PROJECT.json` pairs each property with one of them: putting it in the place
  of the right definition makes TLC report the property violated, which shows
  that the property depends on the code being as it is.

`PROJECT.json` maps every definition to the lines it translates.

## 3. The modules, one by one

**`BoundedFifo`** is the abstract specification of every queue of the library:
two histories, `inp` and `out`; `Push` extends `inp` while fewer than `Bound`
values are inside; `Pop` extends `out` with the next value of `inp`. The three
rings and the executor are shown to implement it.

**`RingArithmetic`** holds lemmas about `%` used by all proofs about rings: a
ticket modulo the capacity is an index, adding the capacity comes back to the
same index, two tickets of one index are equal or a lap apart.

**`SpscRingBuffer`** splits `try_push` into the check (load of `tail_`), the
write of the cell and the store to `head_`, `try_pop` likewise, and `empty()`
into its two loads. The variable `notEmpty` remembers that the consumer was
told that something is there.

**`MpmcRingBuffer`** gives each thread a step `pc`, the local `pos` and the
value in hand, and splits both operations at every access: the load of the
position, the load of the cell's sequence number, the compare-and-swap (which
may fail and re-load, also spuriously), the access to the data, the store of
the sequence number. `empty()` and `size()` are a load of one position and
then of the other. `log` and `got` record what was pushed and popped under
each ticket; `FifoSpec` compares the maximal finished prefixes.

**`AtomicRWLock`** models the word and any number of guards, each of which tries
once in its constructor and releases in its destructor. The loop of
`try_lock_read` (load, test of the writer bit, compare-and-swap that re-loads
on failure) is kept step by step.

**`ShmChannel`** models a channel after `initializeCreator`: one process
publishes, another consumes. `publish` is split into the test of the indices,
the compare-and-swap of the slot's state, the header, the payload, the store of
`READY`, the store to `head`, and the count; `consume` into the test, the state,
the copy of the header, the callback (which reads the payload in place), the
store of `READING`, the store to `tail`, the store of `EMPTY`, and the count.
Either process may die between two steps. A dead consumer is followed by a new
one, which starts from what the shared memory says; a dead publisher is not
replaced (a second publisher would call `create`, which resets the ring: that is
`ShmLifecycle`). A callback may throw when it has seen the message, which leaves `consume`
before anything was written. `delivered` is the message the last callback saw, thrown or not, and
`again` remembers that the next one sees it once more.

**`SharedPublisher`** is the case `ShmChannel` leaves out: `createPublisher` gives every caller
of a process the same handle, and `publish` takes no lock, so that several threads
are inside at once. Each has the `head` it loaded; `local_sequence_`, which is
not atomic, is loaded and stored in two steps, and read once more. A slot's header and
payload carry the call they come from, so that the model tells a mixed message from a
whole one. Nobody dies, payloads fit, callbacks return.

**`ShmLifecycle`** models the handles (`ShmChannel` objects) to one channel name:
`create`, `open` and the destructors, one step for each access to the name or
to the segment. It keeps what `shm_open`, `ftruncate`, `mmap`, `munmap` and
`shm_unlink` do: `create` takes what the name leads to, a segment outlives its
name while it is mapped and starts from zero bytes. Every call may fail. Closing
unlinks the name whoever made it; a creator's destruction does so twice. The
ring is reduced to the number of unread messages.

**`ShmTransport`** extends it with the manager of each process: the map under its
mutex, `shared_ptr` counts (a handle is closed by its last user or by
`destroyChannel`), and processes that die without running destructors. Handle
objects are used once: a model with three of them has three creations or
openings.

**`Executor`** models the mutex sections of `post`, `stop` and `run`, with the
notifications as separate steps, and a worker that may also wake up without
one. Tasks may post, throw (`TaskThrows`: nobody catches it, and the process
ends) or call `stop` (`TaskStops`: the worker joins itself, which throws; the
task handles that or the process ends, and in either case nobody joins the
thread any more). A second `stop` returns at once, as in the code. `Destroy` is the end of the
destructor, whose own `stop` has returned: if that was a second one, and the thread is still
joinable, the process ends. `fate` tells how it ended; `misbehaved` remembers that a task was to blame.

**`SignalSlot`** models several signals, each with its mutex and its vector of
slots. `connect` takes its id and then waits for the mutex; `disconnect` leaves
the entry in the vector. A `Connection` is a copy in the hands of a caller: when its own
`disconnect` was called on that copy, the signal ignores it and returns at once (`DisconnectIgnored`).
`emit` holds the mutex while it calls one slot after
the other. A slot may throw, and may operate on other signals, as `Nests` says:
the calls of a thread form a stack. An emit owes a call to the slots that were
connected before it began and that nobody has begun to disconnect with a valid `Connection`.

**`BagRecorder`** models the recorder and the file: what was written since the
path was opened, and how much of it has left the stream's buffer. The disk may
refuse a write, which the code does not notice, and the process may die.
**`BagPlayer`** extends it with a player of that file, which may be opened while it
is written. `play` is split where it releases the mutex: while a message waits
for its time and while the callback runs. It does not look whether another `play` is
under way: several threads (`Players`) may read the file by turns. Paused, it sleeps and looks again,
which changes nothing and is no step. `open` calls `close` with the mutex held;
locking a `std::mutex` twice is undefined, and the model has both outcomes: the
thread waits for itself (`OpenDeadlocks`), or locking did nothing and `open` goes
on (`Open`). The properties are about everything behind the second one.

**`Broker`** models the table of `subscribe` and `unsubscribe` exactly as the code
keeps it (an entry disappears with its last subscription) and `publish` as the
copy made under the mutex followed by calls of the copied callbacks. A
callback may publish again: the calls of a thread form a stack. It may throw,
which ends the publish that called it. `owed` records
who was subscribed when a message's copy was made, `got` who was called.

**`ServiceDiscovery`** models several nodes that announce services to each other. In
each node users call `RegisterService` (which holds the mutex while it sends: two
steps), `UnregisterService`, `Start` and `Stop`; a listener thread tests
`stop_flag_`, waits in `select`, receives, and enters what it received under the
mutex. A datagram that was sent may arrive at any socket of the group at any later
time, any number of times, or never; a socket keeps `MaxInbox` of them. A process may
die, and another one start under its name. A table is reduced to the number of entries
for a channel and a node, which is all that `ProcessAnnouncement` tells apart.
`Stop` is split at the `join`. `found` counts the calls of the callback, `forgot` those of
`UnregisterService` that removed something. As in the code, a service registered
before `Start` is not announced, and nobody is told when one goes.

A callback that finds something new may call back into the node: then the
listener waits for the mutex it holds (`stuck`), and so does everybody who needs it.

**`Clocks`** holds what the two monitors run in: threads, `steady_clock`, which
only goes forward, and `system_clock`, which may also be set.
**`HeartbeatMonitor`** splits a `beat` where its default argument is evaluated, before
the mutex is taken: two threads that handle heartbeats of one peer may store their
times in another order. `register_peer` has the same body and is the same action.
`alone` and `called` are histories for the property: the time of the last beat that met no other
of its peer, and of the last one that was begun.
**`SystemMonitor`** has one action for each operation, which holds the mutex from beginning
to end, with the exception of `updateNodeResources` and `recordMessageSent`: when a threshold is passed
they call the alert callback under the mutex, which returns, throws (and ends the
operation) or calls the monitor, which waits for itself. Elapsed times are unsigned, and computed
modulo `Modulus`. `heard` and `shift` are histories for the property: when each node was last heard
of by `steady_clock`, and by how much `system_clock` was set forward since. Means are kept as sums. `setAlertCallback` takes no mutex: the model has it
called only while nobody else is inside, the only way in which it is defined.
**`Supervisor`** composes them into one process whose threads use both monitors.

Modules named `..._proofs` hold the theorems about the modules they extend. Where one holds
those of two components, the definitions of the second have names of their own
(`SharedSpec`, `BrokerSpec`, `BagSpec`, `TransportSpec`, `SupervisorSpec`).
`MCMpmcRingBuffer` adds the symmetry sets TLC uses; `MCShmTransport` and
`MCSignalSlot` give values to constants that a configuration cannot write.

## 4. The runs: bounds, fairness, what they show

| Run | Instance | What TLC shows |
|---|---|---|
| `spsc` | 3 cells, 2 values, 5 pushes | no cell is written and read at once (`NoDataRace`); after `empty()` said false `try_pop` succeeds (`NotEmptyStays`); a queue of `Capacity - 1` places (`FifoSpec`) |
| `mpmc` | 2 cells, 3 threads, 2 values, 4 tickets | one holder per cell (`CellExclusive`); "full" and "empty" have a reason (`FailureHasReason`); `empty()`/`size()` do not report less than there is (`ObserverNeverUnderestimates`); a queue of `Capacity` places (`FifoSpec`) |
| `rwlock` | 3 guards, writer bit 4 | exclusion (`Exclusion`) |
| `shm_channel` | 3 slots, 2 payloads, 4 messages, 2 drops, 1 dead consumer, a publisher that may die | slot states agree with the indices (`SlotsMatchIndices`); a callback sees the message after the one the callback before saw, or the same once more, and this exactly when that callback threw or its consumer died before it marked the slot (`NeverSkips`); without a death a message is dropped only when the ring is full (`DropHasReason`); a queue of `buffer_size - 1` places (`FifoSpec`); what was published is consumed unless a consumer dies (`EventuallyConsumed`) |
| `executor` | 2 callers, 2 tasks, 4 posts | a worker that sleeps with work to do is about to be notified (`NoLostWakeUp`); when the first `stop` has returned all accepted tasks have run, the executor is not destroyed before, and it ends the process only if a task threw or stopped it (`StopDrains`); tasks run in order (`FifoSpec`); every task runs unless the process ends (`EveryTaskRuns`); `stop` returns unless a task threw or called it (`StopReturns`) |
| `broker` | 2 topics, 2 publishing threads, 2 subscriptions, 2 messages each, nesting 2 | nobody is called who was not subscribed when `publish` read the table (`OnlyOwed`); once and in order (`OnceAndInOrder`); everybody is called unless a callback throws (`EveryoneServed`) |
| `shm_lifecycle` | 2 processes with 2 and 1 handles, 3 segments, 1 unread message, 2 users of a handle, 1 death | a creator that met nobody else's channel keeps its own initialized, and all are on the segment of the name until a handle is closed or a create or open fails (`StillFound`); unread messages leave a channel by being consumed, by a `create` that found somebody else's channel, or with a segment that has lost name and mappings after a close or a failure, and in no other way (`LossHasReason`); a channel that was opened half-made becomes ready (`OpenedGetsReady`) |
| `signal_slot` | 2 signals, 2 threads, 2 slots of each signal, 3 calls of each thread | a slot does not run once a `disconnect` with a valid `Connection`, or a `disconnectAll`, has returned (`NothingAfterDisconnect`); an emit calls all slots that it owes, once (`EveryConnectedCalled`); calls return (`CallsReturn`) |
| `bag` | 1 topic, 2 messages, 2 recordings, 2 opens (3 of both together), 2 plays by 2 threads | a header that counts messages counts those in the file (`HeaderTellsTruth`); what is played is what was recorded, nothing twice; in order unless two plays share the file, and without gaps unless paused, stopped or one of two plays ended (`PlayedIsRecorded`); at most one callback of each thread begins after `stop`, `pause` or `close` has returned (`QuietAfterStop`); `play` returns (`PlayReturns`) |
| `service_discovery` | 2 nodes, 1 channel, 1 datagram in each socket, 2 registrations, 1 removal, 3 starts, 1 death | a service of another node is in the table at most once and was reported once for each time it appeared (`FoundOnce`); no listener runs once `Stop` has returned (`QuietAfterStop`); an announcement that has reached the socket becomes known unless the node stops, and `Stop` returns, unless a callback has called back (`ListenerServes`) |
| `shared_handle` | 3 slots, 2 threads with 3 calls each | a message whose call returned true is delivered or lies whole in one slot (`AcceptedIsKept`); a callback sees header and payload of one call, and each call once (`WholeAndOnce`) |
| `monitors` | 2 threads, 3 calls, 1 peer, 1 node, 1 channel, 1 topic, 3 ms, the clock set once | who is expired has not beaten within the timeout, and who is not has (`ExpiredIsSilent`); a node is reported exactly while it has been silent for longer than the timeout as `system_clock` shows it, which counts the time it was set forward by; also while the clock stands before the node's last heartbeat, and a node that was never heard of (`TimeoutIsSilence`); the statistics are those of what was recorded (`StatisticsTellTruth`); after an alert the monitor answers again unless the callback called it (`MonitorAnswers`) |

The type invariants are theorems (section 5) and not repeated in the runs, and so are
`StatisticsAgree` of `ShmChannel` (consumers never count a message that was not published),
`RefusedForAReason` of `AtomicRWLock` (a guard is refused only because of somebody it must not
meet), `HeldIsOpen` of `ShmTransport` and `SomebodyGoesOn` of `SignalSlot`: theorems, in no run.

*Why the bounds are enough to be interesting.* The rings wrap: 5 pushes through
3 cells, 4 tickets through 2 cells, 4 messages through 3 slots use some cell a
second time, the smallest case in which a stale index or sequence number can
be confused with a fresh one; both "full" and "empty" occur on the way. Three
threads let one thread sleep inside an operation while two others complete
whole laps. In `shm_channel` one death is enough to leave a slot in each of its
states; two drops let a full ring be met twice. In `executor` two callers can
stop and post at the same time, and a task can post after that. In `broker`
two subscriptions in one topic show order and removal from the middle of a
publish, and depth two shows a message overtaking the one whose callback sent
it. In `shm_lifecycle` three handles in two processes let one create, one open
and one close meet in every order, with a second creator after `destroyChannel`;
three segments are as many as the handles can map. In `signal_slot` three calls
of each thread are a connect, an emit and a disconnect against the same. In
`bag` two recordings, opens and plays show what the second finds of the first, and two
plays may be under way at once; `MaxSessions` leaves out two recordings with two opens,
which would only combine the two cases.
In `service_discovery` two registrations let one service be announced twice, or two
nodes announce; one removal lets a late announcement bring back what was removed;
three starts are a start of each node and one after a `Stop` or a death; datagrams
repeat without bound. In `shared_handle` two calls let one thread publish while the other sleeps
with an old `head`, and the third finds out what that did. In `monitors` three calls are two
heartbeats that overtake each other and one more, or a message received, one sent, and an
alert; both timeouts lie within the three milliseconds, so that a node is heard of, becomes late,
and is heard of again.

*Stopping.* `shm_lifecycle`, `signal_slot`, `bag`, `service_discovery`, `shared_handle` and `monitors` do not check for deadlock:
handles, calls, time and recordings are used up, and the system then rests. Calls that
hang are the affair of the liveness properties.

*Fairness.* Safety runs assume none. `shm_channel`: a living consumer keeps
calling `consume` (weak fairness of its next step) and its callback does not
throw for ever (strong fairness of the callback); nothing is assumed of the
publisher, because a message counts as published only when the store to `head`
has happened. `executor`: the worker thread is scheduled, tasks return, and a
call of `post` or `stop` that has begun goes on; nobody is assumed to call
`post` or `stop`. `broker`: a publish that has begun goes on, which includes
that callbacks return or throw. `shm_lifecycle`: a create, open or destructor
that has begun goes on. `signal_slot`: a call that has begun goes on; slots make
a bounded number of calls, so that a mutex that is asked for is free again.
`bag`: the threads that play go on; nobody is assumed to resume or to stop.
`service_discovery`: the listener, a registration that holds the mutex and a `Stop`
that waits are scheduled; the network is assumed to deliver nothing, and nobody to
call anything. `monitors`: an alert callback that has begun returns, throws or calls back.

## 5. What is proved, and how

Every safety property and every refinement that a run checks is also a theorem, and so
is the type invariant of every specification. The theorems hold for every value of the
constants: any capacity, any number of threads, processes, topics, messages and steps. All of
them follow one pattern: an inductive invariant is shown to hold initially and to be kept by every
action (one step of the proof per action), and the property follows from it.

**Assumed** are, besides the type of each bound and that a blank value is none of the real ones:
the single-producer ring has at least two cells, as its `static_assert` demands, the
multi-producer ring too (`ManyCells`; with one cell, which its constructor accepts, the property fails, section 6),
a channel at least one slot (one is always full); there are fewer guards than
the writer bit counts; each handle belongs to one process (`Owner`); the slots of a
signal operate on later signals only (`NestsAssumption`, needed for `SomebodyGoesOn` alone);
signals and players are finitely many; `system_clock` is far from both ends of
its unsigned type, by more than a timeout (`MonitorAssumption`, the width is `Modulus`).

**The arguments**

* **`SpscRingBuffer_proofs`.** The indices are the numbers of pushed and popped
  values modulo the capacity, at most `Capacity - 1` apart, and the cells between
  them hold the values in between. `NoDataRace` follows because two tickets less
  than a lap apart have different cells.
* **`MpmcRingBuffer_proofs`.** The invariant says for each
  cell which ticket and which phase its sequence number stands for: free for
  ticket `p` (`p`), filled by `p` (`p + 1`), or in the hands of the one thread that
  took `p`; tickets in hand are distinct and lie between the positions; what a
  thread loaded earlier is never ahead of what is there now.
* **`CompareAndSwap_proofs`**, `AtomicRWLock`: the word is the number of reading guards, or
  the writer bit alone. `SharedPublisher`: the indices say nothing (`head` may be stored from an old value), so
  the invariant speaks of slot states alone. A slot that is `WRITING` belongs to one thread (`Claims`);
  one that is `READY` holds header and payload of one call that is over, lies in no second
  slot, and was seen exactly if the consumer stands behind its callback (`Contents`); the
  consumer's slot does not change under it (`Reading`); so a message
  that was accepted is in a slot until it is delivered (`Fates`).
* **`ShmChannel_proofs`**, the ring. `Indices`: `head` and `tail` are the numbers of messages
  published and taken modulo the size of the ring. `PubInv` and `ConInv`: what
  each process has done of the current message. `Contents`: the messages in
  between lie in their slots, complete. `FreeSlots`: unless a consumer has
  died, every slot is `EMPTY`, or in use, or being written, or about to be
  released; this is why the compare-and-swap of `publish` cannot fail then. `AgainInv`: while a
  message is to be seen once more, it is still the one at `tail`; so a callback sees that one, and
  otherwise the next (`NothingSkipped`).
* **`ShmChannel_proofs`**, `ShmLifecycle` and `ShmTransport`. Until somebody closes a handle or
  a call fails, every mapping is of the segment the name leads to (`PlaceInv`). A segment without a name or a
  mapping is zero bytes when it is made again (`ZeroInv`). A segment that
  no `create` found has one creator, and is uninitialized and empty while that one makes it (`OwnInv`): so
  what a `create` throws away was somebody else's. A segment goes when its name and its last mapping
  are gone; as long as nobody has closed a handle or failed, the name is there, and a death
  takes mappings only (`GoingLosesNothing`). What a manager or a user holds is open (`HeldIsOpen`).
* **`Dispatch_proofs`**, `Executor`. `Accounted`: what was accepted is what was executed, then
  the task that runs, then the queue. The wake-up property is inductive
  together with it. Unless a task misbehaved, a `stop` that set `stopping_` and has not
  returned is still in the step of some caller, so that the destructor finds either that caller inside
  or the thread joined.
* **`Dispatch_proofs`**, `Broker`. A vector of the table holds live subscriptions of its topic, each
  once (`TableInv`). What a call of `publish` has copied and not called yet is owed and not got
  (`PendingInv`). The nested calls of a thread publish its messages in their order (`NestedInv`), and what
  the thread published since an open call began was published from within it (`OvertakenInv`):
  the only way in which a later message comes first.
* **`Callbacks_proofs`**, `SignalSlot`. The calls of a thread are a stack of emits whose slots run,
  with one call on top (`Stacked`), and no two emits of one signal run (`OneEmit`),
  so that the mutex is held exactly while one does. The id of a connect that waits
  for the mutex is its own (`Fresh`, `OneConnect`): otherwise a late `push_back` could
  bring back an id that was disconnected. Then a valid slot belongs to a connection
  that nobody took back (`ValidIsConnected`), and since `disconnect` needs the mutex,
  what runs is valid until it has run. `EmitInv`, on top of this: what a running emit owes is
  valid and ahead of its index, or called; what it called is behind, each once. `Climbing`:
  the calls of a thread are about later and later signals. Of the threads that have calls, take one
  whose innermost signal is latest: if it waits, the thread that holds this mutex has an innermost call about a
  later signal still. So `SomebodyGoesOn`.
* **`Callbacks_proofs`**, `BagPlayer`. `RecorderInv`: the messages of the file ascend, and the
  header counts them. `PlayerInv`: a play holds a message exactly while it waits or
  calls; only one plays unless `shared` says otherwise; after `stop` the callbacks
  still to come are those of plays that have decided already. `PlayedInv`, while
  a file without superfluous topics is open: delivered and held messages have been read, and are
  different; a play that is alone holds the newest; without an interruption all that
  was read is delivered or held.
* **`Presence_proofs`**, `ServiceDiscovery`. What a socket or a listener holds was sent
  (`OnlyWhatWasSent`). A node
  announces what it has in its table, where it stays until it is removed or the
  process dies; so each report of a node's own service is paid for by a removal or a
  death (`OwnAccounted`). The listener of a
  node that neither runs nor stops is gone because `Stop` waits for it.
* **`Presence_proofs`**, `Supervisor`. What is stored of a peer lies between its last call that met no other
  and its last call (`BeatInv`). A node's time is as far behind `system_clock` as the node
  was heard of by `steady_clock`, but for what the clock was set by since (`HeardInv`); since the
  difference lies within what `MonitorAssumption` allows, the unsigned subtraction gives it, or, when it is
  negative, a number larger than any timeout. The tables are those of the recorded
  messages, and the total is the sum over them (`StatsInv`); alerts that wait to be raised tell what the tables
  hold, because their thread has the mutex (`AlertInv`). A sum over a finite set is a fold, and induction
  over sets is out of reach: what would be proved by it is proved of a least counterexample instead
  (`LeastNumber`, from the theorems on well-founded relations).

| Theorem | In | States |
|---|---|---|
| `TypeCorrect` | all eight but `RingArithmetic` | the type invariant of the first module it extends |
| `SharedTypeCorrect`, `TransportTypeCorrect`, `BrokerTypeCorrect`, `BagTypeCorrect`, `SupervisorTypeCorrect` | `CompareAndSwap_proofs`, `ShmChannel_proofs`, `Dispatch_proofs`, `Callbacks_proofs`, `Presence_proofs` | those of the second |
| `RaceFree`, `NotEmptyMeansPop`, `ImplementsFifo` | `SpscRingBuffer_proofs` | `NoDataRace`, `NotEmptyStays`, `FifoSpec` |
| `OneHolderPerCell`, `RefusalsAreHonest`, `ObserversAreHonest`, `ImplementsFifo` | `MpmcRingBuffer_proofs` | `CellExclusive`, `FailureHasReason`, `ObserverNeverUnderestimates`, `FifoSpec` |
| `MutualExclusion`, `RefusalsAreHonest` | `CompareAndSwap_proofs` | `Exclusion`, `RefusedForAReason` (in no run) |
| `NothingOverwritten`, `SeenWholeAndOnce` | `CompareAndSwap_proofs` | `AcceptedIsKept`, `WholeAndOnce` |
| `SlotStatesMatch`, `StatisticsNeverCross`, `NothingSkipped`, `SlotAtHeadIsFree`, `ImplementsFifo` | `ShmChannel_proofs` | `SlotsMatchIndices`, `StatisticsAgree` (in no run), `NeverSkips`, `DropHasReason`, `FifoSpec` |
| `ChannelStaysFound`, `LossesHaveReason`, `NothingHeldIsClosed` | `ShmChannel_proofs` | `StillFound`, `LossHasReason`, `HeldIsOpen` (in no run) |
| `WorkerIsNotified`, `StopWaitsForTasks`, `ImplementsFifo` | `Dispatch_proofs` | `NoLostWakeUp`, `StopDrains`, `FifoSpec` |
| `CalledIsOwed`, `DeliveredOnceInOrder` | `Dispatch_proofs` | `OnlyOwed`, `OnceAndInOrder` |
| `NothingRunsAfterDisconnect`, `EveryoneIsCalled`, `NobodyWaitsInACircle` | `Callbacks_proofs` | `NothingAfterDisconnect`, `EveryConnectedCalled`, `SomebodyGoesOn` (in no run) |
| `HeaderCountsTheFile`, `RecordedIsPlayed`, `StopQuietens` | `Callbacks_proofs` | `HeaderTellsTruth`, `PlayedIsRecorded`, `QuietAfterStop` of `BagPlayer` |
| `ReportedOnce`, `NoListenerAfterStop` | `Presence_proofs` | `FoundOnce`, `QuietAfterStop` of `ServiceDiscovery` |
| `ExpiredMeansSilent`, `TimeoutMeansSilence`, `StatisticsAreTrue` | `Presence_proofs` | `ExpiredIsSilent`, `TimeoutIsSilence`, `StatisticsTellTruth` |

Only model-checked are the liveness properties (`EventuallyConsumed`, `EveryTaskRuns`, `StopReturns`,
`EveryoneServed`, `OpenedGetsReady`, `CallsReturn`, `PlayReturns`, `ListenerServes`,
`MonitorAnswers`): they need fairness and `ENABLED`, which are out of the prover's reach. Safety facts
on which some of them rest are theorems: `NoLostWakeUp`, `SomebodyGoesOn`, `DropHasReason`.

## 6. What the code does otherwise than its comments and tests say

Shown by a run:

* `shared_handle`: a call of `publish` that returned true through a handle that another thread
  uses, too, may leave a message nobody will ever see, and a channel that refuses
  messages for ever although it is empty: `head` is stored from a value that is
  out of date (`shm_channel.cpp:171`). For example: A loads `head`; B publishes there, and the consumer takes it;
  A claims the same slot, which is free again, fills it and stores the value `head` already has, which is `tail`.
  `AcceptedIsKept` allows the message to lie there. Nothing worse happens: the state of the slot
  protects its contents.
* `mpmc`: the comment of `MpmcRingBuffer::try_push` says that a push into
  a full queue returns false. The constructor accepts a capacity of one, and
  then the sequence number stored by a push is the one the next push waits
  for: it overwrites the value and returns true. With `Capacity = 1` in
  `MpmcRingBuffer.cfg` TLC reports this push as a violation of `FifoSpec`.
* `broker`: `tests/test_broker.cpp` says that a destructed subscriber
  receives nothing more. `publish` calls the callbacks it has copied, also those
  whose `unsubscribe` has returned since: `EveryoneServed` says that it always does.
* `monitors`: `getSystemStats` adds the CPU figures of the nodes to the number of messages
  (`system_monitor.cpp:228`); `StatisticsTellTruth` speaks of the total while there are none.
* `monitors`: `test_health_check` (`tests/test_monitor.cpp:175-202`) lets 600 ms pass under a timeout of
  500 ms and expects `checkHealth` to name only the node that never sent a heartbeat, not the one
  whose heartbeat was 600 ms ago. The code names both, and `TimeoutIsSilence` says that it does.

Met while reading, not shown by a run (`PROJECT.json` quotes the lines of those it
lists as findings):

* `ShmChannel::create` "creates or opens" a channel (`shm_channel.hpp:73`), but resets
  a ring that exists. `LossHasReason` allows that, and says that no creator does it to
  the channel it made itself.
* `test_zero_copy_performance` (`tests/test_shm_channel.cpp:206`) waits for 10000
  messages of which the ring kept at most 1023.
* `BagRecorder::addTopic` is accepted while recording and raises the topic count
  that `stop` writes into a header followed by fewer topics.
  `PlayedIsRecorded` excludes such recordings.
* `BagPlayer` never loops: `play` clears `playing_` before it tests it
  (`bag_recorder.cpp:334`), whereas `bag_recorder.hpp:112` offers `loop`.
* `Connection::disconnect` changes the caller's copy only; the slot is still
  called (`tests/test_signal_slot.cpp:32`), and `Signal::disconnect` with that copy returns at
  once (`signal_slot.hpp:88`) and leaves it connected, too. Only a copy whose own `disconnect` was
  not called takes a slot back: `NothingAfterDisconnect` speaks of those.
* `BagPlayer::open` calls `close` while it holds the mutex that `close` locks
  (`bag_recorder.cpp:188`); `tests/test_bag.cpp:82` expects it to return true. In the
  run `bag` both outcomes of locking twice occur, and `PlayReturns` excludes the one in
  which the thread waits for itself.
* `ServiceDiscovery::OnServiceLost` keeps a callback that nothing calls
  (`service_discovery.cpp:84`), and services registered before `Start` are never
  announced.
* `p99_latency_us` and `bandwidth_mbps` of `SystemMonitor` are never computed; the samples
  "for P99" (`system_monitor.cpp:112`) are of all channels together and nobody reads them.
* `SystemMonitor::stop` ("stop monitoring", `system_monitor.hpp:196`) changes nothing that
  anything but `isRunning` reads: alerts go on.
* A pause that comes while `play` waits for a message's time loses that message
  (`bag_recorder.cpp:323`): `PlayedIsRecorded` allows the gap.

Limits of the properties. Some hazards are such that the code does go wrong; a property
that holds can only say what is left. So `DropHasReason` is about consumers that have not died,
`StillFound` about the time before the first close and about creators that meet no other,
`StopDrains` about the stop that came first, `StopReturns` about tasks that neither throw nor stop,
`PlayReturns` about an `open` that does not wait for itself, `ListenerServes` and `MonitorAnswers` about
callbacks that do not call back, `CallsReturn` about slots without cycles, `ExpiredIsSilent` about beats
of one peer that do not overlap (of those that do, either time may be kept). Nothing forbids that two
threads on one publishing handle give two messages one sequence number. The notes of the
hazards in `PROJECT.json` say so one by one.

## 7. What is not modelled, and the plan

Planned, in this order:

1. The safety facts that the other liveness properties rest on, as theorems: whoever sleeps or
   waits in `ServiceDiscovery`, `SystemMonitor` and `BagPlayer` waits for somebody who can go on,
   unless a callback has called back, as `SomebodyGoesOn` says of `SignalSlot`.
2. `MemoryPool` and `SensorManager`, for which there is room in no run so far.

Partly modelled:

* `ShmChannel`: observers in a third process (`empty`, `getStats`) are left out, and so are two
  consumers on one channel, which would both take the slot at `tail`: the ring is for one.
* `SignalSlot`: a slot that operates on its own signal waits for the mutex its
  own `emit` holds. `NestsAssumption` excludes it, so `CallsReturn` is about programs
  that do not do that. `SignalManager` (a map of signals under one mutex) is left
  out.
* `BagPlayer`: `configure` and `setCallback` are not called during `play`; `getProgress` is not modelled.
* `ServiceDiscovery`: one thread at a time calls `Start` and `Stop` (`running_` and
  `udp_socket_` are plain variables); endpoints parse; `CleanupExpiredServices` has
  no caller. `FindServices` and `GetAllServices` only read.
* Moving an `MpmcRingBuffer` is the affair of its owner alone.
* 2^31 readers and tickets beyond 2^64 are
  outside the models.

Not planned, with reasons: `Metrics` (independent counters, nothing relates them),
`SensorManager` (a map under one mutex that calls `start` and `stop` of sensors the user writes), `MemoryPool`
(a stack of numbers under a mutex, which believes whoever releases a slot, and has no user in the
repository but its test), `StaticTopology`
(a parser), `proto_codec` (copies fields of a generated message), `UdpTransport` and
the `ShmTransport` of `transport.cpp` (thin wrappers of the operating system), the
examples and the build. The files of `node/` are listed in `CMakeLists.txt` but
include `../transport/shm_channel.h`, which does not exist, and call operations
`ShmChannel` does not have: they do not compile.
