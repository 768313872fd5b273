# Verification of lokinet

TLA+ models of the parts of lokinet whose correctness depends on what happens at
the same time, in which order, or not at all: TLC checks them on small instances,
TLAPS proves the most important properties for every instance. The models are
written from the code under `src/`; `PROJECT.json` maps each definition to the lines
it stands for.

Contents: [the system](#the-system) · [modules](#modules) · [runs](#runs) ·
[fairness](#fairness) · [proofs](#proofs) · [what the code does
differently](#what-the-code-does-differently) · [not modelled](#not-modelled) ·
[plan](#plan)

## The system

A lokinet router is one process. Its **main thread** polls the event loop, ticks the
timers and runs the jobs of the *logic*; nearly all protocol code runs there. A pool of
**crypto workers** verifies and decrypts, and a pool with a **single disk thread**
writes the node database. Both pools are `ThreadPool`s on a lock-free `Queue`. Between
routers there is UDP.

| part | state | operations | what is hard, and what should hold |
| --- | --- | --- | --- |
| iwp delivery (`iwp/session`, `iwp/message_buffer`) | pending outbound and inbound messages, ack bitmasks, replay filter | SendMessageBuffer, HandleXMIT/DATA/ACKS/NACK, Pump, Tick, Close | loss, duplication, reordering and delay; a success is a delivery, at most one delivery, a result in time |
| iwp handshake (`iwp/session`, `iwp/linklayer`) | session state, maps of addresses and keys | intro, intro ack, session request, LIM | stale and repeated packets; both ends agree on the session |
| link layer, link manager (`link/`) | pending and authenticated sessions, persisting sessions | TryEstablishTo, Pump, SendTo, CheckPersistingSessions | sessions that end while they are used |
| session maker, message handler, RC lookup (`router/outbound_*`, `router/rc_lookup_handler`) | message queues, pending sessions, callbacks, lookups | QueueMessage, CreateSessionTo, GetRC, OnSessionResult, VerifyRC, FinalizeRequest | main thread against workers, between two critical sections; every message gets one answer |
| lock-free queue (`util/thread/queue*`) | push and pop index, cell states and generations | push, pop, undo of a push, size, disable, enable | every interleaving of atomics, the wrap of the index; it is a FIFO queue |
| thread pool (`util/thread/thread_pool`) | status, gate, idle count, semaphores | addJob, start, drain, stop, shutdown, disable, enable | lost wake-ups, workers left behind at the gate |
| logic and timers (`util/thread/logic`, `timer`, `ev/ev.cpp`) | job queue, timers, list of hit timers | queue_func, call_later, cancel, remove, tick | reentrant calls, a full queue; timers fire once, jobs run |
| node database (`nodedb`) | RCs in memory, files, disk jobs | InsertAsync, UpdateAsyncIfNewer, Remove, RemoveStaleRCs, SaveAll, Load | write failures, crashes, lock against full queue; memory and files agree |
| paths (`path/path`, `pathbuilder`, `pathset`) | status of each path, latency test, back-off, statistics | Tick, Build, HandleLRSM, HandlePathConfirm, HandlePathLatency, ExpirePaths | answers that come after the timeout, twice, or contradict each other; a usable path has its hops |
| transit hops (`path/path_context`, `transit_hop`, `messages/relay_*`) | table of hops, status frames | HandleDecrypted, SendLRCM, OnForwardLRCMResult, HandleLRSM, ExpirePaths | worker against logic thread, a result for a hop that has expired; results are neither hidden nor faked |
| DHT (`dht/`) | transactions by owner and by key, timeouts | NewTX, Inform, NotFound, Expire, LookupRouterRelayed, Explore | shared requests, answers that race the timeout, rings of routers; every request gets an answer, the right one |
| hidden services (`service/`) | intro sets, conversations | publish, lookup, shift of the introduction | path loss during a shift |
| exits and tun (`exit/`, `handlers/`) | address maps, activity | obtain, allocate, kick, close | an address range that is used up |
| CoDel queues (`util/codel`) | queue, first drop time | Put, Process | what is dropped, and order |
| router life cycle (`router/router`, `context`) | running, stopping | Run, Tick, Stop, Close | the order of the stop chain |

They interact as follows. `QueueMessage` sends on an iwp session or asks the session
maker for one; that looks up the RC in the node database or the DHT, establishes a
session on the link layer, has the RC verified on a worker and hands the result back as
a job of the logic. Paths, the DHT and hidden services send through `QueueMessage`. A
path is a chain of transit hops at other routers, which is extended hop by hop and
answered along the way back.

## Modules

**`IwpDelivery`** One direction of an established session. Variables carry the names of
`session.hpp`; the fields of `OutboundMessage` (`txAcks`, `lastFlush`, `startedAt`) and
`InboundMessage` (`rxAcks`, `lastACK`, `lastActive`) are functions of the message id.
The network is, per packet, the last time it was sent: until `MaxDelay` has passed it
may arrive any number of times, or never, in any order. An action per handler
(`HandleXMIT`, `HandleDATA`, `HandleUnknownDATA`, `HandleACKS`, `HandleNACK`), the two
halves of `Session::Pump`, `Session::Tick` of either end, closing and erasing a session.
Payloads and encryption are left out; a message is its number of fragments.

**`OutboundSessions`** `OutboundMessageHandler`, `OutboundSessionMaker` and
`RCLookupHandler`, composed, over the part of the link manager they use. Handlers of the
main thread are atomic but for `CreateSessionTo`, which a worker may interrupt between
its critical sections (`main` says where it is); on a worker `VerifyRC` ends in
`FinalizeRequest`, whose two critical sections are `VerifyRC` and `ErasePending`.
Deferred calls are counted (`establishJobs`, `resultJobs`, `timeoutJobs`). `deadEnd`
records why a request was left with nothing to finalize it.

**`BoundedQueue`** The abstract queue: at most `Capacity` elements, first in, first out.

**`QueueManager`** Every atomic load, store and compare-and-swap of `queue_manager.cpp`
and of `tryPushBack`, `tryPopFront`, `size`, `disable`, `enable` is a step; so is each
step of the push guard that undoes a push whose constructor threw. The generation count
is scaled down to `NumGenerations`; the queue is taken up with the indexes at `Start` and
`Filled` elements in it, a state it reaches with as many pushes and pops, so that the
wrap of the combined index is crossed. `Items` is the refinement mapping to `BoundedQueue`:
the elements of the cells from `First`, the first one not yet reserved for popping, to the
last one before `Beyond`, the first one not yet reserved for pushing, also those whose
index the thread that reserved them has yet to advance.

**`ThreadPool`** The blocking layer of `queue.hpp` and `thread_pool.cpp`, on an atomic
`BoundedQueue` together with the indexes `size()` is computed from: workers behind the
gate, callers of `addJob` and `tryAddJob`, a thread that calls the six commands.

**`Logic`** The main loop of `ev.cpp`, the job queue, the timers. Functions and handlers
may call Logic again wherever they run, other threads may call `queue_func` at any time.
A timer is what is left of its timeout; `Poll` takes the time that has passed off it.

**`NodeDB`** `llarp_nodedb`, its mutex `access`, the queue of the disk pool and the disk
thread, a step for each file operation and critical section. An RC is its version; a
file may be truncated and not written (`Broken`). A crash keeps the files only; `Load`
reads those that can be read and verify. `lost` and `expired` are history variables.

**`TXHolder`** The template of `txholder.hpp` as operators on a record of its three maps:
`NewTX`, `Inform` (which `Found`, `NotFound` and `Expire` come down to), `ExpiredKeys`.
A time stamp is its distance from now, counted as far as the code compares it.

**`DhtLookup`** Routers with two `TXHolder`s each, for router lookups and for exploration,
and the messages between them, which arrive in any order, late or never. An action per
handler (`HandleFindRouter` with `LookupRouterRelayed`, `HandleExplore`,
`HandleGotRouter` with `NotFound` and `AskNextPeer`), per request of the router's own node
or of a client at the end of a path (`Ask`), per timer (`Explore`, `CleanupTX`), for the
disk thread that stores a contact and for sessions that come and go. A contact is its key;
`Dist` is the XOR metric. `answers` records every result a request was given, `{NoPath}`
where `SendReply` or `HandleMessage` finds that the path has gone and sends nothing.

**`Path`** `path::Path` and the counters of its `path::Builder` as operators on records:
`EnterState`, `TickPath`, `HandlePathLatencyMessage`, the back-off. **`TransitHop`** the
same for a hop, with the frames of an `LR_StatusMessage`: a frame tells whose key it is
encrypted with and whether its record says success, which is what `Path::HandleLRSM` can
tell.

**`PathBuild`** composes them: the service endpoint that builds paths (`RouterTick`, with
`ExpirePaths`, `ShouldBuildMore`, `BuildOne` and `TickPaths`; `KeysGenerated` when the
worker has made the keys; `HandleOwnLRSM`, which queues one of the closures that
`RunConfirm` and `RunFail` run later; `HandleOwnLatency`; `Stop`, which comes from
`Router::Stop` alone, after which the router does not tick any more), and the routers on the
way (`HandleDecrypted` on a worker, `SendLRCM` and `SendPathConfirm` on the logic thread,
`OnForwardLRCMResult`, `HandleLRSM`, `SetSelfDestruct`, `ExpireHop`, `Relay`). Link
messages arrive in any order, late or never, and the sender of a commit may be told that
it was not delivered when it was.

`MCX` instantiates `X` for TLC, `X_proofs` holds the theorems about `X` and the lemmas they
rest on.

## Runs

Each run finishes in about three minutes or less on two cores. Deadlock is not checked where the
bounds, or the system itself, let everything come to rest.

| run | instance | what it shows |
| --- | --- | --- |
| `iwp_delivery` | one message of two fragments, timeouts of a few ticks; 310,102 states | `SuccessMeansDelivered`, `AtMostOnce`, `PendingBounded`, `ReceiverOutwaitsSender`, and `EventuallyInformed` under fair ticks |
| `outbound_sessions` | one router, two messages, two link sessions, one call of others, limit of one connection; 54,363 states | `ExactlyOneWaiter`, `MessageAccounted`; messages are abandoned at three named places only (`AbandonedOnlyAtDeadEnds`), elsewhere their queue drains unless the process crashes in `DoEstablish` (`QueueDrains`; see [below](#what-the-code-does-differently)) |
| `queue_manager` | three threads, capacity two, one element at the start, two more pushes of which one constructor may throw, one pop, a disable and an enable, across the wrap; 159,915 states | it implements `BoundedQueue` (`IsBoundedQueue`), the code's assertions hold (`AssertionsHold`), no element is left behind or read by the wrong popper (`NothingLeftBehind`, `PopsWhatItReserved`), "full", "empty" and the size at rest are true (`FullAndEmptyAreTrue`, `SizeIsCurrent`), every operation returns (`OperationsReturn`) |
| `thread_pool` | two workers, one caller, queue of one job, one job, three commands out of start, drain, stop and shutdown, a spawn may fail; 497,385 states | the assertion of `worker()` holds (`LeavesRunForDrainOrStop`), drain and stop wait for the jobs (`WaitsForJobs`), every command returns (`CommandsReturn`); all three unless a start has failed after it had spawned a worker |
| `thread_pool_live` | one worker, one caller, queue of one job, two jobs, three commands out of start, drain, stop, shutdown and disable, a spawn may fail; 276,373 states | no wake-up is lost: queued jobs run (`QueuedJobsRun`), unless the push straddled `disable()`, and a blocked `addJob` returns (`AddJobReturns`) |
| `logic` | two functions, two timers, job queue of one; 208,049 states | `FiresOnce`, `RemovedStaysSilent`, `HandlersFire`, `QueuedFuncsRun` |
| `logic_overflow` | one timer | *violated*: `OverflowRunsLater` |
| `nodedb` | two callers, two routers, one of them kept, two versions, disk queue of one job, three calls, one crash; 66,324 states | `NoGhostFiles`, `EntriesOnDisk`, and calls return but for one deadlock (`CallsReturnUnlessJammed`) |
| `nodedb_blocked` | one router | *violated*: `CallsReturn` |
| `dht_lookup` | three routers in a ring, a fourth key that one of them knows or nobody does, a request of a node and one over a path for it, one round of exploration, one session that comes and goes; 247,228 states | the tables of a `TXHolder` agree (`NoLookupForgotten`), lookups are only passed on to closer routers (`RelaysGetCloser`), whoever asked gets the contact asked for or none, over a path also the default one (`AnswersMatch`), and gets an answer unless the path is gone (`EveryAskAnswered`) |
| `dht_path_lookup` | the same without exploration | *violated*: `SingleRCIfFound` |
| `path_build` | one path of three hops, lifetime of three ticks; 314,222 states | a confirmed path has its hops until it expires (`HopsOutlivePath`), a path fails only if a hop could not extend it or was told so (`FailuresAreReal`), the statistics account for the build (`StatsAddUp`), hops expire, and paths do while their router runs (`EverythingExpires`) |

The type invariant is a conjunct of `AssertionsHold`, `LeavesRunForDrainOrStop`,
`EntriesOnDisk` and `HopsOutlivePath` in the modules that do not check it by itself.

Why the bounds are enough for the interesting cases:

- *iwp.* Two fragments give partial bitmasks. `DeliveryTimeout` 1, `ReplayWindow` 4,
  ticks every unit and a delay of one keep the order of the timers in `session.hpp`
  (5000 ms, 7500 ms, 100 ms), and `MaxTime` lets the replay filter decay after the
  sender has given up. Messages do not interact, and the proofs cover any number.
- *Outbound sessions.* Two messages for a router: the one that creates the queue and one
  that finds it. Two sessions: an outbound one that races an inbound one or a retry.
- *Queue.* Capacity two, an element to begin with, two more pushes and a pop fill the queue
  and reuse a cell in the next generation; `Start` puts that at the wrap of the combined index.
  Five generations are the fewest that keep a sleeping thread's index less than half of the
  range behind (`StalenessAssumption`, see the proofs); the proofs cover any threads and
  capacity.
- *Pool.* One job fills the queue, so that the second `addJob` blocks; three commands are a
  start, a drain or stop, and one that follows it. With two workers one may be late at the
  gate, or not be spawned at all; a wake-up is lost, or not, between one worker and one
  caller. `enable()` as a command of its own is left to the proofs: on a pool that is
  stopped it makes `addJob` wait for a start. `partial` is a history variable: a start has
  failed after it had spawned a worker.
- *Logic.* A queue of one job overflows when two functions are queued, and the tick
  itself meets a full queue.
- *NodeDB.* Three calls are enough to have an insert under way, a second one queued and a
  third waiting with the mutex held; the crash comes at any step.
- *DHT.* In a ring of three routers every lookup can be passed on, each router's closest
  peer for the fourth key differs, and two requests for one key share a transaction at
  some router. A timeout of one unit orders answers before, at and after the deadline.
  The proofs cover any routers, metric and requests.
- *Paths.* Three hops have a first, an inner and a last one, so that status frames are
  filled in at each kind. A path expires one tick after its build would have timed out,
  so that late answers fall on either side of both. The latency interval and the alive
  timeout are one tick each; in `constants/path.hpp` the latter is longer than the build
  timeout, but no property compares them, and the proofs assume nothing about it. A
  single path: two do not interact but through the builder's counters, and the proofs of
  the three invariants are for any number.

For every property of a passing run `PROJECT.json` lists a mutated definition (those
commented "mutant" in the modules) under which TLC finds the property violated.

## Fairness

- `IwpDelivery`: time passes, and both ends tick; every `OnTick` schedules the next. No
  assumption about the network, nor about when the event loop pumps.
- `OutboundSessions`: the main thread gets on with what it is in; a worker runs its jobs;
  queued jobs of the logic run. Strong fairness, as the main thread may do other things
  in between and takes up each of its jobs again and again. A DHT lookup is answered or
  timed out and a pending link session is established or times out, as their timers do.
- `QueueManager`, `ThreadPool`: a thread inside an operation is scheduled. Nobody is
  obliged to call anything. Jobs end.
- `Logic`: the main loop goes on, and now and then a turn of it takes time:
  `EV_TICK_INTERVAL` is waited for unless there are events.
- `DhtLookup`: the clock and the cleanup timer, which `handle_cleaner_timer` schedules
  anew each time, do not stop. No message has to arrive, and no session has to stay.
- `PathBuild`: the clock and the ticks of the routers (`Router::ScheduleTicker`) do not
  stop, those that build nothing and those that expire hops. Nothing is assumed of
  messages, workers and queued closures.
- `NodeDB`: threads go on, and one that waits for `access` gets it in the end (strong
  fairness of the critical sections).

## Proofs

`IwpDelivery_proofs`, for every number of messages and 1 to 8 fragments, and all timers
with `DeliveryTimeout + TickInterval + MaxDelay < ReplayWindow` (with the constants of
`session.hpp`: the network delays a packet by less than 2400 ms):

- `TypeCorrect`, `DeliverySuccessIsTrue`, `NoDuplicateDelivery`, `ResultInTime`: the
  invariants of the run; `ReceiverOutwaits`: its action property.
- None of them is inductive alone. That a message is handled once rests on the replay
  filter, hence on how long an XMIT may be under way (`XmitInTime`), hence on the sender
  having dropped the message in time (`TicksInTime`), hence on ticks not being missed.
  That a success is true rests on the full bitmask being sent for a delivered message
  only (`FullAckMeansDelivered`), which needs that a pending inbound message always lacks
  a fragment (`PartlyReceived`). `IInv` is the conjunction of these.

`OutboundSessions_proofs`, for any finite sets of routers and messages and all bounds:

- `TypeCorrect`, `OneWaiterPerQueue`, `EveryMessageAccounted`, `AbandonedOnlyThere`.
- All but three actions only move callbacks, from `pendingCallbacks` to jobs of the
  logic; `WaitersKept` and `MessagesKept` settle these. The three that move messages
  (`QueueMessage`, `OnSessionResult`, `MessageCompleted`) are proved one by one. The
  strengthening is `NotYetAccepted`: a message not yet handed over is nowhere.
- That a pending request has something to move it on (`AbandonedOnlyThere`) is about every
  handler of the session maker, as each takes one job, lookup or link session away and must
  leave another or record the dead end. The strengthening `RequestsDriven` says so of the
  requests of all routers at every step of the main thread and the worker, also between
  the critical sections, where the next one is what moves the request on.

`QueueManager_proofs`, for any finite set of threads, any capacity, any place of the wrap
and any number of pushes, pops, throwing constructors, disables and enables, under
`StalenessAssumption`:

- `ImplementsBoundedQueue` (the refinement: a push appends when it reserves its cell, a pop
  removes the head when it reserves the head's cell, every other step is a stutter),
  `AssertionsAlwaysHold`, `PopsReserved`, `NoElementLost`, `SizeAlwaysCurrent`, and
  `FullAndEmptyAlwaysTrue` (the action property of the run).
- The code compares indexes and generations modulo their range. The proofs unroll them:
  `Off(c)` is how far the combined index `c` is from `Start`, `Pos(i)` the position that cell
  `i` stands for in the generation of its state. The invariant `IInv(H, T)` says that there
  are two positions such that those from `H` up to `T` are in the queue. Each state tells
  where a cell is (`CellOK`: empty cells stand from `T` to `H + Capacity`, cells that are
  written or full from `H` to `T`, cells that are read before `H`); each index is at its end
  of the queue or one behind it, and then the thread that is to advance it is there, or for
  the push index the queue was disabled (`IndexesOK`); what a thread has loaded is not
  ahead of the index it was loaded from, and the cells it skips or gives back are behind it
  (`LoadedOK`); a reserved cell has the state and the contents its one owner left it in
  (`ReservedOK`, `OwnersDiffer`). A lemma per action shows that it leaves `H` and `T`, or
  moves `T` on by one with an element, or moves `H` on by one (`NextSteps`); the six
  theorems follow from that.
- `Counted` says that no more cells were reserved than pushes started, so that positions
  stay within `MaxPushes`. This is where `StalenessAssumption` comes in,
  `2 * (MaxPushes + Capacity) <= NumCombined`: `circularDifference` tells which of two indexes
  is ahead only while they are less than half of the range apart, and a thread may sleep
  between its load and its compare-and-swap for as long as it takes. In the code the range
  is the largest multiple of the capacity up to 2^31 (2^30 for a capacity of one), so that the
  theorems speak of about 2^30 pushes from any place of the two indexes. A thread that
  sleeps through more of them is beyond what the code's comparison can tell.

`ThreadPool_proofs`, for any finite sets of workers and callers, any capacity of the queue
and any number of jobs and commands, when no spawn fails (`~SpawnMayFail`, an assumption of
both theorems; the runs have failing spawns and except the case in which the theorems are
false without it, see below):

- `AssertionHolds`, `QueuedJobsWaitedFor`.
- Both are about one thread relying on a count the others keep. `waitThreads` returns when
  `m_numThreadsReady` is the number of workers; that they are all at the gate then, and at
  this turn of it, needs the count to be the number of those that counted themselves
  (`CountInv`, as for the idle threads and the waiting pushers), and every worker to be
  where the command under way allows (`PlacesInv`). The phases of a command are `Down`,
  `Starting`, `Gated`, `Running`, `Draining` and `Leaving`; a worker that was released but
  has yet to pass the gate counts as running, which is what a second drain right after the
  first would otherwise get wrong. `AssertionHolds` follows from the places.
- That drain and stop have waited for the jobs needs where those jobs are (`BeforeInv`):
  each has run, is queued or in a worker's hand, and none is queued once a worker has
  come back to the gate, as it left `drainQueue` with the queue empty and jobs of later
  calls are other jobs (`JobInv`). At the end of the wait no worker has one in hand.

`NodeDB_proofs`, for any callers and routers, any capacity of the disk queue, any number of
calls and crashes, and writes that fail at any step:

- `EntriesKept`, `RemovedStayRemoved`.
- An entry in memory and its file agree unless the history variable `lost` tells why not
  (`FileInv`); while `Insert` is between opening the file and putting the entry, a router
  that is present is in `lost`. `SaveAll` holds the mutex while it writes what it has found
  (`SavingInv`), so no caller removes an entry it has yet to write.
- Files without an entry are allowed while there is somebody to remove them. `GhostInv`
  says who that can be (`Pending`): a caller that has erased the entry and has yet to queue
  the removal, a queued job, the one the disk thread is at, or an `Insert` that has written
  the file and is about to put the entry. When the disk thread has caught up nobody of
  these is left.

`DhtLookup_proofs`, for any finite set of routers, every distance
that is 0 for equal keys only, any requests, sessions and rounds of exploration:

- `TypeCorrect`, `HoldersConsistent`, `LookupsConverge`, `RightContact`.
- `Holders` says of each `TXHolder` that its three maps agree, that no id beyond the last
  one used has an owner, so that `emplace` never meets an entry that is there, and that a
  transaction for another router asks a closer peer. `AskNextPeer` compares the next peer
  with the one that answered, not with the router itself: that it is closer still follows
  from the transaction it replaces, which is why the property has to be carried along for
  all pending transactions. `RightContact` is about requests of a node and over a path;
  `Fits` is what either may be given. `OneContact` says that an answer in flight holds one contact at
  most, without which `Inform` for another key could hand a node a contact it did not ask
  for.

`Logic_proofs`, for any functions, handlers, timeouts and capacity of the job queue:

- `TypeCorrect`, `CalledOnce`, `RemovedNotCalled` (the action property of the run).
- The strengthening: when the loop is about to queue a tick the last one has run
  (`NoTickQueued`), a timer still in the map or in the list of hit ones has not been called
  (`NotFiredYet`), and one that was removed has lost its function unless a tick has
  taken it out of the map (`RemovedLosesFunc`).

`PathBuild_proofs`, for any number of paths and hops and all times with the order of
`TimesAssumption`:

- `HopsKept`, `FailuresTrue`, `StatsAccounted`.
- A confirmation tells of the hops as they were, and a path is used long after. The
  invariant therefore says what every message, closure and path *knows* of the hops:
  each good record in a status message was made by a hop that had put its entry
  (`MsgsTrue`), a success that has come down to hop k carries the records of all hops
  beyond it, a queued confirmation has all of them (`LogicTrue`), and so has a path that
  has sent a latency test (`PathsTrue`); a failure, queued or not, has a hop that failed.
  These stay true because hops only move forward (`Advances`). Hops are made in order and
  destroy themselves for a reason only (`HopsInOrder`), nothing is sent for a path whose
  keys are not made yet (`NothingSent`), and no hop is older than the path, which is why
  none expires before it.
- The statistics are bounds because a late answer is counted again. They are inductive with
  the number of paths that are building and of those whose hook is still set (`StatsInv`):
  attempts are at most what was counted plus the paths still building, and successes plus
  the hooks that are set at most the attempts. That a path which is building has its hook
  is what makes the answer that establishes it count.

The named assumptions are those of the modules' `ASSUME`s; TLC evaluates them in the runs.

Only model-checked: everything about liveness, as the prover has no rules for fairness:
`EventuallyInformed`, `QueueDrains`, `OperationsReturn`, `CommandsReturn`, `QueuedJobsRun`,
`AddJobReturns`, `HandlersFire`, `QueuedFuncsRun`, `CallsReturnUnlessJammed`,
`EveryAskAnswered` and `EverythingExpires`. Every invariant and action property of a passing
run has a theorem.

## What the code does differently

Runs that find a comment or document at odds with the code:

1. A function that overflows the job queue of the logic is not called "later": its timer
   has no `func`, and a timer without one is dropped (`logic_overflow`).
2. `UpdateAsyncIfNewer` holds `access` while it waits for room in the disk queue; the
   disk thread waits for `access` (`nodedb_blocked`). `CallsReturnUnlessJammed` shows that
   this is the only way for a call of the node database to wait for ever.
3. A client that looks a router up over a path is sent a default-constructed contact when
   one is found: `localrouterlookup.cpp:42` takes a contact only if it is *older* than the
   default (`dht_path_lookup`).

Behaviour the models contain, that properties are stated around:

- *Crash.* `DoEstablish` dereferences a null `PendingSession` (`outbound_session_maker.cpp:182`)
  when its attempt was finalized before the job ran and the next attempt for the router
  has its entry and not yet its RC. The model reaches this in eight steps; the action sets
  `crashed`, nothing happens afterwards, and `QueueDrains` excepts it.
- A request for a session ends nowhere after a BadRC result, when `ShouldConnectTo` says
  no, and when a worker erases the pending entry of a newer attempt: its messages stay
  queued until another request for that router is finalized.
- `maxConnectedRouters`, commented "hard upperbound limit" (`outbound_session_maker.hpp:72`),
  is not one: `GotRouterContact` asks `ShouldConnectTo` for a router that is pending, and
  for such a router the other pending ones are not counted, so that two requests under way
  together both connect. (Established sessions are counted, inbound ones too.)
- A message that was handed to a link session counts as accounted for (`MessageAccounted`),
  also when that session ends before it has sent it; its handler is not called then.
- *Hang of `start()`.* When a spawn fails, `start()` opens the gate for the workers it has
  spawned and joins them (`thread_pool.cpp:286`). A worker that reads `m_gateCount` after
  that (`:96`) waits at the gate for a next turn that does not come, and `start()` does not
  return. A worker that counts itself ready after the count was reset makes a later
  `drain()` return before both workers are at the gate, or a later `start()` wait for ever.
  With one worker neither can happen. `partial` records that a start has failed in this
  way; `LeavesRunForDrainOrStop`, `WaitsForJobs`, `CommandsReturn`, `QueuedJobsRun` and
  `AddJobReturns` are stated for pools in which none has.
- A push that straddles `disable()` commits an element `size()` does not count until a
  later push moves the index (`SizeIsCurrent` excludes it). In a pool that is disabled
  and still running a worker may sleep beside such a job (`QueuedJobsRun` excepts it); the
  daemon calls neither `ThreadPool::disable` nor `enable`. A push that straddles `stop()`
  leaves its job in the queue of the stopped pool.
- A timer that is removed by a handler of the tick that has hit it is still called once.
- *DHT.* `NotFound` is commented "ask for next peer" (`txholder.hpp:146`), but `NewTX` starts
  a request only if nobody waits for its key (`:128`), and the transaction that got the
  empty answer still does: the next peer is never sent the request, and the lookup ends
  with the cleanup. Deadlines have the timeout added when they are stored and again when
  they are compared, so that this takes two timeouts. A client whose path is gone when the
  answer is there is not told anything (`localrouterlookup.cpp:29`); `EveryAskAnswered`
  counts that as an end of its request. A router with few peers does not answer exploration if the
  requester is one of them: it asks its bucket for as many as it has, the requester
  included. `HasPendingLookupFrom` looks for the asker's id among the ids this router has
  given out, so that it finds a repeated request by coincidence only.
- *Paths.* The answer to the latency test that is pending establishes a path in whatever
  status it is, also one that timed out, expired or failed and has not been removed yet
  (`path.cpp:556`); a late failure fails an established one. A latency test whose answer is
  lost is not repeated, as `m_LastLatencyTestID` stays set. A build is counted as a timeout
  and then, by late answers, as a failure and a success as well: `StatsAddUp` states a
  bound, not an equation. A hop that is told that its commit was not delivered reports a
  failure although the commit may have been, and keeps its own entry until the end of its
  life. `ShouldBuildMore` compares with `<=`, and builds whose keys are being made are not
  counted, so that more than `numPaths` are built.
- *Transit hops.* `QueueDestroySelf` binds its closure to the hop itself
  (`transit_hop.cpp:367`). If `ExpirePaths` erases the hop before the closure runs, that
  writes to freed memory; in the model `SetSelfDestruct` then changes an entry that is no
  longer a hop.
- `UpdateAsyncIfNewer` compares with what is in memory, not with what is queued;
  `RemoveStaleRCs` may remove an RC that was refreshed after it was found stale;
  `InsertAsync` drops the RC when the disk pool is stopped. A file removed by a job that
  was queued behind an insert of the same router is missing at the next start although
  the RC is in memory (`lost`). A removal of a file that fails throws in the disk thread,
  which ends the process: the action `Crash`.

## Not modelled

Cryptography is taken as ideal. Operating system I/O (event loops, network interfaces),
serialisation, DNS, configuration, RPC and the HTTP library hold little shared state.
Relaxed memory order is covered as far as a thread may sleep between a load and its use;
reorderings of one thread's own accesses are not. `popFront` has no caller.

Left out of components that are modelled otherwise:

- node database: the random selection of hops, the asynchronous verification;
- RC lookup: exploration from its side, bootstrap, the white list;
- link layer: the limit of sessions per key, renegotiation, `Stop`;
- DHT: introset and tag lookups (the same `TXHolder`, other messages), the propagation of
  introsets;
- paths: traffic other than latency tests, the choice of hops, manual rebuilds, exits and
  the DHT messages that a last hop handles, a hop table in which ids clash
  (`HasTransitHop`), the status `ePathIgnore`, which exit sessions use.

Not modelled at all, and independent of what is: the iwp handshake, hidden services, exits
and the tun endpoint, CoDel queues, the router's life cycle and profiling. `PROJECT.json`
lists every component, and the hazards that no property covers, with the reason.

## Plan

In this order:

1. `IwpHandshake`: both ends from `Initial` to `Ready` over the same network as
   `IwpDelivery`.
2. `ExitAddresses`: allocation and kicking; the two address maps stay inverse to each
   other. `Codel` as a pure algorithm against a reference.
3. `RouterStop`: the stop chain over `ThreadPool` and `NodeDB`.
4. Introset and tag lookups on `TXHolder`; introduction shifting of hidden services.

Abstract specifications: a channel that delivers each message at most once, for
`IwpDelivery`; a one-shot request with exactly one answer, for `OutboundSessions`.
