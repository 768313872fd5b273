----------------------------- MODULE ThreadPool -----------------------------
(***************************************************************************)
(* llarp/util/thread/thread_pool on the blocking layer of queue.hpp:       *)
(* workers behind their gate, threads that add jobs, and one thread that   *)
(* calls start, drain, stop, shutdown, disable and enable (m_mutex admits  *)
(* one of the first four at a time).  The lock-free queue under it is the  *)
(* BoundedQueue that QueueManager implements, with its push and pop        *)
(* indexes, which size() reads.                                            *)
(***************************************************************************)
EXTENDS Integers, Sequences, FiniteSets, FiniteSetsExt

CONSTANTS
    Workers,        \* m_threads
    Callers,        \* threads that call addJob and tryAddJob
    Capacity,       \* capacity of m_queue
    Commands,       \* calls the controlling thread makes
    MaxJobs,        \* bound: jobs added
    MaxCommands,    \* bound: commands
    SpawnMayFail    \* whether std::thread may throw system_error

ASSUME PoolAssumption ==
    /\ Workers # {} /\ IsFiniteSet(Workers) /\ IsFiniteSet(Callers)
    /\ Capacity \in Nat \ {0} /\ MaxJobs \in Nat /\ MaxCommands \in Nat
    /\ Commands \subseteq {"start", "drain", "stop", "shutdown", "disable", "enable"}
    /\ SpawnMayFail \in BOOLEAN

Jobs == 1 .. MaxJobs
NoJob == 0

VARIABLES
    \* Queue
    items, enabled,
    pushed, counted, popped,  \* elements pushed; push index; pop index
    waitingPushers, pushSemaphore,
    \* ThreadPool
    m_status, m_idleThreads, m_semaphore, m_gateCount, m_numThreadsReady,
    \* threads
    wk,         \* [Workers -> [pc, gate, job]]
    cl,         \* [Callers -> [pc, job, seen, blocking]]
    ctl,        \* [pc, cmd, n, poppedItems, before, partial]: before is what was queued at
                \* the call; partial, that some start() could spawn only some of its threads
    added, commands, ran, cancelled

queue == <<items, enabled, pushed, counted, popped, waitingPushers, pushSemaphore>>
pool == <<m_status, m_idleThreads, m_semaphore, m_gateCount, m_numThreadsReady>>
vars == <<queue, pool, wk, cl, ctl, added, commands, ran, cancelled>>

Outside == [pc |-> "out", job |-> NoJob, seen |-> 0, blocking |-> FALSE]
NoThread == [pc |-> "none", gate |-> 0, job |-> NoJob]

\* The constructor disables the queue
Init ==
    /\ items = <<>> /\ enabled = FALSE /\ pushed = 0 /\ counted = 0 /\ popped = 0
    /\ waitingPushers = 0 /\ pushSemaphore = 0
    /\ m_status = "Stop" /\ m_idleThreads = 0 /\ m_semaphore = 0
    /\ m_gateCount = 0 /\ m_numThreadsReady = 0
    /\ wk = [w \in Workers |-> NoThread]
    /\ cl = [c \in Callers |-> Outside]
    /\ ctl = [pc |-> "out", cmd |-> "none", n |-> 0, poppedItems |-> 0, before |-> {},
              partial |-> FALSE]
    /\ added = 0 /\ commands = 0 /\ ran = {} /\ cancelled = {}

size == IF counted >= popped THEN counted - popped ELSE 0
empty == size = 0
full == Capacity <= size

-----------------------------------------------------------------------------
(* addJob and tryAddJob                                                    *)

CallerAt(c, label) == cl[c].pc = label
CallerGoto(c, label) ==
    cl' = [cl EXCEPT ![c] = IF label = "out" THEN Outside ELSE [@ EXCEPT !.pc = label, !.seen = 0]]

AddJob(c) ==
    /\ CallerAt(c, "out") /\ added < MaxJobs
    /\ added' = added + 1
    /\ \E blocking \in BOOLEAN :
         cl' = [cl EXCEPT ![c] = [pc |-> "load", job |-> added + 1, seen |-> 0,
                                  blocking |-> blocking]]
    /\ UNCHANGED <<queue, pool, wk, ctl, commands, ran, cancelled>>

\* reservePushIndex loads the push index with its disabled bit
PushLoad(c) ==
    /\ CallerAt(c, "load")
    /\ IF enabled THEN cl' = [cl EXCEPT ![c].pc = "push", ![c].seen = pushed]
       ELSE CallerGoto(c, "out")
    /\ UNCHANGED <<queue, pool, wk, ctl, added, commands, ran, cancelled>>

HasRoom == Len(items) < Capacity

\* On a queue disabled since the load, only the thread that loaded the current
\* index still pushes, and the push index cannot be advanced over its cell
Push(c) ==
    /\ CallerAt(c, "push")
    /\ \/ /\ enabled \/ cl[c].seen = pushed
          /\ HasRoom
          /\ items' = Append(items, cl[c].job)
          /\ pushed' = pushed + 1
          /\ counted' = IF enabled THEN pushed + 1 ELSE counted
          /\ CallerGoto(c, "notify")
       \/ /\ ~HasRoom
          /\ CallerGoto(c, IF cl[c].blocking THEN "full" ELSE "out")
          /\ UNCHANGED <<items, pushed, counted>>
       \/ /\ ~enabled /\ cl[c].seen # pushed
          /\ CallerGoto(c, "out")
          /\ UNCHANGED <<items, pushed, counted>>
    /\ UNCHANGED <<enabled, popped, waitingPushers, pushSemaphore, pool, wk, ctl, added,
                   commands, ran, cancelled>>

\* mutant: no idle worker is notified
WakeIdle_Never == UNCHANGED m_semaphore

WakeIdle == m_semaphore' = IF m_idleThreads > 0 THEN m_semaphore + 1 ELSE m_semaphore

NotifyIdle(c) ==
    /\ CallerAt(c, "notify")
    /\ WakeIdle
    /\ CallerGoto(c, "out")
    /\ UNCHANGED <<queue, m_status, m_idleThreads, m_gateCount, m_numThreadsReady, wk,
                   ctl, added, commands, ran, cancelled>>

\* pushBack on a full queue: count ourselves, look again, wait
PushWait(c) ==
    /\ \/ /\ CallerAt(c, "full")
          /\ waitingPushers' = waitingPushers + 1
          /\ CallerGoto(c, "isFull")
          /\ UNCHANGED pushSemaphore
       \/ /\ CallerAt(c, "isFull")
          /\ CallerGoto(c, IF full THEN "isEnabled" ELSE "woken")
          /\ UNCHANGED <<waitingPushers, pushSemaphore>>
       \/ /\ CallerAt(c, "isEnabled")
          /\ CallerGoto(c, IF enabled THEN "sleep" ELSE "woken")
          /\ UNCHANGED <<waitingPushers, pushSemaphore>>
       \/ /\ CallerAt(c, "sleep") /\ pushSemaphore > 0
          /\ pushSemaphore' = pushSemaphore - 1
          /\ CallerGoto(c, "woken")
          /\ UNCHANGED waitingPushers
       \/ /\ CallerAt(c, "woken")
          /\ waitingPushers' = waitingPushers - 1
          /\ CallerGoto(c, "load")
          /\ UNCHANGED pushSemaphore
    /\ UNCHANGED <<items, enabled, pushed, counted, popped, pool, wk, ctl, added,
                   commands, ran, cancelled>>

CallerStep(c) == PushLoad(c) \/ Push(c) \/ NotifyIdle(c) \/ PushWait(c)

-----------------------------------------------------------------------------
(* worker                                                                  *)

WorkerAt(w, label) == wk[w].pc = label
WorkerGoto(w, label) ==
    wk' = [wk EXCEPT ![w] = IF label = "none" THEN NoThread ELSE [@ EXCEPT !.pc = label]]

\* The new thread reads m_gateCount
WorkerBegin(w) ==
    /\ WorkerAt(w, "begin")
    /\ wk' = [wk EXCEPT ![w].pc = "arrive", ![w].gate = m_gateCount]
    /\ UNCHANGED <<queue, pool, cl, ctl, added, commands, ran, cancelled>>

Arrive(w) ==
    /\ WorkerAt(w, "arrive")
    /\ m_numThreadsReady' = m_numThreadsReady + 1
    /\ WorkerGoto(w, "gate")
    /\ UNCHANGED <<queue, m_status, m_idleThreads, m_semaphore, m_gateCount, cl, ctl,
                   added, commands, ran, cancelled>>

PassGate(w) ==
    /\ WorkerAt(w, "gate") /\ wk[w].gate # m_gateCount
    /\ wk' = [wk EXCEPT ![w].pc = "status", ![w].gate = m_gateCount]
    /\ UNCHANGED <<queue, pool, cl, ctl, added, commands, ran, cancelled>>

\* mutant: a worker leaves runJobs for the gate without drainQueue
AfterRun_NoDrain == IF m_status = "Drain" THEN "arrive" ELSE "none"

AfterRun == IF m_status = "Drain" THEN "drain" ELSE "none"

\* m_status is loaded at the gate, at the head of either loop and after runJobs
LoadStatus(w) ==
    /\ \/ WorkerAt(w, "status") /\ WorkerGoto(w, IF m_status = "Run" THEN "run" ELSE AfterRun)
       \/ WorkerAt(w, "run") /\ WorkerGoto(w, IF m_status = "Run" THEN "pop" ELSE "after")
       \/ WorkerAt(w, "after") /\ WorkerGoto(w, AfterRun)
       \/ WorkerAt(w, "drain") /\ WorkerGoto(w, IF m_status = "Drain" THEN "drainPop" ELSE "arrive")
    /\ UNCHANGED <<queue, pool, cl, ctl, added, commands, ran, cancelled>>

\* tryPopFront
Pop(w) ==
    /\ wk[w].pc \in {"pop", "drainPop"}
    /\ LET draining == WorkerAt(w, "drainPop")
       IN  \/ /\ items # <<>>
              /\ items' = Tail(items) /\ popped' = popped + 1
              /\ wk' = [wk EXCEPT ![w].pc = IF draining THEN "drainGuard" ELSE "guard",
                                  ![w].job = Head(items)]
           \/ /\ items = <<>>
              /\ WorkerGoto(w, IF draining THEN "arrive" ELSE "idle")
              /\ UNCHANGED <<items, popped>>
    /\ UNCHANGED <<enabled, pushed, counted, waitingPushers, pushSemaphore, pool, cl,
                   ctl, added, commands, ran, cancelled>>

\* mutant: the pop guard does not notify
WakePusher_Never == UNCHANGED pushSemaphore

\* ~QueuePopGuard notifies a waiting pusher
WakePusher == pushSemaphore' = IF waitingPushers > 0 THEN pushSemaphore + 1 ELSE pushSemaphore

PopGuard(w) ==
    /\ wk[w].pc \in {"guard", "drainGuard"}
    /\ WakePusher
    /\ WorkerGoto(w, IF WorkerAt(w, "guard") THEN "job" ELSE "drainJob")
    /\ UNCHANGED <<items, enabled, pushed, counted, popped, waitingPushers, pool, cl,
                   ctl, added, commands, ran, cancelled>>

RunJob(w) ==
    /\ wk[w].pc \in {"job", "drainJob"}
    /\ ran' = ran \cup {wk[w].job}
    /\ wk' = [wk EXCEPT ![w].pc = IF WorkerAt(w, "job") THEN "run" ELSE "drain",
                        ![w].job = NoJob]
    /\ UNCHANGED <<queue, pool, cl, ctl, added, commands, cancelled>>

\* runJobs found no job: count ourselves, look again, wait
IdleWait(w) ==
    /\ \/ /\ WorkerAt(w, "idle")
          /\ m_idleThreads' = m_idleThreads + 1
          /\ WorkerGoto(w, "isRunning")
          /\ UNCHANGED m_semaphore
       \/ /\ WorkerAt(w, "isRunning")
          /\ WorkerGoto(w, IF m_status = "Run" THEN "isEmpty" ELSE "awake")
          /\ UNCHANGED <<m_idleThreads, m_semaphore>>
       \/ /\ WorkerAt(w, "isEmpty")
          /\ WorkerGoto(w, IF empty THEN "sleep" ELSE "awake")
          /\ UNCHANGED <<m_idleThreads, m_semaphore>>
       \/ /\ WorkerAt(w, "sleep") /\ m_semaphore > 0
          /\ m_semaphore' = m_semaphore - 1
          /\ WorkerGoto(w, "awake")
          /\ UNCHANGED m_idleThreads
       \/ /\ WorkerAt(w, "awake")
          /\ m_idleThreads' = m_idleThreads - 1
          /\ WorkerGoto(w, "run")
          /\ UNCHANGED m_semaphore
    /\ UNCHANGED <<queue, m_status, m_gateCount, m_numThreadsReady, cl, ctl, added,
                   commands, ran, cancelled>>

WorkerStep(w) ==
    \/ WorkerBegin(w) \/ Arrive(w) \/ PassGate(w) \/ LoadStatus(w) \/ Pop(w)
    \/ PopGuard(w) \/ RunJob(w) \/ IdleWait(w)

-----------------------------------------------------------------------------
(* start, drain, stop, shutdown, disable and enable                        *)

At(label) == ctl.pc = label
Goto(label) == ctl' = [ctl EXCEPT !.pc = label]
Finish ==
    ctl' = [pc |-> "out", cmd |-> "none", n |-> 0, poppedItems |-> 0, before |-> {},
            partial |-> ctl.partial]

Queued == {items[i] : i \in 1 .. Len(items)} \cup ({wk[w].job : w \in Workers} \ {NoJob})

\* The commands that do nothing in the current status return at once
Command ==
    /\ At("out") /\ commands < MaxCommands
    /\ commands' = commands + 1
    /\ \E cmd \in Commands :
         /\ cmd = "start" => m_status = "Stop"
         /\ cmd \in {"drain", "stop", "shutdown"} => m_status = "Run"
         /\ ctl' = [pc |-> CASE cmd = "start" -> "spawn" [] cmd = "drain" -> "setDrain"
                             [] cmd = "enable" -> "enable" [] OTHER -> "disable",
                    cmd |-> cmd, n |-> 0, poppedItems |-> 0, before |-> Queued,
                    partial |-> ctl.partial]
    /\ UNCHANGED <<queue, pool, wk, cl, added, ran, cancelled>>

Spawn ==
    /\ At("spawn")
    /\ LET rest == {w \in Workers : WorkerAt(w, "none")}
       IN  \/ \E w \in rest :
                /\ wk' = [wk EXCEPT ![w].pc = "begin"]
                /\ ctl' = [ctl EXCEPT !.pc = IF rest = {w} THEN "waitThreads" ELSE "spawn"]
           \/ /\ SpawnMayFail /\ rest # {}
              /\ ctl' = [ctl EXCEPT !.pc = "release", !.partial = @ \/ rest # Workers]
              /\ UNCHANGED wk
    /\ UNCHANGED <<queue, pool, cl, added, commands, ran, cancelled>>

\* Queue::disable sets the bit, then notifies every pusher it finds waiting
SetDisabled ==
    /\ At("disable")
    /\ enabled' = FALSE
    /\ Goto("wakePushers")
    /\ UNCHANGED <<items, pushed, counted, popped, waitingPushers, pushSemaphore, pool, wk,
                   cl, added, commands, ran, cancelled>>

WakePushers ==
    /\ At("wakePushers")
    /\ pushSemaphore' = pushSemaphore + waitingPushers
    /\ CASE ctl.cmd = "stop" -> Goto("setDrain")
         [] ctl.cmd = "shutdown" -> Goto("setStop")
         [] ctl.cmd = "disable" -> Finish
    /\ UNCHANGED <<items, enabled, pushed, counted, popped, waitingPushers, pool, wk, cl,
                   added, commands, ran, cancelled>>

Enable ==
    /\ At("enable")
    /\ enabled' = TRUE
    /\ IF ctl.cmd = "start" THEN Goto("setRun") ELSE Finish
    /\ UNCHANGED <<items, pushed, counted, popped, waitingPushers, pushSemaphore, pool, wk,
                   cl, added, commands, ran, cancelled>>

SetStatus ==
    /\ \/ At("setDrain") /\ m_status' = "Drain" /\ Goto("interrupt")
       \/ At("setRun") /\ m_status' = "Run" /\ Goto("release")
       \/ /\ At("setStop") /\ m_status' = "Stop"
          /\ Goto(IF ctl.cmd = "stop" THEN "release" ELSE "interrupt")
    /\ UNCHANGED <<queue, m_idleThreads, m_semaphore, m_gateCount, m_numThreadsReady, wk, cl,
                   added, commands, ran, cancelled>>

\* mutant: one idle worker is not notified
InterruptCount_ButOne == IF m_idleThreads > 0 THEN m_idleThreads - 1 ELSE 0

InterruptCount == m_idleThreads

Interrupt ==
    /\ At("interrupt")
    /\ m_semaphore' = m_semaphore + InterruptCount
    /\ Goto(IF ctl.cmd = "shutdown" THEN "removeAll" ELSE "waitThreads")
    /\ UNCHANGED <<queue, m_status, m_idleThreads, m_gateCount, m_numThreadsReady, wk, cl,
                   added, commands, ran, cancelled>>

\* mutant: one worker at the gate is enough
allThreadsReady_Some == m_numThreadsReady > 0

allThreadsReady == m_numThreadsReady = Cardinality(Workers)

WaitThreads ==
    /\ At("waitThreads") /\ allThreadsReady
    /\ Goto(CASE ctl.cmd = "start" -> "enable" [] ctl.cmd = "drain" -> "setRun"
              [] ctl.cmd = "stop" -> "setStop")
    /\ UNCHANGED <<queue, pool, wk, cl, added, commands, ran, cancelled>>

\* A start whose spawn failed joins the threads it has; drain and start are done
Release ==
    /\ At("release")
    /\ m_numThreadsReady' = 0 /\ m_gateCount' = m_gateCount + 1
    /\ IF ctl.cmd = "stop" \/ m_status = "Stop" THEN Goto("join") ELSE Finish
    /\ UNCHANGED <<queue, m_status, m_idleThreads, m_semaphore, wk, cl, added, commands,
                   ran, cancelled>>

\* removeAll pops as many elements as size() says.  poppedItems, incremented by
\* the loop's test, ends one above the number of elements popped
RemoveAll ==
    /\ \/ /\ At("removeAll")
          /\ ctl' = [ctl EXCEPT !.pc = "remove", !.n = size]
          /\ UNCHANGED <<items, popped, pushSemaphore, cancelled>>
       \/ /\ At("remove") /\ ctl.poppedItems < ctl.n /\ items # <<>>
          /\ items' = Tail(items) /\ popped' = popped + 1
          /\ cancelled' = cancelled \cup {Head(items)}
          /\ ctl' = [ctl EXCEPT !.poppedItems = @ + 1]
          /\ UNCHANGED pushSemaphore
       \/ /\ At("remove")
          /\ ctl.poppedItems = ctl.n \/ items = <<>>
          /\ pushSemaphore' = pushSemaphore + Min({ctl.poppedItems + 1, waitingPushers})
          /\ Goto("join")
          /\ UNCHANGED <<items, popped, cancelled>>
    /\ UNCHANGED <<enabled, pushed, counted, waitingPushers, pool, wk, cl, added, commands,
                   ran>>

Join ==
    /\ At("join") /\ \A w \in Workers : WorkerAt(w, "none")
    /\ Finish
    /\ UNCHANGED <<queue, pool, wk, cl, added, commands, ran, cancelled>>

ControlStep ==
    \/ Spawn \/ SetDisabled \/ WakePushers \/ Enable \/ SetStatus \/ Interrupt
    \/ WaitThreads \/ Release \/ RemoveAll \/ Join

Next ==
    \/ \E c \in Callers : AddJob(c) \/ CallerStep(c)
    \/ \E w \in Workers : WorkerStep(w)
    \/ Command \/ ControlStep

Spec == Init /\ [][Next]_vars

\* Every thread inside a call or running as a worker is scheduled; every job ends
FairSpec ==
    /\ Spec
    /\ \A c \in Callers : WF_vars(CallerStep(c))
    /\ \A w \in Workers : WF_vars(WorkerStep(w))
    /\ WF_vars(ControlStep)

-----------------------------------------------------------------------------
\* Types; the job queue is within its capacity and its semaphores are not negative.
TypeOK ==
    /\ items \in Seq(Jobs) /\ Len(items) \in 0 .. Capacity /\ enabled \in BOOLEAN
    /\ pushed \in 0 .. MaxJobs /\ counted \in 0 .. pushed /\ popped \in 0 .. pushed
    /\ waitingPushers \in 0 .. Cardinality(Callers) /\ pushSemaphore \in Nat
    /\ m_status \in {"Stop", "Run", "Drain"}
    /\ m_idleThreads \in 0 .. Cardinality(Workers) /\ m_semaphore \in Nat
    /\ m_gateCount \in Nat /\ m_numThreadsReady \in Nat
    /\ wk \in [Workers -> [pc : {"none", "begin", "arrive", "gate", "status", "run", "pop",
                                "guard", "job", "idle", "isRunning", "isEmpty", "sleep",
                                "awake", "after", "drain", "drainPop", "drainGuard",
                                "drainJob"},
                           gate : Nat, job : Jobs \cup {NoJob}]]
    /\ cl \in [Callers -> [pc : {"out", "load", "push", "notify", "full", "isFull",
                                "isEnabled", "sleep", "woken"},
                           job : Jobs \cup {NoJob}, seen : Nat, blocking : BOOLEAN]]
    /\ ctl \in [pc : {"out", "spawn", "disable", "wakePushers", "enable", "setDrain",
                      "setRun", "setStop", "interrupt", "waitThreads", "release",
                      "removeAll", "remove", "join"},
                cmd : Commands \cup {"none"}, n : Nat, poppedItems : Nat,
                before : SUBSET Jobs, partial : BOOLEAN]
    /\ added \in 0 .. MaxJobs /\ commands \in 0 .. MaxCommands
    /\ ran \subseteq Jobs /\ cancelled \subseteq Jobs

(* After a start() that spawned only some of its threads none of the        *)
(* following holds.  releaseThreads opens the gate before those threads     *)
(* have come to it.  One that reads m_gateCount after that waits at the     *)
(* gate for ever, and so does start() in join.  If all of them read it      *)
(* before, start() returns, but those that count themselves after the       *)
(* reset stay counted: at the next start, drain or stop m_numThreadsReady   *)
(* may reach the number of threads too early, or be above it without        *)
(* having been equal to it, which is all that waitThreads waits for.        *)

\* All counts are in range, and the assert at the end of worker() holds: a worker that
\* leaves runJobs finds Drain or Stop, although drain() sets the status back to Run
\* once every worker is ready.  Not so after a partial start.
LeavesRunForDrainOrStop ==
    /\ TypeOK
    /\ \A w \in Workers : WorkerAt(w, "after") => m_status # "Run" \/ ctl.partial

\* When drain() or stop() has waited for the workers, every job that was queued or
\* running at the call has run; with the same exception.
WaitsForJobs ==
    ctl.cmd \in {"drain", "stop"} /\ (At("setRun") \/ At("setStop"))
        => ctl.before \subseteq ran \/ ctl.partial

\* start, drain, stop and shutdown return: no idle worker misses the interrupt and none
\* stays behind at the gate; unless a start was partial, after which they may hang.
CommandsReturn == ~At("out") ~> (At("out") \/ ctl.partial)

\* addJob returns: a pusher blocked on a full queue is woken when a job is popped, when
\* the queue is cleared and when it is disabled; unless a start was partial (a command
\* that hangs leaves the pusher on a queue nobody pops).
AddJobReturns ==
    \A c \in Callers : ~CallerAt(c, "out") ~> (CallerAt(c, "out") \/ ctl.partial)

\* A queued job is run, or cancelled by shutdown, unless the pool is stopped: no worker
\* goes to sleep beside it.  With the same exception, and one more: a job pushed while
\* disable() sets the bit is not in the push index, so size() does not count it, a worker
\* that looks for jobs after addJob found no idle thread sleeps, and the job stays.
QueuedJobsRun ==
    \A j \in Jobs :
        (\E i \in 1 .. Len(items) : items[i] = j)
            ~> \/ j \in ran \cup cancelled \/ m_status = "Stop" \/ ctl.partial
               \/ At("out") /\ ~enabled
=============================================================================
