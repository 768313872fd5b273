------------------------------- MODULE Logic --------------------------------
(***************************************************************************)
(* The logic thread: the main loop of ev.cpp, the job queue of Logic (a    *)
(* llarp_threadpool in single process mode) and the timers of timer.cpp.   *)
(* The main loop polls for events, queues a job that ticks the timers and  *)
(* runs jobs until the queue is empty; jobs, timer handlers and event      *)
(* callbacks call Logic again, and so do the threads of the worker pool.   *)
(***************************************************************************)
EXTENDS Integers, Sequences, FiniteSets

CONSTANTS
    Funcs,       \* functions passed to queue_func, each once
    Handlers,    \* timers set by call_later(job), each once
    Capacity,    \* of the job queue (128)
    Timeouts,    \* timeouts of call_later
    MaxElapsed   \* bound: time that passes between two ticks

TickAll == "llarp_timer_tick_all_job"

ASSUME LogicAssumption ==
    /\ TickAll \notin Funcs /\ Funcs \cap Handlers = {} /\ IsFiniteSet(Funcs) /\ IsFiniteSet(Handlers)
    /\ Capacity \in Nat \ {0} /\ MaxElapsed \in Nat \ {0} /\ Timeouts \subseteq Nat

\* The timer of a function that overflowed has the function's name
Timers == Handlers \cup Funcs

VARIABLES
    jobs,       \* the job queue
    func,       \* [Funcs -> {"new", "queued", "deferred", "ran"}]
    timers,     \* the ids in the timers map
    left,       \* [Timers -> what is left of the timeout at m_Now, 0 if none]
    canceled,   \* timers with canceled set
    cleared,    \* timers whose func was set to nullptr
    hit,        \* the list hit of the tick under way
    fired,      \* [Handlers -> times the handler was called]
    removedHit, \* handlers remove() was called for when they were hit already
    removed,    \* handlers remove() was called for
    _run,       \* timers not stopped
    pc,         \* where the main thread is
    ticked      \* the tick of this turn of the main loop is queued

jobVars == <<jobs, func>>
timerVars == <<timers, left, canceled, cleared, hit, _run>>
history == <<fired, removed, removedHit>>
vars == <<jobVars, timerVars, history, pc, ticked>>

Init ==
    /\ jobs = <<>> /\ func = [f \in Funcs |-> "new"]
    /\ timers = {} /\ left = [t \in Timers |-> 0]
    /\ canceled = {} /\ cleared = {} /\ hit = {} /\ _run = TRUE
    /\ fired = [h \in Handlers |-> 0] /\ removed = {} /\ removedHit = {}
    /\ pc = "poll" /\ ticked = FALSE

-----------------------------------------------------------------------------
(* Calls of Logic from callbacks, jobs, handlers and other threads         *)

\* mutant: the queue takes one job more
HasRoom_OneMore == Len(jobs) <= Capacity

\* tryPushBack, as QueueFunc uses it, fails only when the queue is full
HasRoom == Len(jobs) < Capacity

\* queue_func: a job, or on overflow a timer that only has a deferredFunc
queue_func(f) ==
    /\ func[f] = "new"
    /\ IF HasRoom
       THEN /\ jobs' = Append(jobs, f)
            /\ func' = [func EXCEPT ![f] = "queued"]
            /\ UNCHANGED <<timers, left>>
       ELSE /\ timers' = timers \cup {f}
            /\ left' = [left EXCEPT ![f] = 1]
            /\ func' = [func EXCEPT ![f] = "deferred"]
            /\ UNCHANGED jobs
    /\ UNCHANGED <<canceled, cleared, hit, _run, history, pc, ticked>>

\* Callbacks and handlers run where the main thread can call Logic
OnMain == pc \in {"poll", "job", "handler"}

call_later(h, timeout) ==
    /\ OnMain /\ h \notin timers \cup hit /\ fired[h] = 0 /\ h \notin removed
    /\ timers' = timers \cup {h}
    /\ left' = [left EXCEPT ![h] = timeout]
    /\ UNCHANGED <<jobVars, canceled, cleared, hit, _run, history, pc, ticked>>

cancel_call(h) ==
    /\ OnMain /\ h \in timers
    /\ canceled' = canceled \cup {h}
    /\ UNCHANGED <<jobVars, timers, left, cleared, hit, _run, history, pc, ticked>>

\* mutant: the timer is only marked as canceled
remove_call_KeepsFunc(h) ==
    /\ OnMain /\ (h \in timers \/ h \in hit)
    /\ canceled' = IF h \in timers THEN canceled \cup {h} ELSE canceled
    /\ removed' = removed \cup {h}
    /\ removedHit' = IF h \in hit THEN removedHit \cup {h} ELSE removedHit
    /\ UNCHANGED <<jobVars, timers, left, cleared, hit, _run, fired, pc, ticked>>

\* The timer is not found when the tick under way has taken it out of the map
remove_call(h) ==
    /\ OnMain /\ (h \in timers \/ h \in hit)
    /\ IF h \in timers
       THEN canceled' = canceled \cup {h} /\ cleared' = cleared \cup {h}
       ELSE UNCHANGED <<canceled, cleared>>
    /\ removed' = removed \cup {h}
    /\ removedHit' = IF h \in hit THEN removedHit \cup {h} ELSE removedHit
    /\ UNCHANGED <<jobVars, timers, left, hit, _run, fired, pc, ticked>>

\* llarp_main_abort, from another thread
stop_timer ==
    /\ _run
    /\ _run' = FALSE /\ timers' = {}
    /\ UNCHANGED <<jobVars, left, canceled, cleared, hit, history, pc, ticked>>

-----------------------------------------------------------------------------
(* The main loop                                                           *)

\* ev->tick is done and `elapsed' has passed since the last tick: tick_async sets
\* m_Now, then queues the tick as a job
Poll(elapsed) ==
    /\ pc = "poll"
    /\ left' = [t \in Timers |-> IF left[t] > elapsed THEN left[t] - elapsed ELSE 0]
    /\ pc' = "tick"
    /\ UNCHANGED <<jobVars, timers, canceled, cleared, hit, _run, history, ticked>>

\* llarp_threadpool_queue_job, which runs the jobs itself while the queue is full
QueueTick ==
    /\ pc = "tick"
    /\ IF HasRoom
       THEN jobs' = Append(jobs, TickAll) /\ ticked' = TRUE
       ELSE UNCHANGED <<jobs, ticked>>
    /\ pc' = "run"
    /\ UNCHANGED <<func, timerVars, history>>

\* mutant: a turn of the main loop need not run all the jobs
JobsDone_Any == TRUE

\* llarp_threadpool_tick runs jobs as long as there are any
JobsDone == jobs = <<>>

RanJobs ==
    /\ pc = "run" /\ JobsDone
    /\ pc' = IF ticked THEN "poll" ELSE "tick"
    /\ ticked' = FALSE
    /\ UNCHANGED <<jobVars, timerVars, history>>

RunFunc ==
    /\ pc = "run" /\ jobs # <<>> /\ Head(jobs) # TickAll
    /\ jobs' = Tail(jobs)
    /\ func' = [func EXCEPT ![Head(jobs)] = "ran"]
    /\ pc' = "job"
    /\ UNCHANGED <<timerVars, history, ticked>>

\* mutant: only a timer that was canceled is hit
Due_Canceled(t) == t \in canceled

Due(t) == left[t] = 0 \/ t \in canceled

\* mutant: the timers that are hit stay in the map
tick_all_Keeps ==
    /\ pc = "run" /\ jobs # <<>> /\ Head(jobs) = TickAll
    /\ jobs' = Tail(jobs)
    /\ hit' = IF _run THEN {t \in timers : Due(t)} ELSE {}
    /\ pc' = "batch"
    /\ UNCHANGED <<timers, func, left, canceled, cleared, _run, history, ticked>>

\* llarp_timer_tick_all up to its loop over hit
tick_all ==
    /\ pc = "run" /\ jobs # <<>> /\ Head(jobs) = TickAll
    /\ jobs' = Tail(jobs)
    /\ hit' = IF _run THEN {t \in timers : Due(t)} ELSE {}
    /\ timers' = timers \ hit'
    /\ pc' = "batch"
    /\ UNCHANGED <<func, left, canceled, cleared, _run, history, ticked>>

\* A turn of that loop: the map is unordered, so hit is in any order.  A timer with
\* no func is dropped, and exec, which would call deferredFunc, is not reached.
exec(t) ==
    /\ pc = "batch" /\ t \in hit
    /\ hit' = hit \ {t}
    /\ IF t \in Handlers \ cleared
       THEN fired' = [fired EXCEPT ![t] = @ + 1] /\ pc' = "handler"
       ELSE UNCHANGED <<fired, pc>>
    /\ UNCHANGED <<jobVars, timers, left, canceled, cleared, _run, removed, removedHit,
                   ticked>>

Return ==
    /\ \/ pc = "batch" /\ hit = {} /\ pc' = "run"
       \/ pc = "handler" /\ pc' = "batch"
       \/ pc = "job" /\ pc' = "run"
    /\ UNCHANGED <<jobVars, timerVars, history, ticked>>

MainStep ==
    \/ QueueTick \/ RanJobs \/ RunFunc \/ tick_all \/ Return
    \/ \E t \in Timers : exec(t)

Next ==
    \/ \E f \in Funcs : queue_func(f)
    \/ \E h \in Handlers : \/ \E timeout \in Timeouts : call_later(h, timeout)
                           \/ cancel_call(h)
                           \/ remove_call(h)
    \/ stop_timer
    \/ \E elapsed \in 0 .. MaxElapsed : Poll(elapsed)
    \/ MainStep

Spec == Init /\ [][Next]_vars

\* The main thread goes on, and time does: ev->tick waits EV_TICK_INTERVAL unless
\* there are events, so now and then a turn of the loop takes time
FairSpec ==
    /\ Spec
    /\ WF_vars(MainStep)
    /\ WF_vars(\E elapsed \in 0 .. MaxElapsed : Poll(elapsed))
    /\ SF_vars(\E elapsed \in 1 .. MaxElapsed : Poll(elapsed))

-----------------------------------------------------------------------------
(* Properties                                                              *)

\* Types; the job queue is within its capacity and holds at most one tick
TypeOK ==
    /\ jobs \in Seq(Funcs \cup {TickAll}) /\ Len(jobs) <= Capacity
    /\ \A i, j \in 1 .. Len(jobs) : jobs[i] = TickAll /\ jobs[j] = TickAll => i = j
    /\ func \in [Funcs -> {"new", "queued", "deferred", "ran"}]
    /\ timers \subseteq Timers /\ canceled \subseteq Handlers /\ cleared \subseteq canceled
    /\ hit \subseteq Timers /\ removed \subseteq Handlers /\ removedHit \subseteq removed
    /\ left \in [Timers -> Nat] /\ fired \in [Handlers -> Nat]
    /\ _run \in BOOLEAN /\ ticked \in BOOLEAN
    /\ pc \in {"poll", "tick", "run", "job", "batch", "handler"}

\* A timer calls its handler once at most, whatever is called for it meanwhile and
\* although hit timers are called outside the lock: tick_all moves it out of the map.
FiresOnce == \A h \in Handlers : fired[h] <= 1

\* A handler that was removed is not called any more, unless the tick under way
\* had taken its timer out of the map before remove looked for it.
RemovedStaysSilent ==
    [][\A h \in removed \ removedHit : fired'[h] = fired[h]]_vars

\* A timer of call_later(job) fires unless it is removed or the timers are stopped:
\* its time comes, and a full job queue only delays the tick.
HandlersFire ==
    \A h \in Handlers : h \in timers ~> (fired[h] > 0 \/ h \in removed \/ ~_run)

\* A function that queue_func put in the job queue runs, stopped timers or not.
QueuedFuncsRun == \A f \in Funcs : func[f] = "queued" ~> func[f] = "ran"

\* A function that overflows the job queue runs later, as queue_func says.
OverflowRunsLater ==
    \A f \in Funcs : func[f] = "deferred" ~> (func[f] = "ran" \/ ~_run)
=============================================================================
