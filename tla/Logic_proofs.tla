---------------------------- MODULE Logic_proofs ----------------------------
(***************************************************************************)
(* For any functions, timers and queue capacity: a timer calls its handler *)
(* once at most, and a handler that was removed in time is not called.     *)
(***************************************************************************)
EXTENDS Logic, TLAPS

\* The tick of a turn of the main loop is queued when that of the last one has run.
NoTickQueued ==
    pc \in {"poll", "tick"} => \A i \in 1 .. Len(jobs) : jobs[i] # TickAll

\* A timer that is set, or hit and not called yet, has not fired, and no handler
\* is in the map and in the list of those hit at the same time.
NotFiredYet ==
    \A h \in Handlers :
        /\ h \in timers \cup hit => fired[h] = 0
        /\ ~(h \in timers /\ h \in hit)

\* A timer that was removed while it was in the map has lost its func.
RemovedLosesFunc ==
    \A h \in removed \ removedHit : h \in timers \cup hit => h \in cleared

\* TypeOK in three parts: the job queue, the timers and the flags.
JobsType ==
    /\ jobs \in Seq(Funcs \cup {TickAll}) /\ Len(jobs) <= Capacity
    /\ \A i, j \in 1 .. Len(jobs) : jobs[i] = TickAll /\ jobs[j] = TickAll => i = j
TimersType ==
    /\ timers \subseteq Timers /\ canceled \subseteq Handlers /\ cleared \subseteq canceled
    /\ hit \subseteq Timers /\ removed \subseteq Handlers /\ removedHit \subseteq removed
    /\ left \in [Timers -> Nat] /\ fired \in [Handlers -> Nat]
FlagsType ==
    /\ func \in [Funcs -> {"new", "queued", "deferred", "ran"}]
    /\ _run \in BOOLEAN /\ ticked \in BOOLEAN
    /\ pc \in {"poll", "tick", "run", "job", "batch", "handler"}

\* The inductive invariant
IInv == TypeOK /\ NoTickQueued /\ FiresOnce /\ NotFiredYet /\ RemovedLosesFunc

-----------------------------------------------------------------------------
\* A function is queued behind the jobs, and there is no other tick among them.
LEMMA AppendJob ==
    ASSUME TypeOK, HasRoom, NEW j \in Funcs \cup {TickAll},
           j = TickAll => \A i \in 1 .. Len(jobs) : jobs[i] # TickAll,
           jobs' = Append(jobs, j)
    PROVE  /\ jobs' \in Seq(Funcs \cup {TickAll}) /\ Len(jobs') <= Capacity
           /\ \A i, k \in 1 .. Len(jobs') : jobs'[i] = TickAll /\ jobs'[k] = TickAll => i = k
           /\ \A i \in 1 .. Len(jobs') : jobs'[i] = TickAll
                => j = TickAll \/ \E k \in 1 .. Len(jobs) : jobs[k] = TickAll
  <1>1. jobs \in Seq(Funcs \cup {TickAll}) /\ Len(jobs) \in Nat /\ Capacity \in Nat
    BY LogicAssumption DEF TypeOK
  <1>2. jobs' \in Seq(Funcs \cup {TickAll}) /\ Len(jobs') = Len(jobs) + 1
    BY <1>1
  <1>3. /\ \A i \in 1 .. Len(jobs) : jobs'[i] = jobs[i]
        /\ jobs'[Len(jobs) + 1] = j
    BY <1>1
  <1>4. \A i, k \in 1 .. Len(jobs) : jobs[i] = TickAll /\ jobs[k] = TickAll => i = k
    BY DEF TypeOK
  <1>5. Len(jobs') <= Capacity
    BY <1>1, <1>2 DEF HasRoom
  <1>6. \A i \in 1 .. Len(jobs') : i \in 1 .. Len(jobs) \/ i = Len(jobs) + 1
    BY <1>1, <1>2
  <1>7. \A i, k \in 1 .. Len(jobs') : jobs'[i] = TickAll /\ jobs'[k] = TickAll => i = k
    BY <1>3, <1>4, <1>6
  <1>8. \A i \in 1 .. Len(jobs') : jobs'[i] = TickAll
                => j = TickAll \/ \E k \in 1 .. Len(jobs) : jobs[k] = TickAll
    BY <1>3, <1>6
  <1> QED
    BY <1>2, <1>5, <1>7, <1>8

\* A job is taken from the front of the queue.
LEMMA TakeJob ==
    ASSUME TypeOK, jobs # <<>>, jobs' = Tail(jobs)
    PROVE  /\ Head(jobs) \in Funcs \cup {TickAll}
           /\ jobs' \in Seq(Funcs \cup {TickAll}) /\ Len(jobs') <= Capacity
           /\ \A i, k \in 1 .. Len(jobs') : jobs'[i] = TickAll /\ jobs'[k] = TickAll => i = k
  <1>1. jobs \in Seq(Funcs \cup {TickAll}) /\ Len(jobs) \in Nat /\ Capacity \in Nat
    BY LogicAssumption DEF TypeOK
  <1>2. /\ jobs' \in Seq(Funcs \cup {TickAll}) /\ Len(jobs') = Len(jobs) - 1
        /\ \A i \in 1 .. Len(jobs') : jobs'[i] = jobs[i + 1] /\ i + 1 \in 1 .. Len(jobs)
    BY <1>1
  <1>3. Len(jobs') <= Capacity
    BY <1>1, <1>2 DEF TypeOK
  <1>4. \A i, k \in 1 .. Len(jobs) : jobs[i] = TickAll /\ jobs[k] = TickAll => i = k
    BY DEF TypeOK
  <1>5. \A i, k \in 1 .. Len(jobs') : jobs'[i] = TickAll /\ jobs'[k] = TickAll => i = k
    BY <1>1, <1>2, <1>4
  <1> QED
    BY <1>1, <1>2, <1>3, <1>5

\* TypeOK is the conjunction of its parts.
LEMMA TypeParts == (TypeOK <=> JobsType /\ TimersType /\ FlagsType)
                   /\ (TypeOK' <=> JobsType' /\ TimersType' /\ FlagsType')
  BY DEF TypeOK, JobsType, TimersType, FlagsType

\* The job queue keeps its type, and a tick is queued when there is none.
LEMMA NextJobs ==
    ASSUME TypeOK, NoTickQueued, [Next]_vars
    PROVE  JobsType' /\ NoTickQueued'
  <1>1. ASSUME NEW f \in Funcs, queue_func(f)
        PROVE  JobsType' /\ NoTickQueued'
    <2>1. CASE HasRoom
      <3>1. jobs' = Append(jobs, f) /\ UNCHANGED pc
        BY <1>1, <2>1 DEF queue_func
      <3>2. f # TickAll
        BY LogicAssumption
      <3> QED
        BY <2>1, <3>1, <3>2, AppendJob DEF NoTickQueued, JobsType
    <2>2. CASE ~HasRoom
      BY <1>1, <2>2 DEF queue_func, TypeOK, JobsType, NoTickQueued
    <2> QED
      BY <2>1, <2>2
  <1>2. CASE QueueTick
    <2>1. CASE HasRoom
      <3>1. jobs' = Append(jobs, TickAll) /\ pc' = "run" /\ pc = "tick"
        BY <1>2, <2>1 DEF QueueTick
      <3> QED
        BY <2>1, <3>1, AppendJob DEF NoTickQueued, JobsType
    <2>2. CASE ~HasRoom
      BY <1>2, <2>2 DEF QueueTick, TypeOK, JobsType, NoTickQueued
    <2> QED
      BY <2>1, <2>2
  <1>3. CASE RanJobs
    BY <1>3 DEF RanJobs, JobsDone, jobVars, TypeOK, JobsType, NoTickQueued
  <1>4. CASE RunFunc \/ tick_all
    <2>1. jobs # <<>> /\ jobs' = Tail(jobs) /\ pc' \notin {"poll", "tick"}
      BY <1>4 DEF RunFunc, tick_all
    <2> QED
      BY <2>1, TakeJob DEF JobsType, NoTickQueued
  <1>5. CASE \/ \E h \in Handlers : \/ \E timeout \in Timeouts : call_later(h, timeout)
                                    \/ cancel_call(h)
                                    \/ remove_call(h)
             \/ stop_timer
             \/ \E elapsed \in 0 .. MaxElapsed : Poll(elapsed)
             \/ \E t \in Timers : exec(t)
             \/ Return
             \/ UNCHANGED vars
    <2>1. UNCHANGED jobs /\ (pc' \in {"poll", "tick"} => pc \in {"poll", "tick"})
      BY <1>5 DEF call_later, cancel_call, remove_call, stop_timer, Poll, exec, Return, vars,
                  jobVars
    <2> QED
      BY <2>1 DEF TypeOK, JobsType, NoTickQueued
  <1> QED
    BY <1>1, <1>2, <1>3, <1>4, <1>5 DEF Next, MainStep

\* The timers keep their types.
LEMMA NextTimersType ==
    ASSUME TypeOK, [Next]_vars
    PROVE  TimersType'
  <1> USE DEF TypeOK, TimersType, history, timerVars
  <1>1. ASSUME NEW f \in Funcs, queue_func(f)
        PROVE  TimersType'
    <2>1. f \in Timers /\ timers' \subseteq Timers
      BY <1>1 DEF queue_func, Timers
    <2>2. left' = left \/ left' = [left EXCEPT ![f] = 1]
      BY <1>1, Zenon DEF queue_func
    <2>3. left' \in [Timers -> Nat]
      BY <2>1, <2>2
    <2>4. UNCHANGED <<canceled, cleared, hit, fired, removed, removedHit>>
      BY <1>1 DEF queue_func
    <2> QED
      BY <2>1, <2>3, <2>4
  <1>2. ASSUME NEW h \in Handlers, NEW timeout \in Timeouts, call_later(h, timeout)
        PROVE  TimersType'
    <2>1. h \in Timers /\ timeout \in Nat
      BY LogicAssumption DEF Timers
    <2> QED
      BY <1>2, <2>1 DEF call_later
  <1>3. ASSUME NEW h \in Handlers, cancel_call(h) \/ remove_call(h)
        PROVE  TimersType'
    BY <1>3 DEF cancel_call, remove_call
  <1>4. ASSUME NEW elapsed \in 0 .. MaxElapsed, Poll(elapsed)
        PROVE  TimersType'
    BY <1>4, LogicAssumption DEF Poll
  <1>5. CASE stop_timer
    BY <1>5 DEF stop_timer
  <1>6. CASE tick_all
    BY <1>6 DEF tick_all
  <1>7. ASSUME NEW t \in Timers, exec(t)
        PROVE  TimersType'
    BY <1>7 DEF exec
  <1>8. CASE QueueTick \/ RanJobs \/ RunFunc \/ Return \/ UNCHANGED vars
    BY <1>8 DEF QueueTick, RanJobs, RunFunc, Return, vars
  <1> QED
    BY <1>1, <1>2, <1>3, <1>4, <1>5, <1>6, <1>7, <1>8 DEF Next, MainStep

\* So do the flags, the states of the functions and the place of the main thread.
LEMMA NextFlags ==
    ASSUME TypeOK, [Next]_vars
    PROVE  FlagsType'
  <1>1. _run' \in BOOLEAN /\ ticked' \in BOOLEAN
    <2>1. /\ _run' = _run \/ _run' = FALSE
          /\ ticked' = ticked \/ ticked' = TRUE \/ ticked' = FALSE
      BY DEF Next, MainStep, queue_func, call_later, cancel_call, remove_call, stop_timer, Poll,
             QueueTick, RanJobs, RunFunc, tick_all, exec, Return, vars, timerVars
    <2> QED
      BY <2>1, Zenon DEF TypeOK
  <1>2. pc' \in {"poll", "tick", "run", "job", "batch", "handler"}
    BY DEF Next, MainStep, queue_func, call_later, cancel_call, remove_call, stop_timer, Poll,
           QueueTick, RanJobs, RunFunc, tick_all, exec, Return, vars, TypeOK
  <1>3. func' \in [Funcs -> {"new", "queued", "deferred", "ran"}]
    <2>1. CASE RunFunc
      BY <2>1 DEF RunFunc, TypeOK
    <2>2. ASSUME NEW f \in Funcs, queue_func(f)
          PROVE  func' \in [Funcs -> {"new", "queued", "deferred", "ran"}]
      <3>1. \/ func' = [func EXCEPT ![f] = "queued"]
            \/ func' = [func EXCEPT ![f] = "deferred"]
        BY <2>2, Zenon DEF queue_func
      <3> QED
        BY <3>1 DEF TypeOK
    <2>3. CASE ~RunFunc /\ ~\E f \in Funcs : queue_func(f)
      <3>1. UNCHANGED func
        BY <2>3 DEF Next, MainStep, call_later, cancel_call, remove_call, stop_timer, Poll,
                    QueueTick, RanJobs, tick_all, exec, Return, vars, jobVars
      <3> QED
        BY <3>1 DEF TypeOK
    <2> QED
      BY <2>1, <2>2, <2>3
  <1> QED
    BY <1>1, <1>2, <1>3 DEF FlagsType

\* Timers are called once, and removed ones keep silent.
LEMMA NextTimers ==
    ASSUME IInv, [Next]_vars
    PROVE  FiresOnce' /\ NotFiredYet' /\ RemovedLosesFunc'
  <1> USE DEF IInv
  <1>1. ASSUME NEW f \in Funcs, queue_func(f)
        PROVE  FiresOnce' /\ NotFiredYet' /\ RemovedLosesFunc'
    <2>1. \A h \in Handlers : h \in timers' <=> h \in timers
      BY <1>1, LogicAssumption DEF queue_func
    <2>2. UNCHANGED <<hit, fired, removed, removedHit, cleared>>
      BY <1>1 DEF queue_func, history
    <2>3. removed \subseteq Handlers
      BY DEF TypeOK
    <2> QED
      BY <2>1, <2>2, <2>3 DEF FiresOnce, NotFiredYet, RemovedLosesFunc
  <1>2. ASSUME NEW g \in Handlers, NEW timeout \in Timeouts, call_later(g, timeout)
        PROVE  FiresOnce' /\ NotFiredYet' /\ RemovedLosesFunc'
    BY <1>2 DEF call_later, history, FiresOnce, NotFiredYet, RemovedLosesFunc
  <1>3. ASSUME NEW g \in Handlers, cancel_call(g)
        PROVE  FiresOnce' /\ NotFiredYet' /\ RemovedLosesFunc'
    BY <1>3 DEF cancel_call, history, FiresOnce, NotFiredYet, RemovedLosesFunc
  <1>4. ASSUME NEW g \in Handlers, remove_call(g)
        PROVE  FiresOnce' /\ NotFiredYet' /\ RemovedLosesFunc'
    BY <1>4 DEF remove_call, FiresOnce, NotFiredYet, RemovedLosesFunc
  <1>5. CASE stop_timer
    BY <1>5 DEF stop_timer, history, FiresOnce, NotFiredYet, RemovedLosesFunc
  <1>6. CASE tick_all
    BY <1>6 DEF tick_all, history, FiresOnce, NotFiredYet, RemovedLosesFunc
  <1>7. ASSUME NEW t \in Timers, exec(t)
        PROVE  FiresOnce' /\ NotFiredYet' /\ RemovedLosesFunc'
    <2>1. CASE t \in Handlers \ cleared
      <3>1. /\ fired' = [fired EXCEPT ![t] = @ + 1] /\ hit' = hit \ {t} /\ t \in hit
            /\ UNCHANGED <<timers, cleared, removed, removedHit>>
        BY <1>7, <2>1 DEF exec
      <3>2. fired \in [Handlers -> Nat] /\ fired[t] = 0 /\ t \notin timers
        BY <2>1, <3>1 DEF TypeOK, NotFiredYet
      <3>3. fired'[t] = 1 /\ \A h \in Handlers \ {t} : fired'[h] = fired[h]
        BY <2>1, <3>1, <3>2
      <3> QED
        BY <3>1, <3>2, <3>3 DEF FiresOnce, NotFiredYet, RemovedLosesFunc
    <2>2. CASE t \notin Handlers \ cleared
      BY <1>7, <2>2 DEF exec, FiresOnce, NotFiredYet, RemovedLosesFunc
    <2> QED
      BY <2>1, <2>2
  <1>8. CASE \/ \E elapsed \in 0 .. MaxElapsed : Poll(elapsed)
             \/ QueueTick \/ RanJobs \/ RunFunc \/ Return \/ UNCHANGED vars
    <2>1. UNCHANGED <<timers, hit, cleared, fired, removed, removedHit>>
      BY <1>8 DEF Poll, QueueTick, RanJobs, RunFunc, Return, vars, timerVars, history
    <2> QED
      BY <2>1 DEF FiresOnce, NotFiredYet, RemovedLosesFunc
  <1> QED
    BY <1>1, <1>2, <1>3, <1>4, <1>5, <1>6, <1>7, <1>8 DEF Next, MainStep

\* No timer is set and no job queued when the loop starts.
LEMMA InitIInv == Init => IInv
  <1> SUFFICES ASSUME Init PROVE IInv
    OBVIOUS
  <1>1. JobsType
    BY LogicAssumption DEF Init, JobsType
  <1>2. TimersType
    BY DEF Init, TimersType
  <1>3. FlagsType
    <2>1. _run \in BOOLEAN /\ ticked \in BOOLEAN
      BY Zenon DEF Init
    <2> QED
      BY <2>1 DEF Init, FlagsType
  <1>4. NoTickQueued /\ FiresOnce /\ NotFiredYet /\ RemovedLosesFunc
    BY DEF Init, NoTickQueued, FiresOnce, NotFiredYet, RemovedLosesFunc
  <1> QED
    BY <1>1, <1>2, <1>3, <1>4, TypeParts DEF IInv

\* Every call of Logic and every step of the main loop preserves the invariant.
LEMMA NextIInv == IInv /\ [Next]_vars => IInv'
  BY NextJobs, NextTimersType, NextFlags, NextTimers, TypeParts DEF IInv

\* A handler whose timer lost its func is not called.
LEMMA StepSilent ==
    IInv /\ [Next]_vars => [\A h \in removed \ removedHit : fired'[h] = fired[h]]_vars
  <1> SUFFICES ASSUME IInv, [Next]_vars, NEW h \in removed \ removedHit
               PROVE  fired'[h] = fired[h]
    OBVIOUS
  <1>1. ASSUME NEW t \in Timers, exec(t)
        PROVE  fired'[h] = fired[h]
    <2>1. t # h \/ h \in cleared
      BY <1>1 DEF exec, IInv, RemovedLosesFunc
    <2> QED
      BY <1>1, <2>1 DEF exec, IInv, TypeOK
  <1>2. CASE ~\E t \in Timers : exec(t)
    BY <1>2 DEF Next, MainStep, queue_func, call_later, cancel_call, remove_call, stop_timer,
                Poll, QueueTick, RanJobs, RunFunc, tick_all, Return, vars, history
  <1> QED
    BY <1>1, <1>2

-----------------------------------------------------------------------------
\* The queue of the logic thread is within its capacity and holds one tick at most.
THEOREM TypeCorrect == Spec => []TypeOK
  BY InitIInv, NextIInv, PTL DEF Spec, IInv

\* A timer of llarp_timer_call_later calls its handler once at most.
THEOREM CalledOnce == Spec => []FiresOnce
  BY InitIInv, NextIInv, PTL DEF Spec, IInv

\* A handler removed by llarp_timer_remove_job is not called, unless the tick under
\* way had taken its timer out of the map.
THEOREM RemovedNotCalled == Spec => RemovedStaysSilent
  BY InitIInv, NextIInv, StepSilent, PTL DEF Spec, RemovedStaysSilent
=============================================================================
