-------------------------- MODULE ThreadPool_proofs --------------------------
(***************************************************************************)
(* Proofs about ThreadPool, for any number of workers and callers, when no *)
(* spawn fails: drain() and stop() wait for the jobs that were queued, and *)
(* the assertion at the end of worker() holds.                             *)
(***************************************************************************)
EXTENDS ThreadPool, TLAPS

-----------------------------------------------------------------------------
(* The inductive invariant                                                 *)

\* Where a worker is between the gate and its leaving runJobs, in drainQueue,
\* counted as idle, and with a job in hand
IdlePcs == {"isRunning", "isEmpty", "sleep", "awake"}
RunPcs == {"status", "run", "pop", "guard", "job", "idle"} \cup IdlePcs
DrainPcs == {"drain", "drainPop", "drainGuard", "drainJob"}
HoldPcs == {"guard", "job", "drainGuard", "drainJob"}

\* Where a caller is counted as waiting, and with a job it has not pushed
WaitPcs == {"isFull", "isEnabled", "sleep", "woken"}
OfferPcs == {"load", "push", "full"} \cup WaitPcs

\* The controlling thread, and the status it has set
ControlInv ==
    \/ ctl.cmd = "none" /\ ctl.pc = "out" /\ m_status \in {"Stop", "Run"}
    \/ /\ ctl.cmd = "start"
       /\ \/ ctl.pc \in {"spawn", "waitThreads", "enable", "setRun"} /\ m_status = "Stop"
          \/ ctl.pc = "release" /\ m_status = "Run"
    \/ /\ ctl.cmd = "drain"
       /\ \/ ctl.pc \in {"setDrain", "release"} /\ m_status = "Run"
          \/ ctl.pc \in {"interrupt", "waitThreads", "setRun"} /\ m_status = "Drain"
    \/ /\ ctl.cmd = "stop"
       /\ \/ ctl.pc \in {"disable", "wakePushers", "setDrain"} /\ m_status = "Run"
          \/ ctl.pc \in {"interrupt", "waitThreads", "setStop"} /\ m_status = "Drain"
          \/ ctl.pc \in {"release", "join"} /\ m_status = "Stop"
    \/ /\ ctl.cmd = "shutdown"
       /\ \/ ctl.pc \in {"disable", "wakePushers", "setStop"} /\ m_status = "Run"
          \/ ctl.pc \in {"interrupt", "removeAll", "remove", "join"} /\ m_status = "Stop"
    \/ ctl.cmd = "disable" /\ ctl.pc \in {"disable", "wakePushers"} /\ m_status \in {"Stop", "Run"}
    \/ ctl.cmd = "enable" /\ ctl.pc = "enable" /\ m_status \in {"Stop", "Run"}

\* Its phases: no worker is there; workers come to the gate for the first time;
\* all are at the gate; they run; they drain and come back to the gate; they leave
Down == m_status = "Stop" /\ ctl.cmd \in {"none", "disable", "enable"}
Starting == ctl.cmd = "start" /\ ctl.pc \in {"spawn", "waitThreads"}
Gated ==
    \/ ctl.pc \in {"setRun", "release"}
    \/ ctl.cmd = "stop" /\ ctl.pc = "setStop"
    \/ ctl.cmd = "start" /\ ctl.pc = "enable"
Running == m_status = "Run" /\ ctl.pc # "release"
Draining == m_status = "Drain" /\ ctl.pc \in {"interrupt", "waitThreads"}
Leaving == m_status = "Stop" /\ ctl.pc \in {"interrupt", "removeAll", "remove", "join"}

\* A worker that counted itself ready, and one that may pass the gate
Ready(w) == wk[w].pc = "gate" /\ wk[w].gate = m_gateCount
Released(w) == wk[w].pc = "gate" /\ wk[w].gate # m_gateCount

\* Where a worker may be in a phase
Placed(w) ==
    /\ Down => wk[w].pc = "none"
    /\ Starting => wk[w].pc \in {"none", "begin", "arrive"} \/ Ready(w)
    /\ Starting /\ ctl.pc = "waitThreads" => wk[w].pc # "none"
    /\ Gated => Ready(w)
    /\ Running => wk[w].pc \in RunPcs \/ Released(w)
    /\ Draining => wk[w].pc \in RunPcs \cup DrainPcs \cup {"after", "arrive", "gate"}
    /\ Leaving => wk[w].pc \in RunPcs \cup {"after", "none"} \/ Released(w)
    /\ wk[w].pc \notin {"none", "begin", "gate"} => wk[w].gate = m_gateCount

PlacesInv == \A w \in Workers : Placed(w)

ReadyWorkers == {w \in Workers : Ready(w)}
IdleWorkers == {w \in Workers : wk[w].pc \in IdlePcs}
WaitingCallers == {c \in Callers : cl[c].pc \in WaitPcs}
Offering == {c \in Callers : cl[c].pc \in OfferPcs}

\* The counts are those of the threads that counted themselves
CountInv ==
    /\ m_numThreadsReady = Cardinality(ReadyWorkers)
    /\ m_idleThreads = Cardinality(IdleWorkers)
    /\ waitingPushers = Cardinality(WaitingCallers)
    /\ pushed + Cardinality(Offering) <= added
    /\ popped + Len(items) = pushed

ItemSet == {items[i] : i \in 1 .. Len(items)}

\* Jobs are numbered as they are added; no two threads offer the same one, and none
\* that is queued
JobInv ==
    /\ \A w \in Workers :
         IF wk[w].pc \in HoldPcs THEN wk[w].job \in 1 .. added ELSE wk[w].job = NoJob
    /\ ItemSet \subseteq 1 .. added /\ ctl.before \subseteq 1 .. added
    /\ \A c \in Offering : cl[c].job \in 1 .. added /\ cl[c].job \notin ItemSet \cup ctl.before
    /\ \A c \in Offering, w \in Workers : cl[c].job # wk[w].job
    /\ \A c, d \in Offering : c # d => cl[c].job # cl[d].job

Waited == ctl.cmd \in {"drain", "stop"}

\* The jobs drain() and stop() wait for have run, or are queued or in hand, and none is
\* queued once a worker has found the queue empty
BeforeInv ==
    Waited =>
      /\ \A j \in ctl.before : j \in ran \/ j \in ItemSet \/ \E w \in Workers : wk[w].job = j
      /\ (\E w \in Workers : wk[w].pc = "arrive" \/ Ready(w)) => ctl.before \cap ItemSet = {}

IInv == TypeOK /\ ControlInv /\ PlacesInv /\ CountInv /\ JobInv /\ BeforeInv

-----------------------------------------------------------------------------
(* What a thread sets of its own state                                     *)

WorkerPcs ==
    {"none", "begin", "arrive", "gate", "status", "run", "pop", "guard", "job", "idle",
     "isRunning", "isEmpty", "sleep", "awake", "after", "drain", "drainPop", "drainGuard",
     "drainJob"}
WorkerType == [pc : WorkerPcs, gate : Nat, job : Jobs \cup {NoJob}]

CallerPcs ==
    {"out", "load", "push", "notify", "full", "isFull", "isEnabled", "sleep", "woken"}
CallerType == [pc : CallerPcs, job : Jobs \cup {NoJob}, seen : Nat, blocking : BOOLEAN]

ControlPcs ==
    {"out", "spawn", "disable", "wakePushers", "enable", "setDrain", "setRun", "setStop",
     "interrupt", "waitThreads", "release", "removeAll", "remove", "join"}
ControlType ==
    [pc : ControlPcs, cmd : Commands \cup {"none"}, n : Nat, poppedItems : Nat, before : SUBSET Jobs,
     partial : BOOLEAN]

\* Worker w goes from where it is to label
Moves(w, label) ==
    /\ wk' \in [Workers -> WorkerType] /\ wk'[w].pc = label
    /\ \A u \in Workers : u # w => wk'[u] = wk[u]

\* ... and keeps its gate and its job
Walks(w, label) == Moves(w, label) /\ wk'[w].gate = wk[w].gate /\ wk'[w].job = wk[w].job

LEMMA OneTaken ==
  ASSUME NEW n \in Nat, NEW k \in Nat, NEW p \in Nat, n > 0, n <= k
  PROVE  n - 1 \in 0 .. k /\ p + 1 \in Nat /\ (p + 1) + (n - 1) = p + n
  OBVIOUS

LEMMA WorkerSets ==
  ASSUME NEW f \in [Workers -> WorkerType], NEW w \in Workers, NEW x \in WorkerType
  PROVE  /\ [f EXCEPT ![w] = x] \in [Workers -> WorkerType] /\ [f EXCEPT ![w] = x][w] = x
         /\ \A u \in Workers : u # w => [f EXCEPT ![w] = x][u] = f[u]
  BY Zenon

LEMMA WorkerFields ==
  ASSUME NEW x \in WorkerType
  PROVE  /\ \A p \in WorkerPcs :
              /\ [x EXCEPT !.pc = p] \in WorkerType /\ [x EXCEPT !.pc = p].pc = p
              /\ [x EXCEPT !.pc = p].gate = x.gate /\ [x EXCEPT !.pc = p].job = x.job
         /\ \A g \in Nat :
              /\ [x EXCEPT !.gate = g] \in WorkerType /\ [x EXCEPT !.gate = g].pc = x.pc
              /\ [x EXCEPT !.gate = g].gate = g /\ [x EXCEPT !.gate = g].job = x.job
         /\ \A j \in Jobs \cup {NoJob} :
              /\ [x EXCEPT !.job = j] \in WorkerType /\ [x EXCEPT !.job = j].pc = x.pc
              /\ [x EXCEPT !.job = j].gate = x.gate /\ [x EXCEPT !.job = j].job = j
<1>1. ASSUME NEW p \in WorkerPcs
      PROVE  /\ [x EXCEPT !.pc = p] \in WorkerType /\ [x EXCEPT !.pc = p].pc = p
             /\ [x EXCEPT !.pc = p].gate = x.gate /\ [x EXCEPT !.pc = p].job = x.job
  BY DEF WorkerType
<1>2. ASSUME NEW g \in Nat
      PROVE  /\ [x EXCEPT !.gate = g] \in WorkerType /\ [x EXCEPT !.gate = g].pc = x.pc
             /\ [x EXCEPT !.gate = g].gate = g /\ [x EXCEPT !.gate = g].job = x.job
  BY DEF WorkerType
<1>3. ASSUME NEW j \in Jobs \cup {NoJob}
      PROVE  /\ [x EXCEPT !.job = j] \in WorkerType /\ [x EXCEPT !.job = j].pc = x.pc
             /\ [x EXCEPT !.job = j].gate = x.gate /\ [x EXCEPT !.job = j].job = j
  BY DEF WorkerType
<1>4. QED
  BY <1>1, <1>2, <1>3, Zenon

\* From here on a leaf is for Zenon, unless it names another prover.
USE ZenonT(30)

LEMMA WorkerGate ==
  ASSUME wk \in [Workers -> WorkerType], NEW w \in Workers, NEW p \in WorkerPcs, NEW v \in Nat,
         wk' = [wk EXCEPT ![w].pc = p, ![w].gate = v]
  PROVE  Moves(w, p) /\ wk'[w].gate = v /\ wk'[w].job = wk[w].job
<1> DEFINE y == [wk[w] EXCEPT !.pc = p]
<1> DEFINE h == [wk EXCEPT ![w] = y]
<1> DEFINE z == [h[w] EXCEPT !.gate = v]
<1> DEFINE k == [h EXCEPT ![w] = z]
<1>1. wk' = k
  OBVIOUS
<1>2. wk[w] \in WorkerType
  OBVIOUS
<1>3. y \in WorkerType /\ y.pc = p /\ y.gate = wk[w].gate /\ y.job = wk[w].job
  BY <1>2, WorkerFields
<1> HIDE DEF y
<1>4. h \in [Workers -> WorkerType] /\ h[w] = y /\ \A u \in Workers : u # w => h[u] = wk[u]
  BY <1>3, WorkerSets
<1> HIDE DEF h
<1>5. h[w] \in WorkerType
  BY <1>3, <1>4
<1>6. z \in WorkerType /\ z.pc = h[w].pc /\ z.gate = v /\ z.job = h[w].job
  BY <1>5, WorkerFields
<1> HIDE DEF z
<1>7. k \in [Workers -> WorkerType] /\ k[w] = z /\ \A u \in Workers : u # w => k[u] = h[u]
  BY <1>4, <1>6, WorkerSets
<1> HIDE DEF k
<1>8. k[w].pc = p /\ k[w].gate = v /\ k[w].job = wk[w].job /\ \A u \in Workers : u # w => k[u] = wk[u]
  BY <1>3, <1>4, <1>6, <1>7
<1>9. QED
  BY <1>1, <1>7, <1>8 DEF Moves

LEMMA WorkerJob ==
  ASSUME wk \in [Workers -> WorkerType], NEW w \in Workers, NEW p \in WorkerPcs,
         NEW v \in Jobs \cup {NoJob},
         wk' = [wk EXCEPT ![w].pc = p, ![w].job = v]
  PROVE  Moves(w, p) /\ wk'[w].job = v /\ wk'[w].gate = wk[w].gate
<1> DEFINE y == [wk[w] EXCEPT !.pc = p]
<1> DEFINE h == [wk EXCEPT ![w] = y]
<1> DEFINE z == [h[w] EXCEPT !.job = v]
<1> DEFINE k == [h EXCEPT ![w] = z]
<1>1. wk' = k
  OBVIOUS
<1>2. wk[w] \in WorkerType
  OBVIOUS
<1>3. y \in WorkerType /\ y.pc = p /\ y.gate = wk[w].gate /\ y.job = wk[w].job
  BY <1>2, WorkerFields
<1> HIDE DEF y
<1>4. h \in [Workers -> WorkerType] /\ h[w] = y /\ \A u \in Workers : u # w => h[u] = wk[u]
  BY <1>3, WorkerSets
<1> HIDE DEF h
<1>5. h[w] \in WorkerType
  BY <1>3, <1>4
<1>6. z \in WorkerType /\ z.pc = h[w].pc /\ z.job = v /\ z.gate = h[w].gate
  BY <1>5, WorkerFields
<1> HIDE DEF z
<1>7. k \in [Workers -> WorkerType] /\ k[w] = z /\ \A u \in Workers : u # w => k[u] = h[u]
  BY <1>4, <1>6, WorkerSets
<1> HIDE DEF k
<1>8. k[w].pc = p /\ k[w].job = v /\ k[w].gate = wk[w].gate /\ \A u \in Workers : u # w => k[u] = wk[u]
  BY <1>3, <1>4, <1>6, <1>7
<1>9. QED
  BY <1>1, <1>7, <1>8 DEF Moves

LEMMA NoThreadTyped == NoThread \in WorkerType /\ NoThread.pc = "none" /\ NoThread.job = NoJob
  BY SMTT(30) DEF NoThread, WorkerType, WorkerPcs

\* Jobs are numbered from 1
LEMMA NoJobNumber ==
  ASSUME TypeOK, NEW j \in 1 .. added
  PROVE  j # NoJob /\ j \in Jobs
<1>1. added \in 0 .. MaxJobs /\ MaxJobs \in Nat
  BY PoolAssumption DEF TypeOK
<1>2. QED
  BY <1>1, SMTT(30) DEF NoJob, Jobs

LEMMA WorkersTyped == ASSUME TypeOK PROVE wk \in [Workers -> WorkerType]
  BY DEF TypeOK, WorkerType, WorkerPcs

LEMMA WorkerWalks ==
  ASSUME TypeOK, NEW w \in Workers, NEW label \in WorkerPcs, label # "none", WorkerGoto(w, label)
  PROVE  Walks(w, label)
<1>1. wk \in [Workers -> WorkerType] /\ wk[w] \in WorkerType
  BY WorkersTyped
<1>2. wk' = [wk EXCEPT ![w] = [wk[w] EXCEPT !.pc = label]]
  BY DEF WorkerGoto
<1>3. /\ [wk[w] EXCEPT !.pc = label] \in WorkerType /\ [wk[w] EXCEPT !.pc = label].pc = label
      /\ [wk[w] EXCEPT !.pc = label].gate = wk[w].gate /\ [wk[w] EXCEPT !.pc = label].job = wk[w].job
  BY <1>1, WorkerFields
<1>4. QED
  BY <1>1, <1>2, <1>3, WorkerSets DEF Walks, Moves

LEMMA WorkerLeaves ==
  ASSUME TypeOK, NEW w \in Workers, WorkerGoto(w, "none")
  PROVE  Moves(w, "none") /\ wk'[w].job = NoJob
<1>1. wk' = [wk EXCEPT ![w] = NoThread]
  BY DEF WorkerGoto
<1>2. QED
  BY <1>1, WorkersTyped, WorkerSets, NoThreadTyped DEF Moves

-----------------------------------------------------------------------------
(* The steps of a worker                                                   *)

WorkInv == PlacesInv /\ JobInv /\ BeforeInv

\* What a worker always leaves alone, and what it leaves alone but when it pops or runs a job
Stays == UNCHANGED <<m_status, m_gateCount, ctl, cl, added>>
Still == Stays /\ UNCHANGED <<items, ran>>

LEMMA WalkPlaces ==
  ASSUME PlacesInv, NEW w \in Workers, NEW label, Moves(w, label), Stays, Placed(w)'
  PROVE  PlacesInv'
<1>1. ASSUME NEW u \in Workers
      PROVE  Placed(u)'
  <2>1. CASE u = w
    BY <2>1
  <2>2. CASE u # w
    <3>1. wk'[u] = wk[u] /\ Placed(u)
      BY <2>2 DEF Moves, PlacesInv
    <3>2. QED
      BY <3>1 DEF Placed, Stays, Down, Starting, Gated, Running, Draining, Leaving, Ready,
         Released
  <2>3. QED
    BY <2>1, <2>2
<1>2. QED
  BY <1>1 DEF PlacesInv

\* A worker that keeps its job, or has none, and does not come to the gate
LEMMA WalkJobs ==
  ASSUME JobInv, NEW w \in Workers, NEW label, Moves(w, label), Still,
         wk'[w].job = wk[w].job, label \in HoldPcs <=> wk[w].pc \in HoldPcs
  PROVE  JobInv'
<1>1. \A u \in Workers : wk'[u].job = wk[u].job /\ (wk'[u].pc \in HoldPcs <=> wk[u].pc \in HoldPcs)
  BY DEF Moves
<1>2. ItemSet' = ItemSet /\ Offering' = Offering
  BY DEF ItemSet, Offering, Still, Stays
<1>3. \A u \in Workers :
        IF wk'[u].pc \in HoldPcs THEN wk'[u].job \in 1 .. added' ELSE wk'[u].job = NoJob
  BY <1>1 DEF JobInv, Still, Stays
<1>4. ctl' = ctl /\ cl' = cl /\ added' = added
  BY DEF Still, Stays
<1>5. ASSUME NEW c \in Offering', NEW u \in Workers
      PROVE  cl'[c].job # wk'[u].job
  <2>1. cl[c].job # wk[u].job
    BY <1>2 DEF JobInv
  <2>2. QED
    BY <2>1, <1>1, <1>4, SMTT(30)
<1>6. QED
  BY <1>2, <1>3, <1>4, <1>5 DEF JobInv

LEMMA WalkBefore ==
  ASSUME BeforeInv, NEW w \in Workers, NEW label, Moves(w, label), Still, wk'[w].job = wk[w].job,
         label = "arrive" \/ Ready(w)' => ~Waited \/ wk[w].pc = "arrive" \/ ItemSet = {}
  PROVE  BeforeInv'
<1>1. \A u \in Workers : wk'[u].job = wk[u].job
  BY DEF Moves
<1>2. ItemSet' = ItemSet /\ ctl' = ctl /\ ran' = ran /\ Waited' = Waited
  BY DEF ItemSet, Still, Stays, Waited
<1>3. ASSUME Waited, NEW u \in Workers, wk'[u].pc = "arrive" \/ Ready(u)'
      PROVE  ctl.before \cap ItemSet = {}
  <2>1. CASE u = w
    <3>1. ItemSet = {} \/ wk[w].pc = "arrive"
      BY <1>3, <2>1 DEF Moves
    <3>2. QED
      BY <3>1, <1>3, SMTT(30) DEF BeforeInv
  <2>2. CASE u # w
    BY <1>3, <2>2 DEF Moves, Ready, Still, Stays, BeforeInv
  <2>3. QED
    BY <2>1, <2>2
<1>4. QED
  BY <1>1, <1>2, <1>3 DEF BeforeInv

\* Inside runJobs
LEMMA RunPlaced ==
  ASSUME NEW w \in Workers, Placed(w), NEW label \in RunPcs, Moves(w, label), Stays,
         wk[w].pc \in RunPcs, wk'[w].gate = wk[w].gate
  PROVE  Placed(w)'
<1>1. /\ wk'[w].pc = label
      /\ (Down' <=> Down) /\ (Starting' <=> Starting) /\ (Gated' <=> Gated) /\ (Running' <=> Running)
      /\ (Draining' <=> Draining) /\ (Leaving' <=> Leaving) /\ m_gateCount' = m_gateCount
  BY DEF Moves, Stays, Down, Starting, Gated, Running, Draining, Leaving
<1>2. ~Down /\ ~Starting /\ ~Gated /\ wk[w].gate = m_gateCount
  BY SMTT(30) DEF Placed, RunPcs, IdlePcs, Ready
<1>3. QED
  BY <1>1, <1>2 DEF Placed, RunPcs, IdlePcs

LEMMA RunWalk ==
  ASSUME WorkInv, NEW w \in Workers, NEW label \in RunPcs \ HoldPcs, Walks(w, label), Still,
         wk[w].pc \in RunPcs \ HoldPcs
  PROVE  WorkInv'
<1>1. Placed(w)'
  BY RunPlaced DEF WorkInv, PlacesInv, Walks, Still
<1>2. label # "arrive" /\ label # "gate"
  BY SMTT(30) DEF RunPcs, IdlePcs
<1>3. ~Ready(w)' /\ wk'[w].pc = label
  BY <1>2 DEF Ready, Walks, Moves
<1>4. PlacesInv'
  BY <1>1, WalkPlaces DEF WorkInv, Walks, Still
<1>5. JobInv'
  BY WalkJobs DEF WorkInv, Walks
<1>6. BeforeInv'
  BY <1>2, <1>3, WalkBefore DEF WorkInv, Walks
<1>7. QED
  BY <1>4, <1>5, <1>6 DEF WorkInv

-----------------------------------------------------------------------------
(* Phases                                                                  *)

LEMMA PhaseIsOne ==
  ASSUME ControlInv
  PROVE  /\ Down \/ Starting \/ Gated \/ Running \/ Draining \/ Leaving
         /\ Down => ~Starting /\ ~Gated /\ ~Running /\ ~Draining /\ ~Leaving
         /\ Starting => ~Gated /\ ~Running /\ ~Draining /\ ~Leaving /\ ~Waited
         /\ Gated => ~Running /\ ~Draining /\ ~Leaving
         /\ Running => ~Draining /\ ~Leaving /\ m_status = "Run"
         /\ Draining => ~Leaving /\ m_status = "Drain"
         /\ Leaving => m_status = "Stop"
  BY SMTT(30) DEF ControlInv, Down, Starting, Gated, Running, Draining, Leaving, Waited

LEMMA StaysPhases ==
  ASSUME Stays
  PROVE  /\ (Down' <=> Down) /\ (Starting' <=> Starting) /\ (Gated' <=> Gated) /\ (Running' <=> Running)
         /\ (Draining' <=> Draining) /\ (Leaving' <=> Leaving) /\ m_gateCount' = m_gateCount /\ ctl' = ctl
  BY DEF Stays, Down, Starting, Gated, Running, Draining, Leaving

\* Where a worker may go in a phase
LEMMA DrainPlaced ==
  ASSUME ControlInv, Draining, Stays, NEW w \in Workers,
         NEW label \in RunPcs \cup DrainPcs \cup {"after", "arrive", "gate"}, Moves(w, label),
         wk'[w].gate = m_gateCount
  PROVE  Placed(w)'
<1>1. ~Down' /\ ~Starting' /\ ~Gated' /\ ~Running' /\ ~Leaving'
  BY PhaseIsOne, StaysPhases
<1>2. wk'[w].pc = label /\ m_gateCount' = m_gateCount
  BY StaysPhases DEF Moves
<1>3. QED
  BY <1>1, <1>2 DEF Placed

LEMMA LeavePlaced ==
  ASSUME ControlInv, Leaving, Stays, NEW w \in Workers,
         NEW label \in RunPcs \cup {"after", "none"}, Moves(w, label),
         label # "none" => wk'[w].gate = m_gateCount
  PROVE  Placed(w)'
<1>1. ~Down' /\ ~Starting' /\ ~Gated' /\ ~Running' /\ ~Draining'
  BY PhaseIsOne, StaysPhases
<1>2. wk'[w].pc = label /\ m_gateCount' = m_gateCount
  BY StaysPhases DEF Moves
<1>3. QED
  BY <1>1, <1>2 DEF Placed

LEMMA StartPlaced ==
  ASSUME ControlInv, Starting, Stays, NEW w \in Workers, NEW label \in {"arrive", "gate"},
         Moves(w, label), wk'[w].gate = m_gateCount
  PROVE  Placed(w)'
<1>1. label # "none" /\ (label = "gate" => Ready(w)') /\ (label # "gate" => label = "arrive")
  BY StaysPhases DEF Moves, Ready
<1>2. ~Down' /\ ~Gated' /\ ~Running' /\ ~Draining' /\ ~Leaving'
  BY PhaseIsOne, StaysPhases
<1>3. wk'[w].pc = label /\ m_gateCount' = m_gateCount
  BY StaysPhases DEF Moves
<1>4. QED
  BY <1>1, <1>2, <1>3 DEF Placed

LEMMA RunningPlaced ==
  ASSUME ControlInv, Running, Stays, NEW w \in Workers, NEW label \in RunPcs, Moves(w, label),
         wk'[w].gate = m_gateCount
  PROVE  Placed(w)'
<1>1. ~Down' /\ ~Starting' /\ ~Gated' /\ ~Draining' /\ ~Leaving'
  BY PhaseIsOne, StaysPhases
<1>2. wk'[w].pc = label /\ m_gateCount' = m_gateCount
  BY StaysPhases DEF Moves
<1>3. QED
  BY <1>1, <1>2 DEF Placed

\* What the place of a worker says of the phase
LEMMA PlaceTells ==
  ASSUME ControlInv, NEW w \in Workers, Placed(w)
  PROVE  /\ wk[w].pc = "begin" => Starting
         /\ wk[w].pc = "arrive" => Starting \/ Draining
         /\ Released(w) => Running \/ Draining \/ Leaving
         /\ wk[w].pc \in RunPcs => Running \/ Draining \/ Leaving
         /\ wk[w].pc = "after" => Draining \/ Leaving
         /\ wk[w].pc \in DrainPcs => Draining
         /\ wk[w].pc \in RunPcs \cup DrainPcs \cup {"after", "arrive"} => wk[w].gate = m_gateCount
  BY PhaseIsOne, SMTT(30) DEF Placed, Ready, Released, RunPcs, IdlePcs, DrainPcs

\* A worker on its way that has no job
LEMMA WalkKeeps ==
  ASSUME WorkInv, Still, NEW w \in Workers, NEW label, Moves(w, label), Placed(w)',
         wk'[w].job = wk[w].job, label \notin HoldPcs, wk[w].pc \notin HoldPcs,
         label = "arrive" \/ Ready(w)' => ~Waited \/ wk[w].pc = "arrive" \/ ItemSet = {}
  PROVE  WorkInv'
<1>1. PlacesInv'
  BY WalkPlaces DEF WorkInv, Still
<1>2. JobInv'
  BY WalkJobs DEF WorkInv
<1>3. BeforeInv'
  BY WalkBefore DEF WorkInv
<1>4. QED
  BY <1>1, <1>2, <1>3 DEF WorkInv

-----------------------------------------------------------------------------
(* The initial states, and what the invariant says of the properties       *)

LEMMA InitFacts ==
  ASSUME Init, Cardinality(Workers) \in Nat, Cardinality(Callers) \in Nat, Cardinality({}) = 0
  PROVE  TypeOK /\ ControlInv /\ PlacesInv /\ CountInv /\ JobInv /\ BeforeInv
<1>1. /\ items = <<>> /\ enabled = FALSE /\ pushed = 0 /\ counted = 0 /\ popped = 0
      /\ waitingPushers = 0 /\ pushSemaphore = 0 /\ m_status = "Stop" /\ m_idleThreads = 0
      /\ m_semaphore = 0 /\ m_gateCount = 0 /\ m_numThreadsReady = 0
      /\ added = 0 /\ commands = 0 /\ ran = {} /\ cancelled = {}
      /\ Jobs = 1 .. MaxJobs /\ MaxJobs \in Nat /\ MaxCommands \in Nat /\ Capacity \in Nat
  BY PoolAssumption DEF Init, Jobs
<1>2. ctl \in ControlType /\ ctl.pc = "out" /\ ctl.cmd = "none" /\ ctl.before = {}
  <2>1. "out" \in ControlPcs /\ "none" \in Commands \cup {"none"} /\ {} \in SUBSET Jobs /\ 0 \in Nat
    BY SMTT(30) DEF ControlPcs
  <2>2. QED
    BY <2>1, SMTT(30) DEF ControlType, Init
<1>3. /\ wk \in [Workers -> WorkerType]
      /\ \A w \in Workers : wk[w].pc = "none" /\ wk[w].job = NoJob
  BY NoThreadTyped DEF Init
<1>4. /\ cl \in [Callers -> CallerType] /\ \A c \in Callers : cl[c].pc = "out"
  <2>1. Outside \in CallerType /\ Outside.pc = "out"
    BY SMTT(30) DEF Outside, CallerType, CallerPcs
  <2>2. QED
    BY <2>1 DEF Init
<1>5. /\ "none" \notin HoldPcs /\ "out" \notin OfferPcs /\ "out" \notin WaitPcs /\ "none" \notin IdlePcs
      /\ "none" # "gate"
  BY SMTT(30) DEF HoldPcs, OfferPcs, WaitPcs, IdlePcs
<1>6. ControlInv /\ Down /\ ~Waited
  BY <1>1, <1>2, SMTT(30) DEF ControlInv, Down, Waited
<1>7. PlacesInv
  <2>1. ~Starting /\ ~Gated /\ ~Running /\ ~Draining /\ ~Leaving
    BY <1>6, PhaseIsOne
  <2>2. QED
    BY <1>3, <2>1 DEF PlacesInv, Placed
<1>8. ReadyWorkers = {} /\ IdleWorkers = {} /\ WaitingCallers = {} /\ Offering = {}
  BY <1>3, <1>4, <1>5 DEF ReadyWorkers, IdleWorkers, WaitingCallers, Offering, Ready
<1>9. CountInv
  <2>1. Len(items) = 0
    BY <1>1, SMTT(30)
  <2>2. QED
    BY <1>1, <1>8, <2>1, SMTT(30) DEF CountInv
<1>10. JobInv
  <2>1. ItemSet = {}
    BY <1>1, SMTT(30) DEF ItemSet
  <2>2. QED
    BY <1>2, <1>3, <1>5, <1>8, <2>1 DEF JobInv
<1>11. TypeOK
  <2>1. /\ items \in Seq(Jobs) /\ Len(items) \in 0 .. Capacity
        /\ pushed \in 0 .. MaxJobs /\ counted \in 0 .. pushed /\ popped \in 0 .. pushed
        /\ waitingPushers \in 0 .. Cardinality(Callers) /\ pushSemaphore \in Nat
        /\ m_idleThreads \in 0 .. Cardinality(Workers) /\ m_semaphore \in Nat
        /\ m_gateCount \in Nat /\ m_numThreadsReady \in Nat
        /\ added \in 0 .. MaxJobs /\ commands \in 0 .. MaxCommands
    BY <1>1, SMTT(30)
  <2>2. /\ enabled \in BOOLEAN /\ m_status \in {"Stop", "Run", "Drain"}
        /\ ran \subseteq Jobs /\ cancelled \subseteq Jobs
    BY <1>1
  <2>3. QED
    BY <1>2, <1>3, <1>4, <2>1, <2>2
    DEF TypeOK, WorkerType, WorkerPcs, CallerType, CallerPcs, ControlType, ControlPcs
<1>12. QED
  BY <1>6, <1>7, <1>9, <1>10, <1>11 DEF BeforeInv

LEMMA AssertionFollows == IInv => LeavesRunForDrainOrStop
<1>1. ASSUME IInv, NEW w \in Workers, WorkerAt(w, "after")
      PROVE  m_status # "Run"
  <2>1. Placed(w) /\ wk[w].pc = "after" /\ ControlInv
    BY <1>1 DEF IInv, PlacesInv, WorkerAt
  <2>2. Draining \/ Leaving
    BY <2>1, PlaceTells
  <2>3. QED
    BY <2>2, SMTT(30) DEF Draining, Leaving
<1>2. QED
  BY <1>1 DEF LeavesRunForDrainOrStop, IInv

LEMMA WaitFollows == IInv => WaitsForJobs
<1>1. ASSUME IInv, Waited, ctl.pc = "setRun" \/ ctl.pc = "setStop", NEW j \in ctl.before
      PROVE  j \in ran
  <2>1. Gated
    BY <1>1, SMTT(30) DEF IInv, ControlInv, Gated, Waited
  <2>2. \A w \in Workers : Ready(w)
    BY <1>1, <2>1 DEF IInv, PlacesInv, Placed
  <2>3. ctl.before \cap ItemSet = {}
    BY <1>1, <2>2, PoolAssumption DEF IInv, BeforeInv
  <2>4. \A w \in Workers : wk[w].job = NoJob
    <3>1. "gate" \notin HoldPcs
      BY SMTT(30) DEF HoldPcs
    <3>2. QED
      BY <1>1, <2>2, <3>1 DEF IInv, JobInv, Ready
  <2>5. j # NoJob
    BY <1>1, NoJobNumber DEF IInv, JobInv
  <2>6. j \in ran \/ j \in ItemSet \/ \E w \in Workers : wk[w].job = j
    BY <1>1 DEF IInv, BeforeInv
  <2>7. QED
    BY <2>3, <2>4, <2>5, <2>6
<1>2. QED
  BY <1>1 DEF WaitsForJobs, Waited, At
-----------------------------------------------------------------------------
(* Actions of a worker                                                     *)

LEMMA WorkerPlaced ==
  ASSUME WorkInv, NEW w \in Workers
  PROVE  Placed(w)
  BY DEF WorkInv, PlacesInv

LEMMA BeginKeeps ==
  ASSUME TypeOK, ControlInv, WorkInv, NEW w \in Workers, WorkerBegin(w)
  PROVE  WorkInv' /\ Moves(w, "arrive")
<1>1. /\ Moves(w, "arrive") /\ wk'[w].gate = m_gateCount /\ wk'[w].job = wk[w].job
      /\ wk[w].pc = "begin" /\ Still
  <2>1. m_gateCount \in Nat /\ "arrive" \in WorkerPcs /\ wk \in [Workers -> WorkerType]
    BY WorkersTyped DEF TypeOK, WorkerPcs
  <2>2. QED
    BY <2>1, WorkerGate DEF WorkerBegin, WorkerAt, Still, Stays, queue, pool
<1>2. Starting /\ ~Waited
  BY <1>1, WorkerPlaced, PlaceTells, PhaseIsOne
<1>3. Placed(w)'
  BY <1>1, <1>2, StartPlaced DEF Still
<1>4. "begin" \notin HoldPcs /\ "arrive" \notin HoldPcs
  BY SMTT(30) DEF HoldPcs
<1>5. QED
  BY <1>1, <1>2, <1>3, <1>4, WalkKeeps

LEMMA ArriveKeeps ==
  ASSUME TypeOK, ControlInv, WorkInv, NEW w \in Workers, Arrive(w)
  PROVE  WorkInv' /\ Walks(w, "gate")
<1>1. Walks(w, "gate") /\ wk[w].pc = "arrive" /\ Still
  <2>1. "gate" \in WorkerPcs /\ "gate" # "none"
    BY SMTT(30) DEF WorkerPcs
  <2>2. QED
    BY <2>1, WorkerWalks DEF Arrive, WorkerAt, Still, Stays, queue
<1>2. (Starting \/ Draining) /\ wk[w].gate = m_gateCount
  BY <1>1, WorkerPlaced, PlaceTells
<1>3. Placed(w)'
  BY <1>1, <1>2, StartPlaced, DrainPlaced DEF Still, Walks
<1>4. "gate" \notin HoldPcs /\ "arrive" \notin HoldPcs
  BY SMTT(30) DEF HoldPcs
<1>5. QED
  BY <1>1, <1>3, <1>4, WalkKeeps DEF Walks

LEMMA PassGateKeeps ==
  ASSUME TypeOK, ControlInv, WorkInv, NEW w \in Workers, PassGate(w)
  PROVE  WorkInv' /\ Moves(w, "status")
<1>1. /\ Moves(w, "status") /\ wk'[w].gate = m_gateCount /\ wk'[w].job = wk[w].job
      /\ wk[w].pc = "gate" /\ Released(w) /\ Still
  <2>1. m_gateCount \in Nat /\ "status" \in WorkerPcs /\ wk \in [Workers -> WorkerType]
    BY WorkersTyped DEF TypeOK, WorkerPcs
  <2>2. QED
    BY <2>1, WorkerGate DEF PassGate, WorkerAt, Still, Stays, queue, pool, Released
<1>2. Running \/ Draining \/ Leaving
  BY <1>1, WorkerPlaced, PlaceTells
<1>3. "status" \in RunPcs /\ "gate" \notin HoldPcs /\ "status" \notin HoldPcs
  BY SMTT(30) DEF HoldPcs, RunPcs
<1>4. Placed(w)'
  BY <1>1, <1>2, <1>3, RunningPlaced, DrainPlaced, LeavePlaced DEF Still
<1>5. ~Ready(w)'
  BY <1>1 DEF Ready, Moves
<1>6. QED
  BY <1>1, <1>3, <1>4, <1>5, WalkKeeps

\* A worker that has no job and leaves runJobs, goes on in drainQueue, or ends
LEMMA DrainGoto ==
  ASSUME TypeOK, ControlInv, WorkInv, Still, NEW w \in Workers, Draining,
         wk[w].pc \in {"status", "run", "after", "drain"},
         NEW label \in {"after", "drain", "drainPop"},
         WorkerGoto(w, label)
  PROVE  WorkInv' /\ Moves(w, label)
<1>1. /\ label \in WorkerPcs /\ label \in RunPcs \cup DrainPcs \cup {"after", "arrive", "gate"}
      /\ label # "none" /\ label # "gate" /\ label # "arrive" /\ label \notin HoldPcs
      /\ wk[w].pc \notin HoldPcs /\ wk[w].pc \in RunPcs \cup DrainPcs \cup {"after", "arrive"}
  BY SMTT(30) DEF WorkerPcs, RunPcs, DrainPcs, HoldPcs
<1>2. Walks(w, label)
  BY <1>1, WorkerWalks
<1>3. wk[w].gate = m_gateCount
  BY <1>1, WorkerPlaced, PlaceTells
<1>4. Placed(w)' /\ ~Ready(w)'
  BY <1>1, <1>2, <1>3, DrainPlaced DEF Still, Walks, Moves, Ready
<1>5. QED
  BY <1>1, <1>2, <1>4, WalkKeeps DEF Walks

LEMMA LeaveGoto ==
  ASSUME TypeOK, ControlInv, WorkInv, Still, NEW w \in Workers, Leaving,
         wk[w].pc \in {"status", "run", "after"}, NEW label \in {"after", "none"},
         WorkerGoto(w, label)
  PROVE  WorkInv' /\ Moves(w, label)
<1>1. /\ label \in WorkerPcs /\ label \in RunPcs \cup {"after", "none"}
      /\ label # "gate" /\ label # "arrive" /\ label \notin HoldPcs
      /\ wk[w].pc \notin HoldPcs /\ wk[w].pc \in RunPcs \cup DrainPcs \cup {"after", "arrive"}
  BY SMTT(30) DEF WorkerPcs, RunPcs, HoldPcs
<1>2. wk[w].gate = m_gateCount /\ wk[w].job = NoJob
  BY <1>1, WorkerPlaced, PlaceTells DEF WorkInv, JobInv
<1>3. Moves(w, label) /\ wk'[w].job = wk[w].job /\ (label # "none" => wk'[w].gate = m_gateCount)
  BY <1>1, <1>2, WorkerWalks, WorkerLeaves DEF Walks
<1>4. Placed(w)' /\ ~Ready(w)'
  BY <1>1, <1>3, LeavePlaced DEF Still, Moves, Ready
<1>5. QED
  BY <1>1, <1>3, <1>4, WalkKeeps

\* A worker goes on in runJobs
LEMMA RunGoto ==
  ASSUME TypeOK, WorkInv, Still, NEW w \in Workers, wk[w].pc \in RunPcs \ HoldPcs,
         NEW label \in RunPcs \ HoldPcs, WorkerGoto(w, label)
  PROVE  WorkInv' /\ Moves(w, label)
<1>1. label \in WorkerPcs /\ label # "none"
  BY SMTT(30) DEF WorkerPcs, RunPcs, IdlePcs
<1>2. Walks(w, label)
  BY <1>1, WorkerWalks
<1>3. QED
  BY <1>2, RunWalk DEF Walks

LEMMA LoadStatusKeeps ==
  ASSUME TypeOK, ControlInv, WorkInv, NEW w \in Workers, LoadStatus(w)
  PROVE  /\ WorkInv'
         /\ \E label \in {"run", "pop", "after", "drain", "drainPop", "none"} : Moves(w, label)
<1>1. Still /\ Placed(w) /\ m_status \in {"Stop", "Run", "Drain"}
  BY WorkerPlaced DEF LoadStatus, Still, Stays, queue, pool, TypeOK
<1>2. /\ "status" \in RunPcs \ HoldPcs /\ "run" \in RunPcs \ HoldPcs /\ "pop" \in RunPcs \ HoldPcs
      /\ "drain" \in DrainPcs
  BY SMTT(30) DEF RunPcs, HoldPcs, DrainPcs
<1>3. ASSUME wk[w].pc \in RunPcs \/ wk[w].pc = "after", m_status # "Run"
      PROVE  (Draining /\ m_status = "Drain") \/ (Leaving /\ m_status = "Stop")
  BY <1>1, <1>3, PlaceTells, PhaseIsOne
<1>4. ASSUME wk[w].pc \in {"status", "after"}, m_status # "Run", WorkerGoto(w, AfterRun)
      PROVE  WorkInv' /\ \E label \in {"drain", "none"} : Moves(w, label)
  <2>1. (Draining /\ m_status = "Drain") \/ (Leaving /\ m_status = "Stop")
    BY <1>2, <1>3, <1>4
  <2>2. CASE Draining /\ m_status = "Drain"
    BY <1>1, <1>4, <2>2, DrainGoto DEF AfterRun
  <2>3. CASE Leaving /\ m_status = "Stop"
    BY <1>1, <1>4, <2>3, LeaveGoto DEF AfterRun
  <2>4. QED
    BY <2>1, <2>2, <2>3
<1>5. CASE WorkerAt(w, "status") /\ WorkerGoto(w, IF m_status = "Run" THEN "run" ELSE AfterRun)
  <2>1. CASE m_status = "Run"
    BY <1>1, <1>2, <1>5, <2>1, RunGoto DEF WorkerAt
  <2>2. CASE m_status # "Run"
    BY <1>4, <1>5, <2>2 DEF WorkerAt
  <2>3. QED
    BY <2>1, <2>2
<1>6. CASE WorkerAt(w, "run") /\ WorkerGoto(w, IF m_status = "Run" THEN "pop" ELSE "after")
  <2>1. CASE m_status = "Run"
    BY <1>1, <1>2, <1>6, <2>1, RunGoto DEF WorkerAt
  <2>2. CASE m_status # "Run"
    <3>1. wk[w].pc = "run" /\ WorkerGoto(w, "after") /\ (Draining \/ Leaving)
      BY <1>2, <1>3, <1>6, <2>2 DEF WorkerAt
    <3>2. QED
      BY <1>1, <3>1, DrainGoto, LeaveGoto
  <2>3. QED
    BY <2>1, <2>2
<1>7. CASE WorkerAt(w, "after") /\ WorkerGoto(w, AfterRun)
  <2>1. wk[w].pc = "after" /\ m_status # "Run"
    BY <1>1, <1>7, PlaceTells, PhaseIsOne DEF WorkerAt
  <2>2. QED
    BY <1>4, <1>7, <2>1
<1>8. CASE WorkerAt(w, "drain") /\ WorkerGoto(w, IF m_status = "Drain" THEN "drainPop" ELSE "arrive")
  <2>1. wk[w].pc = "drain" /\ Draining /\ m_status = "Drain"
    BY <1>1, <1>2, <1>8, PlaceTells, PhaseIsOne DEF WorkerAt
  <2>2. QED
    BY <1>1, <1>8, <2>1, DrainGoto
<1>9. QED
  BY <1>5, <1>6, <1>7, <1>8 DEF LoadStatus
-----------------------------------------------------------------------------
(* A worker takes a job, runs it, and waits for one                        *)

LEMMA PopItems ==
  ASSUME TypeOK, items # <<>>, items' = Tail(items)
  PROVE  /\ Head(items) \in ItemSet /\ Head(items) \in Jobs /\ ItemSet' \subseteq ItemSet
         /\ \A j \in ItemSet : j = Head(items) \/ j \in ItemSet'
<1>1. items \in Seq(Jobs)
  BY DEF TypeOK
<1>2. /\ Head(items) = items[1] /\ 1 \in 1 .. Len(items) /\ Len(items) \in Nat
      /\ Len(items') = Len(items) - 1 /\ \A i \in 1 .. Len(items') : items'[i] = items[i + 1]
  BY <1>1, SMTT(30)
<1>3. Head(items) \in ItemSet /\ Head(items) \in Jobs
  BY <1>1, <1>2, SMTT(30) DEF ItemSet
<1>4. ASSUME NEW i \in 1 .. Len(items')
      PROVE  items'[i] \in ItemSet
  <2>1. i + 1 \in 1 .. Len(items) /\ items'[i] = items[i + 1]
    BY <1>2, SMTT(30)
  <2>2. QED
    BY <2>1 DEF ItemSet
<1>5. ASSUME NEW i \in 1 .. Len(items), i # 1
      PROVE  items[i] \in ItemSet'
  <2>1. i - 1 \in 1 .. Len(items') /\ items'[i - 1] = items[i]
    BY <1>2, <1>5, SMTT(30)
  <2>2. QED
    BY <2>1 DEF ItemSet
<1>6. ItemSet' \subseteq ItemSet
  BY <1>4 DEF ItemSet
<1>7. ASSUME NEW j \in ItemSet
      PROVE  j = Head(items) \/ j \in ItemSet'
  <2>1. PICK i \in 1 .. Len(items) : j = items[i]
    BY DEF ItemSet
  <2>2. QED
    BY <1>2, <1>5, <2>1
<1>8. QED
  BY <1>3, <1>6, <1>7

LEMMA ItemsLeft ==
  ASSUME items \in Seq(Jobs), Len(items) \in 0 .. Capacity, popped \in Nat,
         \/ items # <<>> /\ items' = Tail(items) /\ popped' = popped + 1
         \/ items' = items /\ popped' = popped
  PROVE  /\ items' \in Seq(Jobs) /\ Len(items') \in 0 .. Capacity /\ popped' \in Nat
         /\ popped' + Len(items') = popped + Len(items)
<1>1. Capacity \in Nat
  BY PoolAssumption
<1>2. CASE items # <<>> /\ items' = Tail(items) /\ popped' = popped + 1
  <2>1. items' \in Seq(Jobs) /\ Len(items) \in Nat /\ Len(items) > 0 /\ Len(items') = Len(items) - 1
    BY <1>2, SMTT(30)
  <2>2. Len(items) <= Capacity
    BY <1>1, SMTT(30)
  <2>3. QED
    BY <1>1, <1>2, <2>1, <2>2, OneTaken
<1>3. CASE items' = items /\ popped' = popped
  BY <1>3
<1>4. QED
  BY <1>2, <1>3

LEMMA TakeJobs ==
  ASSUME TypeOK, JobInv, Stays, NEW w \in Workers, NEW label \in HoldPcs, Moves(w, label),
         items # <<>>, items' = Tail(items), wk'[w].job = Head(items)
  PROVE  JobInv'
<1>1. /\ Offering' = Offering /\ ctl' = ctl /\ cl' = cl /\ added' = added
      /\ Head(items) \in ItemSet /\ ItemSet' \subseteq ItemSet
  BY PopItems DEF Offering, Stays
<1>2. Head(items) \in 1 .. added /\ ItemSet' \subseteq 1 .. added
  BY <1>1 DEF JobInv
<1>3. ASSUME NEW u \in Workers
      PROVE  IF wk'[u].pc \in HoldPcs THEN wk'[u].job \in 1 .. added ELSE wk'[u].job = NoJob
  BY <1>2 DEF JobInv, Moves
<1>4. ASSUME NEW c \in Offering
      PROVE  cl[c].job \in 1 .. added /\ cl[c].job \notin ItemSet' \cup ctl.before
  BY <1>1 DEF JobInv
<1>5. ASSUME NEW c \in Offering, NEW u \in Workers
      PROVE  cl[c].job # wk'[u].job
  <2>1. CASE u = w
    BY <1>1, <2>1 DEF JobInv
  <2>2. CASE u # w
    BY <2>2 DEF JobInv, Moves
  <2>3. QED
    BY <2>1, <2>2
<1>6. QED
  BY <1>1, <1>2, <1>3, <1>4, <1>5 DEF JobInv

LEMMA TakeBefore ==
  ASSUME TypeOK, JobInv, BeforeInv, Stays, ran' = ran, NEW w \in Workers, NEW label \in HoldPcs,
         Moves(w, label), items # <<>>, items' = Tail(items), wk'[w].job = Head(items),
         wk[w].job = NoJob
  PROVE  BeforeInv'
<1>1. /\ (Waited' <=> Waited) /\ ctl' = ctl /\ ItemSet' \subseteq ItemSet
      /\ \A j \in ItemSet : j = Head(items) \/ j \in ItemSet'
  BY PopItems DEF Stays, Waited
<1>2. ASSUME Waited, NEW j \in ctl.before
      PROVE  j \in ran \/ j \in ItemSet' \/ \E u \in Workers : wk'[u].job = j
  <2>1. CASE j \in ran \/ j \in ItemSet
    BY <1>1, <2>1
  <2>2. ASSUME NEW u \in Workers, wk[u].job = j
        PROVE  wk'[u].job = j
    <3>1. j # NoJob
      BY NoJobNumber DEF JobInv
    <3>2. QED
      BY <2>2, <3>1 DEF Moves
  <2>3. QED
    BY <1>2, <2>1, <2>2 DEF BeforeInv
<1>3. label # "arrive" /\ label # "gate"
  BY SMTT(30) DEF HoldPcs
<1>4. ASSUME Waited, NEW u \in Workers, wk'[u].pc = "arrive" \/ Ready(u)'
      PROVE  ctl.before \cap ItemSet = {}
  <2>1. wk[u].pc = "arrive" \/ Ready(u)
    BY <1>3, <1>4 DEF Moves, Ready, Stays
  <2>2. QED
    BY <1>4, <2>1 DEF BeforeInv
<1>5. ASSUME ctl.before \cap ItemSet = {}
      PROVE  ctl.before \cap ItemSet' = {}
  BY <1>1, <1>5, SMTT(30)
<1>6. QED
  BY <1>1, <1>2, <1>4, <1>5 DEF BeforeInv

\* Inside runJobs or drainQueue
LEMMA StepPlaced ==
  ASSUME ControlInv, WorkInv, Stays, NEW w \in Workers, NEW label, Moves(w, label),
         wk'[w].gate = wk[w].gate,
         (wk[w].pc \in RunPcs /\ label \in RunPcs) \/ (wk[w].pc \in DrainPcs /\ label \in DrainPcs)
  PROVE  PlacesInv'
<1>1. Placed(w)
  BY WorkerPlaced
<1>2. CASE wk[w].pc \in RunPcs /\ label \in RunPcs
  BY <1>1, <1>2, RunPlaced, WalkPlaces DEF WorkInv
<1>3. CASE wk[w].pc \in DrainPcs /\ label \in DrainPcs
  <2>1. Draining /\ wk[w].gate = m_gateCount
    BY <1>1, <1>3, PlaceTells
  <2>2. label \in RunPcs \cup DrainPcs \cup {"after", "arrive", "gate"}
    BY <1>3
  <2>3. QED
    BY <2>1, <2>2, DrainPlaced, WalkPlaces DEF WorkInv
<1>4. QED
  BY <1>2, <1>3

\* Where a step with a job in hand leads
JobWay(from, to) ==
    \/ from = "pop" /\ to = "guard"
    \/ from = "guard" /\ to = "job"
    \/ from = "job" /\ to = "run"
    \/ from = "drainPop" /\ to = "drainGuard"
    \/ from = "drainGuard" /\ to = "drainJob"
    \/ from = "drainJob" /\ to = "drain"

LEMMA JobWays ==
  ASSUME NEW from, NEW to, JobWay(from, to)
  PROVE  /\ (from \in RunPcs /\ to \in RunPcs) \/ (from \in DrainPcs /\ to \in DrainPcs)
         /\ to \in WorkerPcs /\ to # "arrive" /\ to # "gate" /\ to # "none"
  BY SMTT(30) DEF JobWay, RunPcs, DrainPcs, WorkerPcs, IdlePcs

LEMMA PopKeeps ==
  ASSUME TypeOK, ControlInv, WorkInv, NEW w \in Workers, Pop(w)
  PROVE  WorkInv' /\ \E label \in {"guard", "drainGuard", "idle", "arrive"} : Moves(w, label)
<1>1. /\ Stays /\ ran' = ran /\ wk \in [Workers -> WorkerType]
      /\ wk[w].pc = "pop" \/ wk[w].pc = "drainPop"
  BY WorkersTyped DEF Pop, Stays, pool
<1>2. wk[w].job = NoJob
  <2>1. wk[w].pc \notin HoldPcs
    BY <1>1, SMTT(30) DEF HoldPcs
  <2>2. QED
    BY <2>1 DEF WorkInv, JobInv
<1>3. ASSUME NEW label \in {"guard", "drainGuard"}, JobWay(wk[w].pc, label), items # <<>>,
             items' = Tail(items), wk' = [wk EXCEPT ![w].pc = label, ![w].job = Head(items)]
      PROVE  WorkInv' /\ Moves(w, label)
  <2>1. Head(items) \in Jobs \cup {NoJob} /\ label \in WorkerPcs
    BY <1>3, PopItems, JobWays
  <2>2. Moves(w, label) /\ wk'[w].job = Head(items) /\ wk'[w].gate = wk[w].gate
    BY <1>1, <1>3, <2>1, WorkerJob
  <2>3. PlacesInv'
    BY <1>1, <1>3, <2>2, JobWays, StepPlaced
  <2>4. label \in HoldPcs
    BY SMTT(30) DEF HoldPcs
  <2>5. JobInv'
    BY <1>1, <1>3, <2>2, <2>4, TakeJobs DEF WorkInv
  <2>6. BeforeInv'
    BY <1>1, <1>2, <1>3, <2>2, <2>4, TakeBefore DEF WorkInv
  <2>7. QED
    BY <2>2, <2>3, <2>5, <2>6 DEF WorkInv
<1>4. CASE items # <<>>
  <2>1. CASE wk[w].pc = "pop"
    <3>1. items' = Tail(items) /\ wk' = [wk EXCEPT ![w].pc = "guard", ![w].job = Head(items)]
      BY <1>4, <2>1, SMTT(30) DEF Pop, WorkerAt
    <3>2. JobWay(wk[w].pc, "guard")
      BY <2>1, SMTT(30) DEF JobWay
    <3>3. QED
      BY <1>3, <1>4, <3>1, <3>2
  <2>2. CASE wk[w].pc = "drainPop"
    <3>1. items' = Tail(items) /\ wk' = [wk EXCEPT ![w].pc = "drainGuard", ![w].job = Head(items)]
      BY <1>4, <2>2 DEF Pop, WorkerAt
    <3>2. JobWay(wk[w].pc, "drainGuard")
      BY <2>2, SMTT(30) DEF JobWay
    <3>3. QED
      BY <1>3, <1>4, <3>1, <3>2
  <2>3. QED
    BY <1>1, <2>1, <2>2
<1>5. CASE items = <<>>
  <2>1. Still
    BY <1>1, <1>5 DEF Pop, Still
  <2>2. CASE wk[w].pc = "pop"
    <3>1. WorkerGoto(w, "idle")
      BY <1>5, <2>2, SMTT(30) DEF Pop, WorkerAt
    <3>2. "pop" \in RunPcs \ HoldPcs /\ "idle" \in RunPcs \ HoldPcs
      BY SMTT(30) DEF RunPcs, HoldPcs
    <3>3. QED
      BY <2>1, <2>2, <3>1, <3>2, RunGoto
  <2>3. CASE wk[w].pc = "drainPop"
    <3>1. WorkerGoto(w, "arrive")
      BY <1>5, <2>3 DEF Pop, WorkerAt
    <3>2. /\ "drainPop" \in DrainPcs \ HoldPcs /\ "arrive" \notin HoldPcs
          /\ "arrive" \in WorkerPcs /\ "arrive" # "none"
      BY SMTT(30) DEF DrainPcs, HoldPcs, WorkerPcs
    <3>3. Walks(w, "arrive") /\ Draining /\ wk[w].gate = m_gateCount
      BY <2>3, <3>1, <3>2, WorkerWalks, WorkerPlaced, PlaceTells
    <3>4. Placed(w)'
      BY <1>1, <3>3, DrainPlaced DEF Walks
    <3>5. ItemSet = {}
      BY <1>5, SMTT(30) DEF ItemSet
    <3>6. QED
      BY <2>1, <2>3, <3>2, <3>3, <3>4, <3>5, WalkKeeps DEF Walks
  <2>4. QED
    BY <1>1, <2>2, <2>3
<1>6. QED
  BY <1>4, <1>5

LEMMA PopGuardKeeps ==
  ASSUME TypeOK, ControlInv, WorkInv, NEW w \in Workers, PopGuard(w)
  PROVE  WorkInv' /\ \E label \in {"job", "drainJob"} : Moves(w, label)
<1>1. Still /\ Stays /\ (wk[w].pc = "guard" \/ wk[w].pc = "drainGuard")
  BY DEF PopGuard, Still, Stays, pool
<1>2. ASSUME NEW label \in {"job", "drainJob"}, JobWay(wk[w].pc, label), WorkerGoto(w, label)
      PROVE  WorkInv' /\ Moves(w, label)
  <2>1. Walks(w, label)
    BY <1>2, JobWays, WorkerWalks
  <2>2. PlacesInv'
    BY <1>1, <1>2, <2>1, JobWays, StepPlaced DEF Walks
  <2>3. label \in HoldPcs /\ wk[w].pc \in HoldPcs
    BY <1>1, SMTT(30) DEF HoldPcs
  <2>4. JobInv'
    BY <1>1, <2>1, <2>3, WalkJobs DEF WorkInv, Walks
  <2>5. label # "arrive" /\ ~Ready(w)'
    BY <1>2, <2>1, JobWays DEF Ready, Walks, Moves
  <2>6. BeforeInv'
    BY <1>1, <2>1, <2>5, WalkBefore DEF WorkInv, Walks
  <2>7. QED
    BY <2>1, <2>2, <2>4, <2>6 DEF WorkInv, Walks
<1>3. CASE wk[w].pc = "guard"
  <2>1. JobWay(wk[w].pc, "job")
    BY <1>3, SMTT(30) DEF JobWay
  <2>2. QED
    BY <1>2, <1>3, <2>1 DEF PopGuard, WorkerAt
<1>4. CASE wk[w].pc = "drainGuard"
  <2>1. JobWay(wk[w].pc, "drainJob")
    BY <1>4, SMTT(30) DEF JobWay
  <2>2. WorkerGoto(w, "drainJob")
    BY <1>4, SMTT(30) DEF PopGuard, WorkerAt
  <2>3. QED
    BY <1>2, <2>1, <2>2
<1>5. QED
  BY <1>1, <1>3, <1>4

LEMMA RunJobKeeps ==
  ASSUME TypeOK, ControlInv, WorkInv, NEW w \in Workers, RunJob(w)
  PROVE  WorkInv' /\ \E label \in {"run", "drain"} : Moves(w, label)
<1>1. /\ Stays /\ ran' = ran \cup {wk[w].job} /\ items' = items /\ wk \in [Workers -> WorkerType]
      /\ wk[w].pc = "job" \/ wk[w].pc = "drainJob"
  BY WorkersTyped DEF RunJob, Stays, pool, queue
<1>2. /\ ItemSet' = ItemSet /\ Offering' = Offering /\ ctl' = ctl /\ cl' = cl /\ added' = added
      /\ (Waited' <=> Waited)
  BY <1>1 DEF ItemSet, Offering, Stays, Waited
<1>3. ASSUME NEW label \in {"run", "drain"}, JobWay(wk[w].pc, label),
             wk' = [wk EXCEPT ![w].pc = label, ![w].job = NoJob]
      PROVE  WorkInv' /\ Moves(w, label)
  <2>1. NoJob \in Jobs \cup {NoJob} /\ label \in WorkerPcs
    BY <1>3, JobWays
  <2>2. Moves(w, label) /\ wk'[w].job = NoJob /\ wk'[w].gate = wk[w].gate
    BY <1>1, <1>3, <2>1, WorkerJob
  <2>3. PlacesInv'
    BY <1>1, <1>3, <2>2, JobWays, StepPlaced
  <2>4. label \notin HoldPcs
    BY SMTT(30) DEF HoldPcs
  <2>5. ASSUME NEW u \in Workers
        PROVE  IF wk'[u].pc \in HoldPcs THEN wk'[u].job \in 1 .. added ELSE wk'[u].job = NoJob
    BY <2>2, <2>4 DEF WorkInv, JobInv, Moves
  <2>6. ASSUME NEW c \in Offering, NEW u \in Workers
        PROVE  cl[c].job # wk'[u].job
    <3>1. cl[c].job # wk[u].job /\ cl[c].job # NoJob
      BY NoJobNumber DEF WorkInv, JobInv
    <3>2. QED
      BY <2>2, <3>1 DEF Moves
  <2>7. JobInv'
    BY <1>2, <2>5, <2>6 DEF WorkInv, JobInv
  <2>8. ASSUME Waited, NEW j \in ctl.before
        PROVE  j \in ran' \/ j \in ItemSet \/ \E u \in Workers : wk'[u].job = j
    <3>1. ASSUME NEW u \in Workers, wk[u].job = j
          PROVE  j \in ran' \/ wk'[u].job = j
      BY <1>1, <2>2, <3>1 DEF Moves
    <3>2. QED
      BY <1>1, <2>8, <3>1 DEF WorkInv, BeforeInv
  <2>9. label # "arrive" /\ label # "gate"
    BY <1>3, JobWays
  <2>10. ASSUME Waited, NEW u \in Workers, wk'[u].pc = "arrive" \/ Ready(u)'
         PROVE  ctl.before \cap ItemSet = {}
    <3>1. wk[u].pc = "arrive" \/ Ready(u)
      BY <1>1, <2>2, <2>9, <2>10 DEF Moves, Ready, Stays
    <3>2. QED
      BY <2>10, <3>1 DEF WorkInv, BeforeInv
  <2>11. BeforeInv'
    BY <1>2, <2>8, <2>10 DEF BeforeInv
  <2>12. QED
    BY <2>2, <2>3, <2>7, <2>11 DEF WorkInv
<1>4. CASE wk[w].pc = "job"
  <2>1. JobWay(wk[w].pc, "run")
    BY <1>4, SMTT(30) DEF JobWay
  <2>2. QED
    BY <1>3, <1>4, <2>1 DEF RunJob, WorkerAt
<1>5. CASE wk[w].pc = "drainJob"
  <2>1. JobWay(wk[w].pc, "drain")
    BY <1>5, SMTT(30) DEF JobWay
  <2>2. wk' = [wk EXCEPT ![w].pc = "drain", ![w].job = NoJob]
    BY <1>5, SMTT(30) DEF RunJob, WorkerAt
  <2>3. QED
    BY <1>3, <2>1, <2>2
<1>6. QED
  BY <1>1, <1>4, <1>5

LEMMA IdleWaitKeeps ==
  ASSUME TypeOK, ControlInv, WorkInv, NEW w \in Workers, IdleWait(w)
  PROVE  WorkInv' /\ \E label \in IdlePcs \cup {"run"} : Moves(w, label)
<1>1. Still
  BY DEF IdleWait, Still, Stays, queue
<1>2. PICK label : /\ label \in IdlePcs \cup {"run"} /\ WorkerGoto(w, label)
                   /\ wk[w].pc \in IdlePcs \cup {"idle"}
  <2>1. CASE WorkerAt(w, "idle") /\ WorkerGoto(w, "isRunning")
    BY <2>1 DEF WorkerAt, IdlePcs
  <2>2. CASE WorkerAt(w, "isRunning") /\ WorkerGoto(w, IF m_status = "Run" THEN "isEmpty" ELSE "awake")
    BY <2>2 DEF WorkerAt, IdlePcs
  <2>3. CASE WorkerAt(w, "isEmpty") /\ WorkerGoto(w, IF empty THEN "sleep" ELSE "awake")
    BY <2>3 DEF WorkerAt, IdlePcs
  <2>4. CASE WorkerAt(w, "sleep") /\ WorkerGoto(w, "awake")
    BY <2>4 DEF WorkerAt, IdlePcs
  <2>5. CASE WorkerAt(w, "awake") /\ WorkerGoto(w, "run")
    BY <2>5 DEF WorkerAt, IdlePcs
  <2>6. QED
    BY <2>1, <2>2, <2>3, <2>4, <2>5 DEF IdleWait
<1>3. label \in RunPcs \ HoldPcs /\ wk[w].pc \in RunPcs \ HoldPcs
  BY <1>2, SMTT(30) DEF RunPcs, HoldPcs, IdlePcs
<1>4. QED
  BY <1>1, <1>2, <1>3, RunGoto
-----------------------------------------------------------------------------
(* The steps of a caller                                                   *)

\* Caller c goes from where it is to label
CallerMoves(c, label) ==
    /\ cl' \in [Callers -> CallerType] /\ cl'[c].pc = label
    /\ \A d \in Callers : d # c => cl'[d] = cl[d]

\* What a caller leaves alone
Aside == UNCHANGED <<m_status, m_gateCount, ctl, wk, ran>>

LEMMA CallersTyped ==
  ASSUME TypeOK
  PROVE  cl \in [Callers -> CallerType]
  BY DEF TypeOK, CallerType, CallerPcs

LEMMA CallerFields ==
  ASSUME NEW x \in CallerType
  PROVE  /\ \A p \in CallerPcs :
              /\ [x EXCEPT !.pc = p] \in CallerType /\ [x EXCEPT !.pc = p].pc = p
              /\ [x EXCEPT !.pc = p].job = x.job
         /\ \A n \in Nat :
              /\ [x EXCEPT !.seen = n] \in CallerType /\ [x EXCEPT !.seen = n].pc = x.pc
              /\ [x EXCEPT !.seen = n].job = x.job
<1>1. ASSUME NEW p \in CallerPcs
      PROVE  /\ [x EXCEPT !.pc = p] \in CallerType /\ [x EXCEPT !.pc = p].pc = p
             /\ [x EXCEPT !.pc = p].job = x.job
  BY SMTT(30) DEF CallerType
<1>2. ASSUME NEW n \in Nat
      PROVE  /\ [x EXCEPT !.seen = n] \in CallerType /\ [x EXCEPT !.seen = n].pc = x.pc
             /\ [x EXCEPT !.seen = n].job = x.job
  BY SMTT(30) DEF CallerType
<1>3. QED
  BY <1>1, <1>2

LEMMA CallerSets ==
  ASSUME NEW f \in [Callers -> CallerType], NEW c \in Callers, NEW x \in CallerType
  PROVE  /\ [f EXCEPT ![c] = x] \in [Callers -> CallerType] /\ [f EXCEPT ![c] = x][c] = x
         /\ \A d \in Callers : d # c => [f EXCEPT ![c] = x][d] = f[d]
  OBVIOUS

LEMMA CallerNew ==
  ASSUME TypeOK, NEW c \in Callers, NEW j \in Jobs \cup {NoJob}, NEW b \in BOOLEAN,
         NEW p \in CallerPcs,
         cl' = [cl EXCEPT ![c] = [pc |-> p, job |-> j, seen |-> 0, blocking |-> b]]
  PROVE  CallerMoves(c, p) /\ cl'[c].job = j
<1> DEFINE x == [pc |-> p, job |-> j, seen |-> 0, blocking |-> b]
<1>1. x \in CallerType /\ x.pc = p /\ x.job = j
  BY SMTT(30) DEF CallerType
<1>2. cl \in [Callers -> CallerType]
  BY CallersTyped
<1> DEFINE k == [cl EXCEPT ![c] = x]
<1>3. cl' = k
  OBVIOUS
<1> HIDE DEF x
<1>4. k \in [Callers -> CallerType] /\ k[c] = x /\ \A d \in Callers : d # c => k[d] = cl[d]
  BY <1>1, <1>2, CallerSets
<1> HIDE DEF k
<1>5. QED
  BY <1>1, <1>3, <1>4 DEF CallerMoves

LEMMA CallerWalks ==
  ASSUME TypeOK, NEW c \in Callers, NEW label \in CallerPcs, CallerGoto(c, label)
  PROVE  CallerMoves(c, label) /\ (label # "out" => cl'[c].job = cl[c].job)
<1>1. cl \in [Callers -> CallerType] /\ cl[c] \in CallerType
  BY CallersTyped
<1>2. CASE label = "out"
  <2>1. NoJob \in Jobs \cup {NoJob} /\ FALSE \in BOOLEAN
    OBVIOUS
  <2>2. cl' = [cl EXCEPT ![c] = [pc |-> "out", job |-> NoJob, seen |-> 0, blocking |-> FALSE]]
    BY <1>2, SMTT(30) DEF CallerGoto, Outside
  <2>3. QED
    BY <1>2, <2>1, <2>2, CallerNew
<1>3. CASE label # "out"
  <2> DEFINE y == [cl[c] EXCEPT !.pc = label]
  <2> DEFINE z == [y EXCEPT !.seen = 0]
  <2>1. cl' = [cl EXCEPT ![c] = z]
    BY <1>3 DEF CallerGoto
  <2>2. y \in CallerType /\ y.pc = label /\ y.job = cl[c].job
    BY <1>1, CallerFields
  <2> HIDE DEF y
  <2>3. 0 \in Nat
    BY SMTT(30)
  <2>4. z \in CallerType /\ z.pc = label /\ z.job = cl[c].job
    BY <2>2, <2>3, CallerFields
  <2> HIDE DEF z
  <2>5. QED
    BY <1>1, <2>1, <2>4, CallerSets DEF CallerMoves
<1>4. QED
  BY <1>2, <1>3

\* The caller that has loaded the push index
LEMMA CallerLoads ==
  ASSUME TypeOK, NEW c \in Callers, cl' = [cl EXCEPT ![c].pc = "push", ![c].seen = pushed]
  PROVE  CallerMoves(c, "push") /\ cl'[c].job = cl[c].job
<1>1. cl \in [Callers -> CallerType] /\ cl[c] \in CallerType
  BY CallersTyped
<1>2. pushed \in Nat /\ "push" \in CallerPcs
  <2>1. pushed \in 0 .. MaxJobs /\ MaxJobs \in Nat
    BY PoolAssumption DEF TypeOK
  <2>2. QED
    BY <2>1, SMTT(30) DEF CallerPcs
<1> DEFINE y == [cl[c] EXCEPT !.pc = "push"]
<1> DEFINE h == [cl EXCEPT ![c] = y]
<1> DEFINE z == [h[c] EXCEPT !.seen = pushed]
<1> DEFINE k == [h EXCEPT ![c] = z]
<1>3. cl' = k
  OBVIOUS
<1>4. y \in CallerType /\ y.pc = "push" /\ y.job = cl[c].job
  BY <1>1, <1>2, CallerFields
<1> HIDE DEF y
<1>5. h \in [Callers -> CallerType] /\ h[c] = y /\ \A d \in Callers : d # c => h[d] = cl[d]
  BY <1>1, <1>4, CallerSets
<1> HIDE DEF h
<1>6. h[c] \in CallerType
  BY <1>4, <1>5
<1>7. z \in CallerType /\ z.pc = h[c].pc /\ z.job = h[c].job
  BY <1>2, <1>6, CallerFields
<1> HIDE DEF z
<1>8. k \in [Callers -> CallerType] /\ k[c] = z /\ \A d \in Callers : d # c => k[d] = h[d]
  BY <1>5, <1>7, CallerSets
<1> HIDE DEF k
<1>9. k[c].pc = "push" /\ k[c].job = cl[c].job /\ \A d \in Callers : d # c => k[d] = cl[d]
  BY <1>4, <1>5, <1>7, <1>8
<1>10. QED
  BY <1>3, <1>8, <1>9 DEF CallerMoves

LEMMA AsidePlaces ==
  ASSUME Aside
  PROVE  (PlacesInv => PlacesInv') /\ (ControlInv => ControlInv')
<1>1. ControlInv' <=> ControlInv
  BY DEF Aside, ControlInv
<1>2. ASSUME NEW w \in Workers
      PROVE  Placed(w)' <=> Placed(w)
  BY DEF Aside, Placed, Down, Starting, Gated, Running, Draining, Leaving, Ready, Released
<1>3. QED
  BY <1>1, <1>2 DEF PlacesInv

LEMMA AsideBefore ==
  ASSUME JobInv, BeforeInv, Aside, NEW j, j \notin ctl.before,
         ItemSet \subseteq ItemSet', ItemSet' \subseteq ItemSet \cup {j}
  PROVE  BeforeInv'
<1>1. ctl' = ctl /\ wk' = wk /\ ran' = ran /\ (Waited' <=> Waited)
  BY DEF Aside, Waited
<1>2. \A w \in Workers : Ready(w)' <=> Ready(w)
  BY DEF Aside, Ready
<1>3. ctl.before \cap ItemSet' = {} <=> ctl.before \cap ItemSet = {}
  BY SMTT(30)
<1>4. QED
  BY <1>1, <1>2, <1>3 DEF BeforeInv

\* A caller that does not push
LEMMA CallerKeeps ==
  ASSUME TypeOK, WorkInv, ControlInv, Aside, items' = items, added' = added, NEW c \in Callers,
         NEW label,
         CallerMoves(c, label),
         label \in OfferPcs => cl[c].pc \in OfferPcs /\ cl'[c].job = cl[c].job
  PROVE  WorkInv' /\ ControlInv'
<1>1. ctl' = ctl /\ wk' = wk /\ ItemSet' = ItemSet
  BY DEF Aside, ItemSet
<1>2. ASSUME NEW d \in Offering'
      PROVE  d \in Offering /\ cl'[d].job = cl[d].job
  <2>1. d \in Callers /\ cl'[d].pc \in OfferPcs
    BY DEF Offering
  <2>2. QED
    BY <2>1 DEF CallerMoves, Offering
<1>3. JobInv'
  <2>1. ASSUME NEW d \in Offering'
        PROVE  cl'[d].job \in 1 .. added /\ cl'[d].job \notin ItemSet \cup ctl.before
    BY <1>2 DEF WorkInv, JobInv
  <2>2. ASSUME NEW d \in Offering', NEW w \in Workers
        PROVE  cl'[d].job # wk[w].job
    <3>1. d \in Offering /\ cl'[d].job = cl[d].job
      BY <1>2
    <3>2. cl[d].job # wk[w].job
      BY <3>1 DEF WorkInv, JobInv
    <3>3. QED
      BY <3>1, <3>2, SMTT(30)
  <2>3. ASSUME NEW d \in Offering', NEW e \in Offering', d # e
        PROVE  cl'[d].job # cl'[e].job
    <3>1. d \in Offering /\ cl'[d].job = cl[d].job /\ e \in Offering /\ cl'[e].job = cl[e].job
      BY <1>2
    <3>2. cl[d].job # cl[e].job
      BY <2>3, <3>1 DEF WorkInv, JobInv
    <3>3. QED
      BY <3>1, <3>2, SMTT(30)
  <2>4. QED
    BY <1>1, <2>1, <2>2, <2>3 DEF WorkInv, JobInv
<1>4. BeforeInv'
  <2>1. ItemSet \subseteq ItemSet' /\ ItemSet' \subseteq ItemSet \cup {NoJob}
    BY <1>1
  <2>2. NoJob \notin ctl.before
    BY NoJobNumber DEF WorkInv, JobInv
  <2>3. QED
    BY <2>1, <2>2, AsideBefore DEF WorkInv
<1>5. QED
  BY <1>3, <1>4, AsidePlaces DEF WorkInv

LEMMA AddJobKeeps ==
  ASSUME TypeOK, ControlInv, WorkInv, NEW c \in Callers, AddJob(c)
  PROVE  WorkInv' /\ ControlInv' /\ CallerMoves(c, "load")
<1>1. /\ Aside /\ ItemSet' = ItemSet /\ ctl' = ctl /\ wk' = wk /\ added' = added + 1 /\ added < MaxJobs
      /\ cl[c].pc = "out"
  BY DEF AddJob, Aside, queue, pool, ItemSet, CallerAt
<1>2. /\ added + 1 \in Jobs \cup {NoJob} /\ added + 1 \notin 1 .. added /\ added + 1 # NoJob
      /\ added + 1 \in 1 .. added' /\ \A j \in 1 .. added : j \in 1 .. added'
  <2>1. added \in 0 .. MaxJobs /\ MaxJobs \in Nat
    BY PoolAssumption DEF TypeOK
  <2>2. QED
    BY <1>1, <2>1, SMTT(30) DEF Jobs, NoJob
<1>3. CallerMoves(c, "load") /\ cl'[c].job = added + 1
  <2>1. PICK b \in BOOLEAN :
          cl' = [cl EXCEPT ![c] = [pc |-> "load", job |-> added + 1, seen |-> 0, blocking |-> b]]
    BY DEF AddJob
  <2>2. "load" \in CallerPcs
    BY SMTT(30) DEF CallerPcs
  <2>3. QED
    BY <1>2, <2>1, <2>2, CallerNew
<1>4. ASSUME NEW d \in Offering', d # c
      PROVE  d \in Offering /\ cl'[d].job = cl[d].job
  BY <1>3, <1>4 DEF Offering, CallerMoves
<1>5. JobInv'
  <2>1. ASSUME NEW w \in Workers
        PROVE  IF wk[w].pc \in HoldPcs THEN wk[w].job \in 1 .. added' ELSE wk[w].job = NoJob
    BY <1>2 DEF WorkInv, JobInv
  <2>2. ItemSet \subseteq 1 .. added' /\ ctl.before \subseteq 1 .. added'
    BY <1>2 DEF WorkInv, JobInv
  <2>3. ASSUME NEW d \in Offering'
        PROVE  cl'[d].job \in 1 .. added' /\ cl'[d].job \notin ItemSet \cup ctl.before
    <3>1. CASE d = c
      BY <1>2, <1>3, <3>1 DEF WorkInv, JobInv
    <3>2. CASE d # c
      BY <1>2, <1>4, <3>2 DEF WorkInv, JobInv
    <3>3. QED
      BY <3>1, <3>2
  <2>4. ASSUME NEW d \in Offering', NEW w \in Workers
        PROVE  cl'[d].job # wk[w].job
    <3>1. CASE d = c
      <4>1. wk[w].job \in 1 .. added \/ wk[w].job = NoJob
        BY DEF WorkInv, JobInv
      <4>2. QED
        BY <1>2, <1>3, <3>1, <4>1
    <3>2. CASE d # c
      <4>1. d \in Offering /\ cl'[d].job = cl[d].job
        BY <1>4, <3>2
      <4>2. cl[d].job # wk[w].job
        BY <4>1 DEF WorkInv, JobInv
      <4>3. QED
        BY <4>1, <4>2, SMTT(30)
    <3>3. QED
      BY <3>1, <3>2
  <2>5. ASSUME NEW d \in Offering', NEW e \in Offering', d # e
        PROVE  cl'[d].job # cl'[e].job
    <3>1. ASSUME NEW f \in Offering', f # c
          PROVE  cl'[f].job \in 1 .. added /\ cl'[f].job # cl'[c].job
      <4>1. cl'[f].job \in 1 .. added
        BY <1>4, <3>1 DEF WorkInv, JobInv
      <4>2. QED
        BY <1>2, <1>3, <4>1
    <3>2. CASE d # c /\ e # c
      <4>1. d \in Offering /\ cl'[d].job = cl[d].job /\ e \in Offering /\ cl'[e].job = cl[e].job
        BY <1>4, <3>2
      <4>2. cl[d].job # cl[e].job
        BY <2>5, <4>1 DEF WorkInv, JobInv
      <4>3. QED
        BY <4>1, <4>2, SMTT(30)
    <3>3. QED
      BY <2>5, <3>1, <3>2
  <2>6. QED
    BY <1>1, <2>1, <2>2, <2>3, <2>4, <2>5 DEF JobInv
<1>6. BeforeInv'
  <2>1. added + 1 \notin ctl.before
    BY <1>2 DEF WorkInv, JobInv
  <2>2. ItemSet \subseteq ItemSet' /\ ItemSet' \subseteq ItemSet \cup {added + 1}
    BY <1>1
  <2>3. QED
    BY <1>1, <2>1, <2>2, AsideBefore DEF WorkInv
<1>7. QED
  BY <1>1, <1>3, <1>5, <1>6, AsidePlaces DEF WorkInv

LEMMA PushItems ==
  ASSUME TypeOK, NEW j \in Jobs, items' = Append(items, j)
  PROVE  ItemSet' = ItemSet \cup {j} /\ Len(items') = Len(items) + 1 /\ items' \in Seq(Jobs)
<1>1. items \in Seq(Jobs)
  BY DEF TypeOK
<1>2. /\ Len(items) \in Nat /\ Len(items') = Len(items) + 1 /\ items'[Len(items) + 1] = j
      /\ \A i \in 1 .. Len(items) : items'[i] = items[i]
  BY <1>1, SMTT(30)
<1>3. items' \in Seq(Jobs)
  BY <1>1, SMTT(30)
<1>4. ASSUME NEW i \in 1 .. Len(items')
      PROVE  items'[i] \in ItemSet \cup {j}
  <2>1. i \in 1 .. Len(items) \/ i = Len(items) + 1
    BY <1>2, SMTT(30)
  <2>2. QED
    BY <1>2, <2>1 DEF ItemSet
<1>5. ASSUME NEW i \in 1 .. Len(items)
      PROVE  items[i] \in ItemSet'
  <2>1. i \in 1 .. Len(items')
    BY <1>2, SMTT(30)
  <2>2. QED
    BY <1>2, <2>1 DEF ItemSet
<1>6. j \in ItemSet'
  <2>1. Len(items) + 1 \in 1 .. Len(items')
    BY <1>2, SMTT(30)
  <2>2. QED
    BY <1>2, <2>1 DEF ItemSet
<1>7. ItemSet' \subseteq ItemSet \cup {j}
  BY <1>4 DEF ItemSet
<1>8. ItemSet \subseteq ItemSet'
  BY <1>5 DEF ItemSet
<1>9. QED
  BY <1>2, <1>3, <1>6, <1>7, <1>8, SMTT(30)

\* The caller that pushes no longer offers its job
LEMMA OfferKeeps ==
  ASSUME TypeOK, ControlInv, WorkInv, Aside, added' = added, NEW c \in Callers,
         CallerMoves(c, "notify"),
         c \in Offering, items' = Append(items, cl[c].job)
  PROVE  WorkInv' /\ ControlInv'
<1>1. cl[c].job \in 1 .. added /\ cl[c].job \notin ctl.before /\ cl[c].job \in Jobs
  BY NoJobNumber DEF WorkInv, JobInv
<1>2. ItemSet' = ItemSet \cup {cl[c].job} /\ ctl' = ctl /\ wk' = wk
  BY <1>1, PushItems DEF Aside
<1>3. "notify" \notin OfferPcs
  BY SMTT(30) DEF OfferPcs, WaitPcs
<1>4. ASSUME NEW d \in Offering'
      PROVE  d \in Offering /\ cl'[d].job = cl[d].job /\ d # c
  BY <1>3 DEF Offering, CallerMoves
<1>5. JobInv'
  <2>1. ASSUME NEW d \in Offering'
        PROVE  cl'[d].job \in 1 .. added /\ cl'[d].job \notin ItemSet' \cup ctl.before
    <3>1. /\ cl[d].job \in 1 .. added /\ cl[d].job \notin ItemSet \cup ctl.before
          /\ cl[d].job # cl[c].job
      BY <1>4 DEF WorkInv, JobInv
    <3>2. cl'[d].job = cl[d].job
      BY <1>4
    <3>3. QED
      BY <1>2, <3>1, <3>2, SMTT(30)
  <2>2. ASSUME NEW d \in Offering', NEW w \in Workers
        PROVE  cl'[d].job # wk[w].job
    <3>1. cl[d].job # wk[w].job /\ cl'[d].job = cl[d].job
      BY <1>4 DEF WorkInv, JobInv
    <3>2. QED
      BY <3>1, SMTT(30)
  <2>3. ASSUME NEW d \in Offering', NEW e \in Offering', d # e
        PROVE  cl'[d].job # cl'[e].job
    <3>1. cl[d].job # cl[e].job /\ cl'[d].job = cl[d].job /\ cl'[e].job = cl[e].job
      BY <1>4, <2>3 DEF WorkInv, JobInv
    <3>2. QED
      BY <3>1, SMTT(30)
  <2>4. ItemSet' \subseteq 1 .. added
    BY <1>1, <1>2 DEF WorkInv, JobInv
  <2>5. QED
    BY <1>2, <2>1, <2>2, <2>3, <2>4 DEF WorkInv, JobInv
<1>6. BeforeInv'
  BY <1>1, <1>2, AsideBefore DEF WorkInv
<1>7. QED
  BY <1>5, <1>6, AsidePlaces DEF WorkInv
-----------------------------------------------------------------------------
(* Actions of a caller                                                     *)

LEMMA PushLoadKeeps ==
  ASSUME TypeOK, ControlInv, WorkInv, NEW c \in Callers, PushLoad(c)
  PROVE  WorkInv' /\ ControlInv' /\ \E label \in {"push", "out"} : CallerMoves(c, label)
<1>1. Aside /\ items' = items /\ added' = added /\ cl[c].pc = "load"
  BY DEF PushLoad, Aside, queue, pool, CallerAt
<1>2. "load" \in OfferPcs /\ "out" \notin OfferPcs /\ "out" \in CallerPcs
  BY SMTT(30) DEF OfferPcs, WaitPcs, CallerPcs
<1>3. CASE enabled
  <2>1. CallerMoves(c, "push") /\ cl'[c].job = cl[c].job
    BY <1>3, CallerLoads DEF PushLoad
  <2>2. QED
    BY <1>1, <1>2, <2>1, CallerKeeps
<1>4. CASE ~enabled
  <2>1. CallerMoves(c, "out")
    BY <1>2, <1>4, CallerWalks DEF PushLoad
  <2>2. QED
    BY <1>1, <1>2, <2>1, CallerKeeps
<1>5. QED
  BY <1>3, <1>4

LEMMA PushKeeps ==
  ASSUME TypeOK, ControlInv, WorkInv, NEW c \in Callers, Push(c)
  PROVE  /\ WorkInv' /\ ControlInv'
         /\ \/ /\ CallerMoves(c, "notify") /\ HasRoom /\ cl[c].job \in Jobs
               /\ items' = Append(items, cl[c].job) /\ pushed' = pushed + 1
               /\ counted' = IF enabled THEN pushed + 1 ELSE counted
            \/ /\ \E label \in {"full", "out"} : CallerMoves(c, label)
               /\ UNCHANGED <<items, pushed, counted>>
<1>1. Aside /\ added' = added /\ cl[c].pc = "push"
  BY DEF Push, Aside, pool, CallerAt
<1>2. /\ "push" \in OfferPcs /\ "out" \notin OfferPcs /\ "out" \in CallerPcs
      /\ "full" \in CallerPcs /\ "full" # "out" /\ "notify" \in CallerPcs
  BY SMTT(30) DEF OfferPcs, WaitPcs, CallerPcs
<1>3. CASE /\ HasRoom /\ items' = Append(items, cl[c].job) /\ pushed' = pushed + 1
           /\ counted' = (IF enabled THEN pushed + 1 ELSE counted) /\ CallerGoto(c, "notify")
  <2>1. CallerMoves(c, "notify")
    BY <1>2, <1>3, CallerWalks
  <2>2. c \in Offering
    BY <1>1, <1>2 DEF Offering
  <2>3. cl[c].job \in Jobs
    BY <2>2, NoJobNumber DEF WorkInv, JobInv
  <2>4. QED
    BY <1>1, <1>3, <2>1, <2>2, <2>3, OfferKeeps
<1>4. ASSUME NEW label \in {"full", "out"}, CallerGoto(c, label),
             UNCHANGED <<items, pushed, counted>>
      PROVE  WorkInv' /\ ControlInv' /\ CallerMoves(c, label)
  <2>1. CallerMoves(c, label) /\ (label # "out" => cl'[c].job = cl[c].job)
    BY <1>2, <1>4, CallerWalks
  <2>2. QED
    BY <1>1, <1>2, <1>4, <2>1, CallerKeeps
<1>5. CASE /\ CallerGoto(c, IF cl[c].blocking THEN "full" ELSE "out")
           /\ UNCHANGED <<items, pushed, counted>>
  BY <1>4, <1>5
<1>6. CASE CallerGoto(c, "out") /\ UNCHANGED <<items, pushed, counted>>
  BY <1>4, <1>6
<1>7. QED
  BY <1>3, <1>5, <1>6 DEF Push

LEMMA NotifyIdleKeeps ==
  ASSUME TypeOK, ControlInv, WorkInv, NEW c \in Callers, NotifyIdle(c)
  PROVE  WorkInv' /\ ControlInv' /\ CallerMoves(c, "out")
<1>1. Aside /\ items' = items /\ added' = added
  BY DEF NotifyIdle, Aside, queue
<1>2. "out" \notin OfferPcs /\ "out" \in CallerPcs
  BY SMTT(30) DEF OfferPcs, WaitPcs, CallerPcs
<1>3. CallerMoves(c, "out")
  BY <1>2, CallerWalks DEF NotifyIdle
<1>4. QED
  BY <1>1, <1>2, <1>3, CallerKeeps

LEMMA PushWaitKeeps ==
  ASSUME TypeOK, ControlInv, WorkInv, NEW c \in Callers, PushWait(c)
  PROVE  /\ WorkInv' /\ ControlInv'
         /\ \/ cl[c].pc = "full" /\ CallerMoves(c, "isFull") /\ waitingPushers' = waitingPushers + 1
            \/ /\ cl[c].pc \in WaitPcs /\ waitingPushers' = waitingPushers
               /\ \E label \in WaitPcs : CallerMoves(c, label)
            \/ cl[c].pc = "woken" /\ CallerMoves(c, "load") /\ waitingPushers' = waitingPushers - 1
<1>1. Aside /\ items' = items /\ added' = added
  BY DEF PushWait, Aside, pool
<1>2. /\ WaitPcs \subseteq CallerPcs /\ WaitPcs \subseteq OfferPcs /\ "out" \notin WaitPcs
      /\ "full" \in OfferPcs /\ "load" \in OfferPcs /\ "load" \in CallerPcs /\ "load" # "out"
      /\ "isFull" \in WaitPcs /\ "isEnabled" \in WaitPcs /\ "sleep" \in WaitPcs /\ "woken" \in WaitPcs
  BY SMTT(30) DEF OfferPcs, WaitPcs, CallerPcs
<1>3. ASSUME NEW label \in WaitPcs \cup {"load"}, CallerGoto(c, label), cl[c].pc \in OfferPcs
      PROVE  WorkInv' /\ ControlInv' /\ CallerMoves(c, label)
  <2>1. label \in CallerPcs /\ label # "out"
    BY <1>2
  <2>2. CallerMoves(c, label) /\ cl'[c].job = cl[c].job
    BY <1>3, <2>1, CallerWalks
  <2>3. QED
    BY <1>1, <1>3, <2>2, CallerKeeps
<1>4. CASE CallerAt(c, "full") /\ waitingPushers' = waitingPushers + 1 /\ CallerGoto(c, "isFull")
  BY <1>2, <1>3, <1>4 DEF CallerAt
<1>5. CASE /\ CallerAt(c, "isFull") /\ CallerGoto(c, IF full THEN "isEnabled" ELSE "woken")
           /\ waitingPushers' = waitingPushers
  BY <1>2, <1>3, <1>5 DEF CallerAt
<1>6. CASE /\ CallerAt(c, "isEnabled") /\ CallerGoto(c, IF enabled THEN "sleep" ELSE "woken")
           /\ waitingPushers' = waitingPushers
  BY <1>2, <1>3, <1>6 DEF CallerAt
<1>7. CASE CallerAt(c, "sleep") /\ CallerGoto(c, "woken") /\ waitingPushers' = waitingPushers
  BY <1>2, <1>3, <1>7 DEF CallerAt
<1>8. CASE CallerAt(c, "woken") /\ waitingPushers' = waitingPushers - 1 /\ CallerGoto(c, "load")
  BY <1>2, <1>3, <1>8 DEF CallerAt
<1>9. QED
  BY <1>4, <1>5, <1>6, <1>7, <1>8 DEF PushWait
-----------------------------------------------------------------------------
(* The steps of the controlling thread                                     *)

\* It goes on to label in the same call
Goes(label) ==
    ctl' \in ControlType /\ ctl'.pc = label /\ ctl'.cmd = ctl.cmd /\ ctl'.before = ctl.before

\* It returns from the call
Returns == ctl' \in ControlType /\ ctl'.pc = "out" /\ ctl'.cmd = "none" /\ ctl'.before = {}

\* What it always leaves alone, and what it leaves alone but when it spawns a thread,
\* releases the workers or removes jobs
Yields == UNCHANGED <<cl, added, ran>>
Idles == Yields /\ UNCHANGED <<wk, m_gateCount, items>>

LEMMA ControlTyped ==
  ASSUME TypeOK
  PROVE  ctl \in ControlType
  BY DEF TypeOK, ControlType, ControlPcs

LEMMA GotoGoes ==
  ASSUME TypeOK, NEW label \in ControlPcs, Goto(label)
  PROVE  Goes(label) /\ ctl'.n = ctl.n /\ ctl'.poppedItems = ctl.poppedItems
<1>1. ctl \in ControlType
  BY ControlTyped
<1>2. QED
  BY <1>1, SMTT(30) DEF ControlType, Goes, Goto

LEMMA FinishReturns ==
  ASSUME TypeOK, Finish
  PROVE  Returns
<1>1. "out" \in ControlPcs /\ "none" \in Commands \cup {"none"} /\ {} \in SUBSET Jobs /\ 0 \in Nat
  BY SMTT(30) DEF ControlPcs
<1>2. ctl.partial \in BOOLEAN
  BY ControlTyped DEF ControlType
<1>3. QED
  BY <1>1, <1>2, SMTT(30) DEF ControlType, Returns, Finish

LEMMA ControlJobs ==
  ASSUME JobInv, Yields, wk' = wk, ItemSet' \subseteq ItemSet, ctl'.before \subseteq ctl.before
  PROVE  JobInv'
<1>1. Offering' = Offering /\ cl' = cl /\ added' = added /\ wk' = wk
  BY DEF Yields, Offering
<1>2. ItemSet' \subseteq 1 .. added /\ ctl'.before \subseteq 1 .. added
  BY DEF JobInv
<1>3. ASSUME NEW c \in Offering
      PROVE  cl[c].job \in 1 .. added /\ cl[c].job \notin ItemSet' \cup ctl'.before
  BY DEF JobInv
<1>4. QED
  BY <1>1, <1>2, <1>3 DEF JobInv

LEMMA ControlBefore ==
  ASSUME BeforeInv, Idles, ctl'.cmd = ctl.cmd, ctl'.before = ctl.before
  PROVE  BeforeInv'
<1>1. (Waited' <=> Waited) /\ wk' = wk /\ ran' = ran /\ ItemSet' = ItemSet
  BY DEF Idles, Yields, Waited, ItemSet
<1>2. \A w \in Workers : Ready(w)' <=> Ready(w)
  BY DEF Idles, Ready
<1>3. QED
  BY <1>1, <1>2 DEF BeforeInv

LEMMA GoesKeeps ==
  ASSUME WorkInv, Idles, NEW label, Goes(label), PlacesInv'
  PROVE  WorkInv'
<1>1. ItemSet' \subseteq ItemSet /\ ctl'.before \subseteq ctl.before /\ Yields /\ wk' = wk
  BY DEF Idles, ItemSet, Goes
<1>2. QED
  BY <1>1, ControlJobs, ControlBefore DEF WorkInv, Goes

LEMMA ReturnsKeeps ==
  ASSUME WorkInv, Idles, Returns, PlacesInv'
  PROVE  WorkInv'
<1>1. ItemSet' \subseteq ItemSet /\ ctl'.before \subseteq ctl.before /\ Yields /\ wk' = wk
  BY DEF Idles, ItemSet, Returns
<1>2. ~Waited'
  BY SMTT(30) DEF Returns, Waited
<1>3. QED
  BY <1>1, <1>2, ControlJobs DEF WorkInv, BeforeInv

LEMMA NextPhaseIsOne ==
  ASSUME ControlInv'
  PROVE  /\ Down' => ~Starting' /\ ~Gated' /\ ~Running' /\ ~Draining' /\ ~Leaving'
         /\ Starting' => ~Gated' /\ ~Running' /\ ~Draining' /\ ~Leaving' /\ ~Waited'
         /\ Gated' => ~Running' /\ ~Draining' /\ ~Leaving'
         /\ Running' => ~Draining' /\ ~Leaving'
         /\ Draining' => ~Leaving'
  BY SMTT(30) DEF ControlInv, Down, Starting, Gated, Running, Draining, Leaving, Waited

\* A phase gives way to another, and the workers are where they may be in it
LEMMA PhasePlaces ==
  ASSUME Idles, PlacesInv, ControlInv',
         \/ Down /\ (Down' \/ (Starting' /\ ctl'.pc = "spawn"))
         \/ Gated /\ Gated'
         \/ Running /\ (Running' \/ Draining' \/ Leaving')
         \/ Draining /\ Draining'
         \/ Leaving /\ Leaving'
  PROVE  PlacesInv'
<1>1. ASSUME NEW w \in Workers
      PROVE  Placed(w)'
  <2>1. /\ Placed(w) /\ (Ready(w)' <=> Ready(w)) /\ (Released(w)' <=> Released(w)) /\ wk' = wk
        /\ m_gateCount' = m_gateCount
    BY DEF PlacesInv, Idles, Ready, Released
  <2>2. Released(w) => wk[w].pc = "gate"
    BY DEF Released
  <2>3. QED
    BY <2>1, <2>2, NextPhaseIsOne, SMTT(30) DEF Placed
<1>2. QED
  BY <1>1 DEF PlacesInv

\* The call and the status decide where the controlling thread goes
LEMMA PhaseSteps ==
  ASSUME ControlInv, Idles, WorkInv, ControlInv',
         \/ Down /\ Down'
         \/ Gated /\ Gated'
         \/ Running /\ (Running' \/ Draining' \/ Leaving')
         \/ Draining /\ Draining'
         \/ Leaving /\ Leaving',
         Returns \/ \E label : Goes(label)
  PROVE  WorkInv'
<1>1. PlacesInv'
  BY PhasePlaces DEF WorkInv
<1>2. QED
  BY <1>1, GoesKeeps, ReturnsKeeps
-----------------------------------------------------------------------------
(* Actions of the controlling thread                                       *)

LEMMA SetDisabledKeeps ==
  ASSUME TypeOK, ControlInv, WorkInv, SetDisabled
  PROVE  WorkInv' /\ ControlInv' /\ ctl' \in ControlType
<1>1. Idles /\ m_status' = m_status /\ ctl.pc = "disable"
  BY DEF SetDisabled, Idles, Yields, pool, At
<1>2. Goes("wakePushers")
  <2>1. "wakePushers" \in ControlPcs
    BY SMTT(30) DEF ControlPcs
  <2>2. QED
    BY <2>1, GotoGoes DEF SetDisabled
<1>3. ControlInv' /\ ((Down /\ Down') \/ (Running /\ Running'))
  BY <1>1, <1>2, SMTT(30) DEF ControlInv, Goes, Down, Running
<1>4. QED
  BY <1>1, <1>2, <1>3, PhaseSteps DEF Goes

LEMMA WakePushersKeeps ==
  ASSUME TypeOK, ControlInv, WorkInv, WakePushers
  PROVE  WorkInv' /\ ControlInv' /\ ctl' \in ControlType
<1>1. Idles /\ m_status' = m_status /\ ctl.pc = "wakePushers"
  BY DEF WakePushers, Idles, Yields, pool, At
<1>2. "setDrain" \in ControlPcs /\ "setStop" \in ControlPcs
  BY SMTT(30) DEF ControlPcs
<1>3. ctl.cmd = "stop" \/ ctl.cmd = "shutdown" \/ ctl.cmd = "disable"
  BY <1>1, SMTT(30) DEF ControlInv
<1>4. CASE ctl.cmd = "stop"
  <2>1. Goes("setDrain")
    BY <1>2, <1>4, GotoGoes, SMTT(30) DEF WakePushers
  <2>2. ControlInv' /\ Running /\ Running'
    BY <1>1, <1>4, <2>1, SMTT(30) DEF ControlInv, Goes, Running
  <2>3. QED
    BY <1>1, <2>1, <2>2, PhaseSteps DEF Goes
<1>5. CASE ctl.cmd = "shutdown"
  <2>1. Goes("setStop")
    BY <1>2, <1>5, GotoGoes, SMTT(30) DEF WakePushers
  <2>2. ControlInv' /\ Running /\ Running'
    BY <1>1, <1>5, <2>1, SMTT(30) DEF ControlInv, Goes, Running
  <2>3. QED
    BY <1>1, <2>1, <2>2, PhaseSteps DEF Goes
<1>6. CASE ctl.cmd = "disable"
  <2>1. Returns
    BY <1>6, FinishReturns, SMTT(30) DEF WakePushers
  <2>2. ControlInv' /\ ((Down /\ Down') \/ (Running /\ Running'))
    BY <1>1, <1>6, <2>1, SMTT(30) DEF ControlInv, Returns, Down, Running
  <2>3. QED
    BY <1>1, <2>1, <2>2, PhaseSteps DEF Returns
<1>7. QED
  BY <1>3, <1>4, <1>5, <1>6

LEMMA EnableKeeps ==
  ASSUME TypeOK, ControlInv, WorkInv, Enable
  PROVE  WorkInv' /\ ControlInv' /\ ctl' \in ControlType
<1>1. Idles /\ m_status' = m_status /\ ctl.pc = "enable"
  BY DEF Enable, Idles, Yields, pool, At
<1>2. CASE ctl.cmd = "start"
  <2>1. "setRun" \in ControlPcs
    BY SMTT(30) DEF ControlPcs
  <2>2. Goes("setRun")
    BY <1>2, <2>1, GotoGoes DEF Enable
  <2>3. ControlInv' /\ Gated /\ Gated'
    BY <1>1, <1>2, <2>2, SMTT(30) DEF ControlInv, Goes, Gated
  <2>4. QED
    BY <1>1, <2>2, <2>3, PhaseSteps DEF Goes
<1>3. CASE ctl.cmd # "start"
  <2>1. Returns
    BY <1>3, FinishReturns DEF Enable
  <2>2. ControlInv' /\ ((Down /\ Down') \/ (Running /\ Running'))
    BY <1>1, <1>3, <2>1, SMTT(30) DEF ControlInv, Returns, Down, Running
  <2>3. QED
    BY <1>1, <2>1, <2>2, PhaseSteps DEF Returns
<1>4. QED
  BY <1>2, <1>3

LEMMA SetStatusKeeps ==
  ASSUME TypeOK, ControlInv, WorkInv, SetStatus
  PROVE  WorkInv' /\ ControlInv' /\ ctl' \in ControlType /\ m_status' \in {"Stop", "Run", "Drain"}
<1>1. Idles
  BY DEF SetStatus, Idles, Yields, queue
<1>2. "interrupt" \in ControlPcs /\ "release" \in ControlPcs
  BY SMTT(30) DEF ControlPcs
<1>3. CASE At("setDrain") /\ m_status' = "Drain" /\ Goto("interrupt")
  <2>1. Goes("interrupt") /\ ctl.pc = "setDrain"
    BY <1>2, <1>3, GotoGoes DEF At
  <2>2. ControlInv' /\ Running /\ Draining'
    BY <1>3, <2>1, SMTT(30) DEF ControlInv, Goes, Running, Draining
  <2>3. QED
    BY <1>1, <1>3, <2>1, <2>2, PhaseSteps DEF Goes
<1>4. CASE At("setRun") /\ m_status' = "Run" /\ Goto("release")
  <2>1. Goes("release") /\ ctl.pc = "setRun"
    BY <1>2, <1>4, GotoGoes DEF At
  <2>2. ControlInv' /\ Gated /\ Gated'
    BY <1>4, <2>1, SMTT(30) DEF ControlInv, Goes, Gated
  <2>3. QED
    BY <1>1, <1>4, <2>1, <2>2, PhaseSteps DEF Goes
<1>5. CASE At("setStop") /\ m_status' = "Stop" /\ Goto(IF ctl.cmd = "stop" THEN "release" ELSE "interrupt")
  <2>1. CASE ctl.cmd = "stop"
    <3>1. Goes("release") /\ ctl.pc = "setStop"
      BY <1>2, <1>5, <2>1, GotoGoes DEF At
    <3>2. ControlInv' /\ Gated /\ Gated'
      BY <1>5, <2>1, <3>1, SMTT(30) DEF ControlInv, Goes, Gated
    <3>3. QED
      BY <1>1, <1>5, <3>1, <3>2, PhaseSteps DEF Goes
  <2>2. CASE ctl.cmd # "stop"
    <3>1. Goes("interrupt") /\ ctl.pc = "setStop"
      BY <1>2, <1>5, <2>2, GotoGoes DEF At
    <3>2. ControlInv' /\ Running /\ Leaving'
      BY <1>5, <2>2, <3>1, SMTT(30) DEF ControlInv, Goes, Running, Leaving
    <3>3. QED
      BY <1>1, <1>5, <3>1, <3>2, PhaseSteps DEF Goes
  <2>3. QED
    BY <2>1, <2>2
<1>6. QED
  BY <1>3, <1>4, <1>5 DEF SetStatus

LEMMA InterruptKeeps ==
  ASSUME TypeOK, ControlInv, WorkInv, Interrupt
  PROVE  WorkInv' /\ ControlInv' /\ ctl' \in ControlType
<1>1. Idles /\ m_status' = m_status /\ ctl.pc = "interrupt"
  BY DEF Interrupt, Idles, Yields, queue, At
<1>2. "removeAll" \in ControlPcs /\ "waitThreads" \in ControlPcs
  BY SMTT(30) DEF ControlPcs
<1>3. CASE ctl.cmd = "shutdown"
  <2>1. Goes("removeAll")
    BY <1>2, <1>3, GotoGoes DEF Interrupt
  <2>2. ControlInv' /\ Leaving /\ Leaving'
    BY <1>1, <1>3, <2>1, SMTT(30) DEF ControlInv, Goes, Leaving
  <2>3. QED
    BY <1>1, <2>1, <2>2, PhaseSteps DEF Goes
<1>4. CASE ctl.cmd # "shutdown"
  <2>1. Goes("waitThreads")
    BY <1>2, <1>4, GotoGoes DEF Interrupt
  <2>2. ControlInv' /\ Draining /\ Draining'
    BY <1>1, <1>4, <2>1, SMTT(30) DEF ControlInv, Goes, Draining
  <2>3. QED
    BY <1>1, <2>1, <2>2, PhaseSteps DEF Goes
<1>5. QED
  BY <1>3, <1>4

LEMMA CommandKeeps ==
  ASSUME TypeOK, ControlInv, WorkInv, Command
  PROVE  WorkInv' /\ ControlInv' /\ ctl' \in ControlType
<1>1. Idles /\ m_status' = m_status /\ ctl.pc = "out" /\ ctl.cmd = "none" /\ m_status \in {"Stop", "Run"}
  <2>1. Idles /\ m_status' = m_status /\ ctl.pc = "out"
    BY DEF Command, Idles, Yields, pool, queue, At
  <2>2. QED
    BY <2>1, SMTT(30) DEF ControlInv
<1>2. PICK cmd \in Commands :
        /\ cmd = "start" => m_status = "Stop"
        /\ cmd \in {"drain", "stop", "shutdown"} => m_status = "Run"
        /\ ctl' = [pc |-> CASE cmd = "start" -> "spawn" [] cmd = "drain" -> "setDrain"
                            [] cmd = "enable" -> "enable" [] OTHER -> "disable",
                   cmd |-> cmd, n |-> 0, poppedItems |-> 0, before |-> Queued,
                   partial |-> ctl.partial]
  BY DEF Command
<1>3. cmd \in {"start", "drain", "stop", "shutdown", "disable", "enable"}
  BY PoolAssumption
<1>4. /\ ctl'.cmd = cmd /\ ctl'.before = Queued /\ ctl'.n = 0 /\ ctl'.poppedItems = 0
      /\ ctl'.pc = CASE cmd = "start" -> "spawn" [] cmd = "drain" -> "setDrain"
                     [] cmd = "enable" -> "enable" [] OTHER -> "disable"
  BY <1>2, SMTT(30)
<1>5. /\ cmd = "start" => ctl'.pc = "spawn"
      /\ cmd = "drain" => ctl'.pc = "setDrain"
      /\ cmd = "enable" => ctl'.pc = "enable"
      /\ cmd \in {"stop", "shutdown", "disable"} => ctl'.pc = "disable"
  BY <1>3, <1>4, SMTT(30)
<1>6. ControlInv'
  BY <1>1, <1>2, <1>3, <1>4, <1>5, SMTT(30) DEF ControlInv
<1>7. PlacesInv'
  <2>1. \/ Down /\ (Down' \/ (Starting' /\ ctl'.pc = "spawn"))
        \/ Running /\ Running'
    BY <1>1, <1>2, <1>3, <1>4, <1>5, SMTT(30) DEF Down, Starting, Running
  <2>2. QED
    BY <1>1, <1>6, <2>1, PhasePlaces DEF WorkInv
<1>8. ASSUME NEW j \in Queued
      PROVE  j \in ItemSet \/ (j # NoJob /\ \E w \in Workers : j = wk[w].job)
  BY DEF Queued, ItemSet
<1>9. ASSUME NEW j \in Queued
      PROVE  j \in 1 .. added
  BY <1>8 DEF WorkInv, JobInv
<1>10. JobInv'
  <2>1. /\ Offering' = Offering /\ ItemSet' = ItemSet /\ cl' = cl /\ added' = added /\ wk' = wk
    BY <1>1 DEF Idles, Yields, Offering, ItemSet
  <2>2. ASSUME NEW c \in Offering
        PROVE  cl[c].job \notin ItemSet \cup Queued
    BY <1>8 DEF WorkInv, JobInv
  <2>3. QED
    BY <1>4, <1>9, <2>1, <2>2 DEF WorkInv, JobInv
<1>11. BeforeInv'
  <2>1. ItemSet' = ItemSet /\ wk' = wk /\ ran' = ran /\ ctl'.before = Queued /\ m_gateCount' = m_gateCount
    BY <1>1, <1>4 DEF Idles, Yields, ItemSet
  <2>2. ASSUME Waited', NEW w \in Workers
        PROVE  wk[w].pc # "arrive" /\ ~Ready(w)
    <3>1. Running
      BY <1>1, <1>2, <1>4, <2>2, SMTT(30) DEF Waited, Running
    <3>2. wk[w].pc \in RunPcs \/ Released(w)
      BY <3>1, WorkerPlaced DEF Placed
    <3>3. QED
      BY <3>2, SMTT(30) DEF RunPcs, IdlePcs, Released, Ready
  <2>3. ASSUME NEW w \in Workers
        PROVE  Ready(w)' <=> Ready(w)
    BY <2>1 DEF Ready
  <2>4. QED
    BY <1>8, <2>1, <2>2, <2>3 DEF BeforeInv
<1>12. ctl' \in ControlType
  <2>1. Queued \in SUBSET Jobs
    BY <1>9, NoJobNumber
  <2>2. ctl'.pc \in ControlPcs /\ 0 \in Nat
    BY <1>3, <1>5, SMTT(30) DEF ControlPcs
  <2>3. ctl.partial \in BOOLEAN
    BY ControlTyped DEF ControlType
  <2>4. QED
    BY <1>2, <1>4, <2>1, <2>2, <2>3, SMTT(30) DEF ControlType
<1>13. QED
  BY <1>6, <1>7, <1>10, <1>11, <1>12 DEF WorkInv

LEMMA SpawnKeeps ==
  ASSUME TypeOK, ControlInv, WorkInv, Spawn, ~SpawnMayFail
  PROVE  /\ WorkInv' /\ ControlInv' /\ ctl' \in ControlType
         /\ \E w \in Workers : wk[w].pc = "none" /\ Moves(w, "begin")
<1>1. /\ Yields /\ UNCHANGED <<m_gateCount, items>> /\ m_status' = m_status /\ ctl.pc = "spawn"
      /\ wk \in [Workers -> WorkerType]
  BY WorkersTyped DEF Spawn, Yields, pool, queue, At
<1> DEFINE rest == {w \in Workers : WorkerAt(w, "none")}
<1>2. PICK w \in rest : /\ wk' = [wk EXCEPT ![w].pc = "begin"]
                        /\ ctl' = [ctl EXCEPT !.pc = IF rest = {w} THEN "waitThreads" ELSE "spawn"]
  BY DEF Spawn
<1>3. w \in Workers /\ wk[w].pc = "none" /\ ~Waited /\ Starting /\ ctl.cmd = "start" /\ m_status = "Stop"
  <2>1. w \in Workers /\ wk[w].pc = "none"
    BY <1>2 DEF WorkerAt
  <2>2. QED
    BY <1>1, <2>1, SMTT(30) DEF ControlInv, Waited, Starting
<1>4. Walks(w, "begin")
  <2>1. WorkerGoto(w, "begin")
    BY <1>2, SMTT(30) DEF WorkerGoto
  <2>2. "begin" \in WorkerPcs /\ "begin" # "none"
    BY SMTT(30) DEF WorkerPcs
  <2>3. QED
    BY <1>3, <2>1, <2>2, WorkerWalks
<1>5. PICK label \in {"waitThreads", "spawn"} :
        Goes(label) /\ (label = "waitThreads" => rest = {w})
  <2>1. "waitThreads" \in ControlPcs /\ "spawn" \in ControlPcs
    BY SMTT(30) DEF ControlPcs
  <2>2. CASE rest = {w}
    BY <1>2, <2>1, <2>2, GotoGoes DEF Goto
  <2>3. CASE rest # {w}
    BY <1>2, <2>1, <2>3, GotoGoes DEF Goto
  <2>4. QED
    BY <2>2, <2>3
<1>6. ControlInv' /\ Starting' /\ ~Waited'
  BY <1>1, <1>3, <1>5, SMTT(30) DEF ControlInv, Goes, Starting, Waited
<1>7. ASSUME NEW u \in Workers
      PROVE  Placed(u)'
  <2>1. ~Down' /\ ~Gated' /\ ~Running' /\ ~Draining' /\ ~Leaving' /\ m_gateCount' = m_gateCount
    BY <1>1, <1>6, NextPhaseIsOne
  <2>2. CASE u = w
    <3>1. wk'[u].pc = "begin"
      BY <1>4, <2>2 DEF Walks, Moves
    <3>2. QED
      BY <2>1, <3>1, SMTT(30) DEF Placed
  <2>3. CASE u # w
    <3>1. wk'[u] = wk[u]
      BY <1>4, <2>3 DEF Walks, Moves
    <3>2. ctl'.pc = "waitThreads" => wk[u].pc # "none"
      <4>1. ctl'.pc = "waitThreads" => u \notin rest
        BY <1>5, <2>3 DEF Goes
      <4>2. QED
        BY <4>1 DEF WorkerAt
    <3>3. Placed(u) /\ (Ready(u)' <=> Ready(u))
      BY <2>1, <3>1, WorkerPlaced DEF Ready
    <3>4. QED
      BY <1>3, <2>1, <3>1, <3>2, <3>3 DEF Placed
  <2>4. QED
    BY <2>2, <2>3
<1>8. JobInv'
  <2>1. /\ ItemSet' = ItemSet /\ Offering' = Offering /\ cl' = cl /\ added' = added /\ ctl'.before = ctl.before
    BY <1>1, <1>5 DEF ItemSet, Offering, Yields, Goes
  <2>2. "begin" \notin HoldPcs /\ "none" \notin HoldPcs
    BY SMTT(30) DEF HoldPcs
  <2>3. ASSUME NEW u \in Workers
        PROVE  wk'[u].job = wk[u].job /\ (wk'[u].pc \in HoldPcs <=> wk[u].pc \in HoldPcs)
    BY <1>3, <1>4, <2>2 DEF Walks, Moves
  <2>4. ASSUME NEW u \in Workers
        PROVE  IF wk'[u].pc \in HoldPcs THEN wk'[u].job \in 1 .. added ELSE wk'[u].job = NoJob
    BY <2>3 DEF WorkInv, JobInv
  <2>5. ASSUME NEW c \in Offering, NEW u \in Workers
        PROVE  cl[c].job # wk'[u].job
    <3>1. cl[c].job # wk[u].job
      BY DEF WorkInv, JobInv
    <3>2. QED
      BY <2>3, <3>1, SMTT(30)
  <2>6. QED
    BY <2>1, <2>4, <2>5 DEF WorkInv, JobInv
<1>9. QED
  BY <1>3, <1>4, <1>5, <1>6, <1>7, <1>8 DEF WorkInv, PlacesInv, BeforeInv, Goes, Walks

\* waitThreads returns when every worker is ready
LEMMA WaitThreadsKeeps ==
  ASSUME TypeOK, ControlInv, WorkInv, WaitThreads, \A w \in Workers : Ready(w)
  PROVE  WorkInv' /\ ControlInv' /\ ctl' \in ControlType
<1>1. Idles /\ m_status' = m_status /\ ctl.pc = "waitThreads"
  BY DEF WaitThreads, Idles, Yields, queue, pool, At
<1>2. "enable" \in ControlPcs /\ "setRun" \in ControlPcs /\ "setStop" \in ControlPcs
  BY SMTT(30) DEF ControlPcs
<1>3. ctl.cmd = "start" \/ ctl.cmd = "drain" \/ ctl.cmd = "stop"
  BY <1>1, SMTT(30) DEF ControlInv
<1>4. ASSUME NEW label, Goes(label), ControlInv', Gated'
      PROVE  WorkInv' /\ ctl' \in ControlType
  <2>1. ASSUME NEW w \in Workers
        PROVE  Placed(w)'
    <3>1. ~Down' /\ ~Starting' /\ ~Running' /\ ~Draining' /\ ~Leaving'
      BY <1>4, NextPhaseIsOne
    <3>2. Ready(w)' /\ wk'[w].pc = "gate"
      BY <1>1 DEF Ready, Idles
    <3>3. QED
      BY <3>1, <3>2 DEF Placed
  <2>2. QED
    BY <1>1, <1>4, <2>1, GoesKeeps DEF PlacesInv, Goes
<1>5. CASE ctl.cmd = "start"
  <2>1. Goes("enable")
    BY <1>2, <1>5, GotoGoes, SMTT(30) DEF WaitThreads
  <2>2. ControlInv' /\ Gated'
    BY <1>1, <1>5, <2>1, SMTT(30) DEF ControlInv, Goes, Gated
  <2>3. QED
    BY <1>4, <2>1, <2>2
<1>6. CASE ctl.cmd = "drain"
  <2>1. Goes("setRun")
    BY <1>2, <1>6, GotoGoes, SMTT(30) DEF WaitThreads
  <2>2. ControlInv' /\ Gated'
    BY <1>1, <1>6, <2>1, SMTT(30) DEF ControlInv, Goes, Gated
  <2>3. QED
    BY <1>4, <2>1, <2>2
<1>7. CASE ctl.cmd = "stop"
  <2>1. Goes("setStop")
    BY <1>2, <1>7, GotoGoes, SMTT(30) DEF WaitThreads
  <2>2. ControlInv' /\ Gated'
    BY <1>1, <1>7, <2>1, SMTT(30) DEF ControlInv, Goes, Gated
  <2>3. QED
    BY <1>4, <2>1, <2>2
<1>8. QED
  BY <1>3, <1>5, <1>6, <1>7

\* The gate opens: every worker is behind it, and none counts as ready any more
LEMMA ReleaseKeeps ==
  ASSUME TypeOK, ControlInv, WorkInv, Release
  PROVE  /\ WorkInv' /\ ControlInv' /\ ctl' \in ControlType
         /\ \A w \in Workers : ~Ready(w)'
<1>1. /\ Yields /\ UNCHANGED <<wk, items>> /\ m_status' = m_status /\ ctl.pc = "release"
      /\ m_gateCount' = m_gateCount + 1 /\ m_gateCount \in Nat
  BY DEF Release, Yields, queue, At, TypeOK
<1>2. ASSUME NEW w \in Workers
      PROVE  Released(w)' /\ ~Ready(w)' /\ wk'[w].pc = "gate"
  <2>1. Ready(w)
    BY <1>1, WorkerPlaced DEF Placed, Gated
  <2>2. m_gateCount' # m_gateCount
    BY <1>1, SMTT(30)
  <2>3. QED
    BY <1>1, <2>1, <2>2 DEF Ready, Released
<1>3. /\ ControlInv' /\ ctl' \in ControlType /\ ctl'.before \subseteq ctl.before
      /\ (Running' \/ Leaving') /\ (Waited' => Waited /\ ctl'.before = ctl.before)
  <2>1. CASE ctl.cmd = "stop"
    <3>1. "join" \in ControlPcs
      BY SMTT(30) DEF ControlPcs
    <3>2. Goes("join")
      BY <2>1, <3>1, GotoGoes DEF Release
    <3>3. QED
      BY <1>1, <2>1, <3>2, SMTT(30) DEF ControlInv, Goes, Leaving, Waited
  <2>2. CASE ctl.cmd # "stop"
    <3>1. m_status = "Run"
      BY <1>1, <2>2, SMTT(30) DEF ControlInv
    <3>2. Returns
      BY <2>2, <3>1, FinishReturns, SMTT(30) DEF Release
    <3>3. QED
      BY <1>1, <3>1, <3>2, SMTT(30) DEF ControlInv, Returns, Running, Waited
  <2>3. QED
    BY <2>1, <2>2
<1>4. ASSUME NEW w \in Workers
      PROVE  Placed(w)'
  <2>1. ~Down' /\ ~Starting' /\ ~Gated' /\ ~Draining'
    BY <1>3, NextPhaseIsOne
  <2>2. QED
    BY <1>2, <2>1 DEF Placed
<1>5. ItemSet' = ItemSet
  BY <1>1 DEF ItemSet
<1>6. JobInv'
  BY <1>1, <1>3, <1>5, ControlJobs DEF WorkInv
<1>7. BeforeInv'
  <2>1. \A w \in Workers : ~(wk'[w].pc = "arrive" \/ Ready(w)')
    BY <1>2
  <2>2. wk' = wk /\ ran' = ran
    BY <1>1 DEF Yields
  <2>3. QED
    BY <1>3, <1>5, <2>1, <2>2 DEF WorkInv, BeforeInv
<1>8. QED
  BY <1>2, <1>3, <1>4, <1>6, <1>7 DEF WorkInv, PlacesInv

LEMMA ControlRemoves ==
  ASSUME NEW x \in ControlType, NEW p \in ControlPcs, NEW k \in Nat
  PROVE  /\ [x EXCEPT !.pc = p, !.n = k] \in ControlType /\ [x EXCEPT !.pc = p, !.n = k].pc = p
         /\ [x EXCEPT !.pc = p, !.n = k].cmd = x.cmd /\ [x EXCEPT !.pc = p, !.n = k].before = x.before
<1> DEFINE y == [x EXCEPT !.pc = p]
<1>1. y \in ControlType /\ y.pc = p /\ y.cmd = x.cmd /\ y.before = x.before
  BY SMTT(30) DEF ControlType
<1> HIDE DEF y
<1> DEFINE z == [y EXCEPT !.n = k]
<1>2. z \in ControlType /\ z.pc = p /\ z.cmd = x.cmd /\ z.before = x.before
  BY <1>1, SMTT(30) DEF ControlType
<1>3. QED
  BY <1>2 DEF y

LEMMA RemoveAllKeeps ==
  ASSUME TypeOK, ControlInv, WorkInv, RemoveAll
  PROVE  WorkInv' /\ ControlInv' /\ ctl' \in ControlType
<1>1. /\ Yields /\ UNCHANGED <<wk, m_gateCount>> /\ m_status' = m_status /\ ctl \in ControlType
      /\ ctl.pc = "removeAll" \/ ctl.pc = "remove"
  BY ControlTyped DEF RemoveAll, Yields, pool, At
<1>2. PICK label \in {"remove", "join"} : Goes(label)
  <2>1. "remove" \in ControlPcs /\ "join" \in ControlPcs
    BY SMTT(30) DEF ControlPcs
  <2>2. CASE ctl' = [ctl EXCEPT !.pc = "remove", !.n = size]
    <3>1. size \in Nat
      <4>1. counted \in 0 .. pushed /\ popped \in 0 .. pushed /\ pushed \in 0 .. MaxJobs /\ MaxJobs \in Nat
        BY PoolAssumption DEF TypeOK
      <4>2. QED
        BY <4>1, SMTT(30) DEF size
    <3>2. Goes("remove")
      BY <1>1, <2>1, <2>2, <3>1, ControlRemoves DEF Goes
    <3>3. QED
      BY <3>2
  <2>3. CASE At("remove") /\ ctl' = [ctl EXCEPT !.poppedItems = @ + 1]
    BY <1>1, <2>3, SMTT(30) DEF ControlType, Goes, At
  <2>4. CASE Goto("join")
    BY <2>1, <2>4, GotoGoes
  <2>5. QED
    BY <2>2, <2>3, <2>4 DEF RemoveAll
<1>3. ControlInv' /\ Leaving /\ Leaving' /\ ~Waited'
  BY <1>1, <1>2, SMTT(30) DEF ControlInv, Goes, Leaving, Waited
<1>4. ASSUME NEW w \in Workers
      PROVE  Placed(w)'
  <2>1. ~Down' /\ ~Starting' /\ ~Gated' /\ ~Running' /\ ~Draining'
    BY <1>3, NextPhaseIsOne
  <2>2. Placed(w) /\ wk' = wk /\ m_gateCount' = m_gateCount /\ (Released(w)' <=> Released(w))
    BY <1>1, WorkerPlaced DEF Released
  <2>3. QED
    BY <1>3, <2>1, <2>2 DEF Placed
<1>5. ItemSet' \subseteq ItemSet
  <2>1. items' = items \/ (items # <<>> /\ items' = Tail(items))
    BY DEF RemoveAll
  <2>2. CASE items' = items
    BY <2>2 DEF ItemSet
  <2>3. QED
    BY <2>1, <2>2, PopItems
<1>6. JobInv'
  BY <1>1, <1>2, <1>5, ControlJobs DEF WorkInv, Goes
<1>7. QED
  BY <1>2, <1>3, <1>4, <1>6 DEF WorkInv, PlacesInv, BeforeInv, Goes

LEMMA JoinKeeps ==
  ASSUME TypeOK, ControlInv, WorkInv, Join
  PROVE  WorkInv' /\ ControlInv' /\ ctl' \in ControlType
<1>1. /\ Idles /\ m_status' = m_status /\ ctl.pc = "join" /\ Returns
      /\ \A w \in Workers : wk[w].pc = "none"
  BY FinishReturns DEF Join, Idles, Yields, queue, pool, At, WorkerAt
<1>2. ControlInv' /\ Down'
  BY <1>1, SMTT(30) DEF ControlInv, Returns, Down
<1>3. ASSUME NEW w \in Workers
      PROVE  Placed(w)'
  <2>1. ~Starting' /\ ~Gated' /\ ~Running' /\ ~Draining' /\ ~Leaving'
    BY <1>2, NextPhaseIsOne
  <2>2. wk'[w].pc = "none"
    BY <1>1 DEF Idles
  <2>3. QED
    BY <2>1, <2>2 DEF Placed
<1>4. QED
  BY <1>1, <1>2, <1>3, ReturnsKeeps DEF PlacesInv, Returns
LEMMA SmallerOf ==
  ASSUME NEW a \in Nat, NEW b \in Nat
  PROVE  Min({a, b}) \in Nat
<1>1. \E x \in {a, b} : \A y \in {a, b} : x <= y
  BY SMTT(30)
<1>2. Min({a, b}) \in {a, b}
  BY <1>1, SMTT(30) DEF Min
<1>3. QED
  BY <1>2
-----------------------------------------------------------------------------
(* The counts                                                              *)

INSTANCE FiniteSetTheorems

LEMMA SomeThreads ==
  ASSUME NEW S, S \subseteq Workers \/ S \subseteq Callers
  PROVE  /\ IsFiniteSet(S) /\ Cardinality(S) \in Nat
         /\ S \subseteq Workers => Cardinality(S) <= Cardinality(Workers)
         /\ S \subseteq Callers => Cardinality(S) <= Cardinality(Callers)
         /\ S \subseteq Workers /\ Cardinality(S) = Cardinality(Workers) => S = Workers
<1>1. IsFiniteSet(Workers) /\ IsFiniteSet(Callers)
  BY PoolAssumption
<1>2. S \subseteq Workers => IsFiniteSet(S)
  BY <1>1, FS_Subset
<1>3. S \subseteq Callers => IsFiniteSet(S)
  BY <1>1, FS_Subset
<1>4. IsFiniteSet(S)
  BY <1>2, <1>3
<1>5. Cardinality(S) \in Nat
  BY <1>4, FS_CardinalityType
<1>6. S \subseteq Workers => /\ Cardinality(S) <= Cardinality(Workers)
                             /\ Cardinality(S) = Cardinality(Workers) => S = Workers
  BY <1>1, FS_Subset
<1>7. S \subseteq Callers => Cardinality(S) <= Cardinality(Callers)
  BY <1>1, FS_Subset
<1>8. QED
  BY <1>4, <1>5, <1>6, <1>7

LEMMA OneMore ==
  ASSUME NEW S, NEW x, x \notin S, S \subseteq Workers \/ S \subseteq Callers
  PROVE  Cardinality(S \cup {x}) = Cardinality(S) + 1
  BY SomeThreads, FS_AddElement

LEMMA OneLess ==
  ASSUME NEW S, NEW x, x \in S, S \subseteq Workers \/ S \subseteq Callers
  PROVE  Cardinality(S \ {x}) = Cardinality(S) - 1
  BY SomeThreads, FS_RemoveElement

LEMMA ThreadSets ==
  /\ ReadyWorkers \subseteq Workers /\ IdleWorkers \subseteq Workers
  /\ WaitingCallers \subseteq Callers /\ Offering \subseteq Callers
  /\ ReadyWorkers' \subseteq Workers /\ IdleWorkers' \subseteq Workers
  /\ WaitingCallers' \subseteq Callers /\ Offering' \subseteq Callers
  BY DEF ReadyWorkers, IdleWorkers, WaitingCallers, Offering

LEMMA IdleCount ==
  ASSUME NEW w \in Workers, NEW label, Moves(w, label)
  PROVE  /\ (label \in IdlePcs <=> wk[w].pc \in IdlePcs)
              => Cardinality(IdleWorkers') = Cardinality(IdleWorkers)
         /\ label \in IdlePcs /\ wk[w].pc \notin IdlePcs
              => Cardinality(IdleWorkers') = Cardinality(IdleWorkers) + 1
         /\ label \notin IdlePcs /\ wk[w].pc \in IdlePcs
              => Cardinality(IdleWorkers') = Cardinality(IdleWorkers) - 1
<1>1. ASSUME NEW u \in Workers
      PROVE  /\ u # w => (u \in IdleWorkers' <=> u \in IdleWorkers)
             /\ u = w => (u \in IdleWorkers' <=> label \in IdlePcs)
             /\ u \in IdleWorkers <=> wk[u].pc \in IdlePcs
  BY DEF IdleWorkers, Moves
<1>2. ASSUME label \in IdlePcs <=> wk[w].pc \in IdlePcs
      PROVE  IdleWorkers' = IdleWorkers
  BY <1>1, <1>2, ThreadSets, SMTT(30)
<1>3. ASSUME label \in IdlePcs, wk[w].pc \notin IdlePcs
      PROVE  IdleWorkers' = IdleWorkers \cup {w} /\ w \notin IdleWorkers
  BY <1>1, <1>3, ThreadSets, SMTT(30)
<1>4. ASSUME label \notin IdlePcs, wk[w].pc \in IdlePcs
      PROVE  IdleWorkers' = IdleWorkers \ {w} /\ w \in IdleWorkers
  BY <1>1, <1>4, ThreadSets, SMTT(30)
<1>5. QED
  BY <1>2, <1>3, <1>4, ThreadSets, OneMore, OneLess

LEMMA ReadyCount ==
  ASSUME NEW w \in Workers, NEW label, Moves(w, label), m_gateCount' = m_gateCount, ~Ready(w)
  PROVE  /\ ~Ready(w)' => Cardinality(ReadyWorkers') = Cardinality(ReadyWorkers)
         /\ Ready(w)' => Cardinality(ReadyWorkers') = Cardinality(ReadyWorkers) + 1
<1>1. ASSUME NEW u \in Workers
      PROVE  /\ u # w => (u \in ReadyWorkers' <=> u \in ReadyWorkers)
             /\ u = w => (u \in ReadyWorkers' <=> Ready(w)') /\ u \notin ReadyWorkers
  BY DEF ReadyWorkers, Moves, Ready
<1>2. ASSUME ~Ready(w)'
      PROVE  ReadyWorkers' = ReadyWorkers
  BY <1>1, <1>2, ThreadSets, SMTT(30)
<1>3. ASSUME Ready(w)'
      PROVE  ReadyWorkers' = ReadyWorkers \cup {w} /\ w \notin ReadyWorkers
  BY <1>1, <1>3, ThreadSets, SMTT(30)
<1>4. QED
  BY <1>2, <1>3, ThreadSets, OneMore

LEMMA WaitingCount ==
  ASSUME NEW c \in Callers, NEW label, CallerMoves(c, label)
  PROVE  /\ (label \in WaitPcs <=> cl[c].pc \in WaitPcs)
              => Cardinality(WaitingCallers') = Cardinality(WaitingCallers)
         /\ label \in WaitPcs /\ cl[c].pc \notin WaitPcs
              => Cardinality(WaitingCallers') = Cardinality(WaitingCallers) + 1
         /\ label \notin WaitPcs /\ cl[c].pc \in WaitPcs
              => Cardinality(WaitingCallers') = Cardinality(WaitingCallers) - 1
<1>1. ASSUME NEW d \in Callers
      PROVE  /\ d # c => (d \in WaitingCallers' <=> d \in WaitingCallers)
             /\ d = c => (d \in WaitingCallers' <=> label \in WaitPcs)
             /\ d \in WaitingCallers <=> cl[d].pc \in WaitPcs
  BY DEF WaitingCallers, CallerMoves
<1>2. ASSUME label \in WaitPcs <=> cl[c].pc \in WaitPcs
      PROVE  WaitingCallers' = WaitingCallers
  BY <1>1, <1>2, ThreadSets, SMTT(30)
<1>3. ASSUME label \in WaitPcs, cl[c].pc \notin WaitPcs
      PROVE  WaitingCallers' = WaitingCallers \cup {c} /\ c \notin WaitingCallers
  BY <1>1, <1>3, ThreadSets, SMTT(30)
<1>4. ASSUME label \notin WaitPcs, cl[c].pc \in WaitPcs
      PROVE  WaitingCallers' = WaitingCallers \ {c} /\ c \in WaitingCallers
  BY <1>1, <1>4, ThreadSets, SMTT(30)
<1>5. QED
  BY <1>2, <1>3, <1>4, ThreadSets, OneMore, OneLess

LEMMA OfferCount ==
  ASSUME NEW c \in Callers, NEW label, CallerMoves(c, label)
  PROVE  /\ (label \in OfferPcs <=> cl[c].pc \in OfferPcs)
              => Cardinality(Offering') = Cardinality(Offering)
         /\ label \in OfferPcs /\ cl[c].pc \notin OfferPcs
              => Cardinality(Offering') = Cardinality(Offering) + 1
         /\ label \notin OfferPcs /\ cl[c].pc \in OfferPcs
              => Cardinality(Offering') = Cardinality(Offering) - 1
<1>1. ASSUME NEW d \in Callers
      PROVE  /\ d # c => (d \in Offering' <=> d \in Offering)
             /\ d = c => (d \in Offering' <=> label \in OfferPcs)
             /\ d \in Offering <=> cl[d].pc \in OfferPcs
  BY DEF Offering, CallerMoves
<1>2. ASSUME label \in OfferPcs <=> cl[c].pc \in OfferPcs
      PROVE  Offering' = Offering
  <2>1. \A d \in Callers : d \in Offering' <=> d \in Offering
    BY <1>1, <1>2
  <2>2. QED
    BY <2>1, ThreadSets
<1>3. ASSUME label \in OfferPcs, cl[c].pc \notin OfferPcs
      PROVE  Offering' = Offering \cup {c} /\ c \notin Offering
  BY <1>1, <1>3, ThreadSets, SMTT(30)
<1>4. ASSUME label \notin OfferPcs, cl[c].pc \in OfferPcs
      PROVE  Offering' = Offering \ {c} /\ c \in Offering
  BY <1>1, <1>4, ThreadSets, SMTT(30)
<1>5. QED
  BY <1>2, <1>3, <1>4, ThreadSets, OneMore, OneLess

-----------------------------------------------------------------------------
(* A step keeps the counts and the types                                   *)

LEMMA WorkerCounts ==
  ASSUME CountInv, NEW w \in Workers, NEW label, Moves(w, label), m_gateCount' = m_gateCount,
         ~Ready(w),
         ~Ready(w)', UNCHANGED <<m_numThreadsReady, m_idleThreads, cl, pushed, added,
                                 waitingPushers>>,
         label \in IdlePcs <=> wk[w].pc \in IdlePcs, popped' + Len(items') = popped + Len(items)
  PROVE  CountInv'
<1>1. Cardinality(IdleWorkers') = Cardinality(IdleWorkers)
  BY IdleCount
<1>2. Cardinality(ReadyWorkers') = Cardinality(ReadyWorkers)
  BY ReadyCount
<1>3. WaitingCallers' = WaitingCallers /\ Offering' = Offering
  BY DEF WaitingCallers, Offering
<1>4. QED
  BY <1>1, <1>2, <1>3 DEF CountInv
-----------------------------------------------------------------------------
(* Types follow from the counts                                            *)

\* What TypeOK says of the variables no thread counts itself in
FieldsOK ==
    /\ items \in Seq(Jobs) /\ Len(items) \in 0 .. Capacity /\ enabled \in BOOLEAN
    /\ pushed \in Nat /\ counted \in 0 .. pushed /\ popped \in Nat /\ pushSemaphore \in Nat
    /\ m_status \in {"Stop", "Run", "Drain"} /\ m_semaphore \in Nat /\ m_gateCount \in Nat
    /\ wk \in [Workers -> WorkerType] /\ cl \in [Callers -> CallerType] /\ ctl \in ControlType
    /\ added \in 0 .. MaxJobs /\ commands \in 0 .. MaxCommands
    /\ ran \subseteq Jobs /\ cancelled \subseteq Jobs

LEMMA FieldsTyped ==
  ASSUME TypeOK
  PROVE  FieldsOK
<1>1. pushed \in Nat /\ popped \in Nat
  <2>1. pushed \in 0 .. MaxJobs /\ popped \in 0 .. pushed
    BY DEF TypeOK
  <2>2. QED
    BY <2>1, SMTT(30)
<1>2. wk \in [Workers -> WorkerType] /\ cl \in [Callers -> CallerType] /\ ctl \in ControlType
  BY WorkersTyped, CallersTyped, ControlTyped
<1>3. QED
  BY <1>1, <1>2 DEF FieldsOK, TypeOK

LEMMA CountsTyped ==
  ASSUME CountInv', FieldsOK'
  PROVE  TypeOK'
<1>1. /\ Cardinality(ReadyWorkers') \in Nat /\ Cardinality(IdleWorkers') \in Nat
      /\ Cardinality(WaitingCallers') \in Nat /\ Cardinality(Offering') \in Nat
      /\ Cardinality(IdleWorkers') <= Cardinality(Workers)
      /\ Cardinality(WaitingCallers') <= Cardinality(Callers)
  BY ThreadSets, SomeThreads
<1>2. Cardinality(Workers) \in Nat /\ Cardinality(Callers) \in Nat
  BY SomeThreads
<1>3. /\ m_numThreadsReady' \in Nat /\ m_idleThreads' \in 0 .. Cardinality(Workers)
      /\ waitingPushers' \in 0 .. Cardinality(Callers)
  BY <1>1, <1>2, SMTT(30) DEF CountInv
<1>4. pushed' \in 0 .. MaxJobs /\ popped' \in 0 .. pushed'
  <2>1. pushed' + Cardinality(Offering') <= added' /\ popped' + Len(items') = pushed'
    BY DEF CountInv
  <2>2. added' \in 0 .. MaxJobs /\ Len(items') \in 0 .. Capacity /\ pushed' \in Nat /\ popped' \in Nat
    BY DEF FieldsOK
  <2>3. MaxJobs \in Nat
    BY PoolAssumption
  <2>4. QED
    BY <1>1, <2>1, <2>2, <2>3, SMTT(30)
<1>5. QED
  BY <1>3, <1>4 DEF TypeOK, FieldsOK, WorkerType, WorkerPcs, CallerType, CallerPcs,
     ControlType, ControlPcs

LEMMA WorkerTypes ==
  ASSUME FieldsOK, CountInv', NEW w \in Workers, NEW label, Moves(w, label),
         items' \in Seq(Jobs), Len(items') \in 0 .. Capacity, popped' \in Nat, ran' \subseteq Jobs,
         pushSemaphore' \in Nat, m_semaphore' \in Nat, Stays,
         UNCHANGED <<enabled, pushed, counted, commands, cancelled>>
  PROVE  TypeOK'
<1>1. FieldsOK'
  BY DEF FieldsOK, Stays, Moves
<1>2. QED
  BY <1>1, CountsTyped

\* A worker that takes no job and counts itself nowhere
LEMMA WorkerIInv ==
  ASSUME ControlInv, CountInv, FieldsOK, NEW w \in Workers, NEW label, Moves(w, label), WorkInv',
         Stays,
         label \notin IdlePcs, wk[w].pc \notin IdlePcs, ~Ready(w), label # "gate",
         ran' \subseteq Jobs, pushSemaphore' \in Nat,
         UNCHANGED <<items, enabled, pushed, counted, popped, waitingPushers, m_idleThreads,
                     m_semaphore, m_numThreadsReady, commands, cancelled>>
  PROVE  IInv'
<1>1. m_gateCount' = m_gateCount /\ cl' = cl /\ added' = added
  BY DEF Stays
<1>2. ~Ready(w)' /\ popped' + Len(items') = popped + Len(items)
  BY DEF Ready, Moves
<1>3. CountInv'
  BY <1>1, <1>2, WorkerCounts
<1>4. TypeOK'
  BY <1>3, WorkerTypes DEF FieldsOK
<1>5. ControlInv'
  BY DEF Stays, ControlInv
<1>6. QED
  BY <1>3, <1>4, <1>5 DEF IInv, WorkInv

LEMMA Parts ==
  ASSUME IInv
  PROVE  TypeOK /\ ControlInv /\ WorkInv /\ CountInv /\ FieldsOK
  BY FieldsTyped DEF IInv, WorkInv
-----------------------------------------------------------------------------
(* Every step of a worker keeps the invariant                              *)

LEMMA OutsideIdle ==
  /\ \A p \in {"none", "begin", "arrive", "gate", "status", "run", "pop", "guard", "job", "idle", "after",
               "drain", "drainPop", "drainGuard", "drainJob"} : p \notin IdlePcs
  /\ \A p \in IdlePcs : p # "gate"
  BY SMTT(30) DEF IdlePcs

LEMMA WorkerBeginNext ==
  ASSUME TypeOK, ControlInv, WorkInv, CountInv, FieldsOK, NEW w \in Workers, WorkerBegin(w)
  PROVE  IInv'
<1>1. WorkInv' /\ Moves(w, "arrive") /\ FieldsOK
  BY BeginKeeps
<1>2. /\ wk[w].pc = "begin" /\ Stays /\ ran' = ran /\ pushSemaphore' = pushSemaphore
      /\ UNCHANGED <<items, enabled, pushed, counted, popped, waitingPushers, m_idleThreads,
                     m_semaphore, m_numThreadsReady, commands, cancelled>>
  BY DEF WorkerBegin, WorkerAt, Stays, queue, pool
<1>3. ~Ready(w)
  BY <1>2, SMTT(30) DEF Ready
<1>4. QED
  BY <1>1, <1>2, <1>3, OutsideIdle, WorkerIInv DEF FieldsOK

LEMMA ArriveNext ==
  ASSUME TypeOK, ControlInv, WorkInv, CountInv, FieldsOK, NEW w \in Workers, Arrive(w)
  PROVE  IInv'
<1>1. WorkInv' /\ Walks(w, "gate")
  BY ArriveKeeps
<1>2. /\ wk[w].pc = "arrive" /\ Stays /\ ran' = ran /\ m_numThreadsReady' = m_numThreadsReady + 1
      /\ UNCHANGED <<items, enabled, pushed, counted, popped, waitingPushers, m_idleThreads,
                     m_semaphore, commands, cancelled, pushSemaphore>>
  BY DEF Arrive, WorkerAt, Stays, queue
<1>3. ~Ready(w) /\ Ready(w)'
  <2>1. wk[w].gate = m_gateCount /\ m_gateCount' = m_gateCount
    BY <1>2, WorkerPlaced, PlaceTells DEF Stays
  <2>2. "arrive" # "gate"
    BY SMTT(30)
  <2>3. QED
    BY <1>1, <1>2, <2>1, <2>2 DEF Ready, Walks, Moves
<1>4. CountInv'
  <2>1. Cardinality(ReadyWorkers') = Cardinality(ReadyWorkers) + 1
    BY <1>1, <1>2, <1>3, ReadyCount DEF Walks, Stays
  <2>2. Cardinality(IdleWorkers') = Cardinality(IdleWorkers)
    BY <1>1, <1>2, OutsideIdle, IdleCount DEF Walks
  <2>3. WaitingCallers' = WaitingCallers /\ Offering' = Offering /\ added' = added
    BY <1>2 DEF WaitingCallers, Offering, Stays
  <2>4. QED
    BY <1>2, <2>1, <2>2, <2>3 DEF CountInv
<1>5. TypeOK'
  BY <1>1, <1>2, <1>4, WorkerTypes DEF FieldsOK, Walks
<1>6. ControlInv'
  BY <1>2 DEF Stays, ControlInv
<1>7. QED
  BY <1>1, <1>4, <1>5, <1>6 DEF IInv, WorkInv

LEMMA PassGateNext ==
  ASSUME TypeOK, ControlInv, WorkInv, CountInv, FieldsOK, NEW w \in Workers, PassGate(w)
  PROVE  IInv'
<1>1. WorkInv' /\ Moves(w, "status") /\ FieldsOK
  BY PassGateKeeps
<1>2. /\ wk[w].pc = "gate" /\ wk[w].gate # m_gateCount /\ Stays /\ ran' = ran
      /\ pushSemaphore' = pushSemaphore
      /\ UNCHANGED <<items, enabled, pushed, counted, popped, waitingPushers, m_idleThreads,
                     m_semaphore, m_numThreadsReady, commands, cancelled>>
  BY DEF PassGate, WorkerAt, Stays, queue, pool
<1>3. ~Ready(w)
  BY <1>2 DEF Ready
<1>4. QED
  BY <1>1, <1>2, <1>3, OutsideIdle, WorkerIInv DEF FieldsOK

LEMMA LoadStatusNext ==
  ASSUME TypeOK, ControlInv, WorkInv, CountInv, FieldsOK, NEW w \in Workers, LoadStatus(w)
  PROVE  IInv'
<1>1. WorkInv' /\ FieldsOK
  BY LoadStatusKeeps
<1>2. PICK label \in {"run", "pop", "after", "drain", "drainPop", "none"} : Moves(w, label)
  BY LoadStatusKeeps
<1>3. /\ wk[w].pc \in {"status", "run", "after", "drain"} /\ Stays /\ ran' = ran
      /\ pushSemaphore' = pushSemaphore
      /\ UNCHANGED <<items, enabled, pushed, counted, popped, waitingPushers, m_idleThreads,
                     m_semaphore, m_numThreadsReady, commands, cancelled>>
  BY DEF LoadStatus, WorkerAt, Stays, queue, pool
<1>4. ~Ready(w) /\ label # "gate"
  BY <1>3, SMTT(30) DEF Ready
<1>5. label \notin IdlePcs /\ wk[w].pc \notin IdlePcs
  BY <1>3, OutsideIdle
<1>6. QED
  BY <1>1, <1>2, <1>3, <1>4, <1>5, WorkerIInv DEF FieldsOK

LEMMA PopNext ==
  ASSUME TypeOK, ControlInv, WorkInv, CountInv, FieldsOK, NEW w \in Workers, Pop(w)
  PROVE  IInv'
<1>1. WorkInv'
  BY PopKeeps
<1>2. PICK label \in {"guard", "drainGuard", "idle", "arrive"} : Moves(w, label)
  BY PopKeeps
<1>3. /\ wk[w].pc \in {"pop", "drainPop"} /\ Stays /\ ran' = ran /\ pushSemaphore' = pushSemaphore
      /\ UNCHANGED <<enabled, pushed, counted, waitingPushers, m_idleThreads, m_semaphore,
                     m_numThreadsReady, commands, cancelled, cl, added, m_gateCount>>
  BY DEF Pop, Stays, pool
<1>4. /\ items' \in Seq(Jobs) /\ Len(items') \in 0 .. Capacity /\ popped' \in Nat
      /\ popped' + Len(items') = popped + Len(items)
  <2>1. \/ items # <<>> /\ items' = Tail(items) /\ popped' = popped + 1
        \/ items' = items /\ popped' = popped
    BY DEF Pop
  <2>2. QED
    BY <2>1, ItemsLeft DEF FieldsOK
<1>5. ~Ready(w) /\ ~Ready(w)' /\ label \notin IdlePcs /\ wk[w].pc \notin IdlePcs
  <2>1. label # "gate" /\ wk[w].pc # "gate"
    BY <1>3, SMTT(30)
  <2>2. QED
    BY <1>2, <1>3, <2>1, OutsideIdle DEF Ready, Moves
<1>6. CountInv'
  BY <1>2, <1>3, <1>4, <1>5, WorkerCounts
<1>7. TypeOK'
  BY <1>2, <1>3, <1>4, <1>6, WorkerTypes DEF FieldsOK
<1>8. ControlInv'
  BY <1>3 DEF Stays, ControlInv
<1>9. QED
  BY <1>1, <1>6, <1>7, <1>8 DEF IInv, WorkInv

LEMMA PopGuardNext ==
  ASSUME TypeOK, ControlInv, WorkInv, CountInv, FieldsOK, NEW w \in Workers, PopGuard(w)
  PROVE  IInv'
<1>1. WorkInv' /\ FieldsOK
  BY PopGuardKeeps
<1>2. PICK label \in {"job", "drainJob"} : Moves(w, label)
  BY PopGuardKeeps
<1>3. /\ wk[w].pc \in {"guard", "drainGuard"} /\ Stays /\ ran' = ran
      /\ UNCHANGED <<items, enabled, pushed, counted, popped, waitingPushers, m_idleThreads,
                     m_semaphore, m_numThreadsReady, commands, cancelled>>
  BY DEF PopGuard, Stays, pool
<1>4. pushSemaphore' \in Nat
  BY <1>1, SMTT(30) DEF PopGuard, WakePusher, FieldsOK
<1>5. ~Ready(w) /\ label # "gate"
  BY <1>3, SMTT(30) DEF Ready
<1>6. label \notin IdlePcs /\ wk[w].pc \notin IdlePcs
  BY <1>3, OutsideIdle
<1>7. QED
  BY <1>1, <1>2, <1>3, <1>4, <1>5, <1>6, WorkerIInv DEF FieldsOK

LEMMA RunJobNext ==
  ASSUME TypeOK, ControlInv, WorkInv, CountInv, FieldsOK, NEW w \in Workers, RunJob(w)
  PROVE  IInv'
<1>1. TypeOK /\ WorkInv' /\ FieldsOK /\ WorkInv
  BY RunJobKeeps
<1>2. PICK label \in {"run", "drain"} : Moves(w, label)
  BY RunJobKeeps
<1>3. /\ wk[w].pc \in {"job", "drainJob"} /\ Stays /\ pushSemaphore' = pushSemaphore
      /\ UNCHANGED <<items, enabled, pushed, counted, popped, waitingPushers, m_idleThreads,
                     m_semaphore, m_numThreadsReady, commands, cancelled>>
  BY DEF RunJob, Stays, pool, queue
<1>4. ran' \subseteq Jobs
  <2>1. wk[w].pc \in HoldPcs
    BY <1>3, SMTT(30) DEF HoldPcs
  <2>2. wk[w].job \in Jobs
    BY <1>1, <2>1, NoJobNumber DEF WorkInv, JobInv
  <2>3. QED
    BY <1>1, <2>2 DEF RunJob, FieldsOK
<1>5. ~Ready(w) /\ label # "gate"
  BY <1>3, SMTT(30) DEF Ready
<1>6. label \notin IdlePcs /\ wk[w].pc \notin IdlePcs
  BY <1>3, OutsideIdle
<1>7. QED
  BY <1>1, <1>2, <1>3, <1>4, <1>5, <1>6, WorkerIInv DEF FieldsOK

LEMMA IdleWaitNext ==
  ASSUME TypeOK, ControlInv, WorkInv, CountInv, FieldsOK, NEW w \in Workers, IdleWait(w)
  PROVE  IInv'
<1>1. WorkInv'
  BY IdleWaitKeeps
<1>2. /\ Stays /\ ran' = ran
      /\ UNCHANGED <<items, enabled, pushed, counted, popped, waitingPushers, m_numThreadsReady,
                     commands, cancelled, pushSemaphore>>
  BY DEF IdleWait, Stays, queue
<1>3. PICK label :
        /\ Moves(w, label) /\ label # "gate" /\ wk[w].pc # "gate"
        /\ \/ wk[w].pc \notin IdlePcs /\ label \in IdlePcs /\ m_idleThreads' = m_idleThreads + 1
           \/ wk[w].pc \in IdlePcs /\ label \in IdlePcs /\ m_idleThreads' = m_idleThreads
           \/ wk[w].pc \in IdlePcs /\ label \notin IdlePcs /\ m_idleThreads' = m_idleThreads - 1
  <2>1. ASSUME NEW label \in IdlePcs \cup {"run"}, WorkerGoto(w, label)
        PROVE  Moves(w, label)
    <3>1. label \in WorkerPcs /\ label # "none"
      BY SMTT(30) DEF IdlePcs, WorkerPcs
    <3>2. QED
      BY <2>1, <3>1, WorkerWalks DEF Walks
  <2>2. /\ "isRunning" \in IdlePcs /\ "isEmpty" \in IdlePcs /\ "sleep" \in IdlePcs /\ "awake" \in IdlePcs
        /\ "run" # "gate" /\ "idle" # "gate"
    BY SMTT(30) DEF IdlePcs
  <2>3. CASE WorkerAt(w, "idle") /\ WorkerGoto(w, "isRunning") /\ m_idleThreads' = m_idleThreads + 1
    BY <2>1, <2>2, <2>3, OutsideIdle DEF WorkerAt
  <2>4. CASE /\ WorkerAt(w, "isRunning") /\ m_idleThreads' = m_idleThreads
             /\ WorkerGoto(w, IF m_status = "Run" THEN "isEmpty" ELSE "awake")
    BY <2>1, <2>2, <2>4, OutsideIdle DEF WorkerAt
  <2>5. CASE /\ WorkerAt(w, "isEmpty") /\ m_idleThreads' = m_idleThreads
             /\ WorkerGoto(w, IF empty THEN "sleep" ELSE "awake")
    BY <2>1, <2>2, <2>5, OutsideIdle DEF WorkerAt
  <2>6. CASE WorkerAt(w, "sleep") /\ WorkerGoto(w, "awake") /\ m_idleThreads' = m_idleThreads
    BY <2>1, <2>2, <2>6, OutsideIdle DEF WorkerAt
  <2>7. CASE WorkerAt(w, "awake") /\ WorkerGoto(w, "run") /\ m_idleThreads' = m_idleThreads - 1
    BY <2>1, <2>2, <2>7, OutsideIdle DEF WorkerAt
  <2>8. QED
    BY <2>3, <2>4, <2>5, <2>6, <2>7 DEF IdleWait
<1>4. m_semaphore' \in Nat
  <2>1. m_semaphore \in Nat
    BY DEF FieldsOK
  <2>2. m_semaphore' = m_semaphore \/ (m_semaphore > 0 /\ m_semaphore' = m_semaphore - 1)
    BY DEF IdleWait
  <2>3. QED
    BY <2>1, <2>2, SMTT(30)
<1>5. CountInv'
  <2>1. Cardinality(IdleWorkers') = m_idleThreads'
    <3>1. m_idleThreads = Cardinality(IdleWorkers)
      BY DEF CountInv
    <3>2. \/ Cardinality(IdleWorkers') = Cardinality(IdleWorkers) + 1 /\ m_idleThreads' = m_idleThreads + 1
          \/ Cardinality(IdleWorkers') = Cardinality(IdleWorkers) /\ m_idleThreads' = m_idleThreads
          \/ Cardinality(IdleWorkers') = Cardinality(IdleWorkers) - 1 /\ m_idleThreads' = m_idleThreads - 1
      BY <1>3, IdleCount
    <3>3. QED
      BY <3>1, <3>2, SMTT(30)
  <2>2. ~Ready(w) /\ ~Ready(w)' /\ m_gateCount' = m_gateCount
    BY <1>2, <1>3 DEF Ready, Moves, Stays
  <2>3. Cardinality(ReadyWorkers') = Cardinality(ReadyWorkers)
    BY <1>3, <2>2, ReadyCount
  <2>4. WaitingCallers' = WaitingCallers /\ Offering' = Offering /\ added' = added
    BY <1>2 DEF WaitingCallers, Offering, Stays
  <2>5. QED
    BY <1>2, <2>1, <2>3, <2>4 DEF CountInv
<1>6. TypeOK'
  BY <1>2, <1>3, <1>4, <1>5, WorkerTypes DEF FieldsOK
<1>7. ControlInv'
  BY <1>2 DEF Stays, ControlInv
<1>8. QED
  BY <1>1, <1>5, <1>6, <1>7 DEF IInv, WorkInv

LEMMA WorkerNext ==
  ASSUME TypeOK, ControlInv, WorkInv, CountInv, FieldsOK, NEW w \in Workers, WorkerStep(w)
  PROVE  IInv'
  BY WorkerBeginNext, ArriveNext, PassGateNext, LoadStatusNext, PopNext, PopGuardNext, RunJobNext,
     IdleWaitNext DEF WorkerStep
-----------------------------------------------------------------------------
(* Every step of a caller keeps the invariant                              *)

LEMMA CallerTypes ==
  ASSUME FieldsOK, CountInv', NEW c \in Callers, NEW label, CallerMoves(c, label), Aside,
         items' \in Seq(Jobs), Len(items') \in 0 .. Capacity, pushed' \in Nat,
         counted' \in 0 .. pushed',
         pushSemaphore' \in Nat, m_semaphore' \in Nat, added' \in 0 .. MaxJobs,
         UNCHANGED <<enabled, popped, commands, cancelled>>
  PROVE  TypeOK'
<1>1. FieldsOK'
  BY DEF FieldsOK, Aside, CallerMoves
<1>2. QED
  BY <1>1, CountsTyped

LEMMA AsideCounts ==
  ASSUME Aside
  PROVE  IdleWorkers' = IdleWorkers /\ ReadyWorkers' = ReadyWorkers
<1>1. \A w \in Workers : Ready(w)' <=> Ready(w)
  BY DEF Aside, Ready
<1>2. ReadyWorkers' = ReadyWorkers
  BY <1>1 DEF ReadyWorkers
<1>3. IdleWorkers' = IdleWorkers
  BY DEF IdleWorkers, Aside
<1>4. QED
  BY <1>2, <1>3

LEMMA PlacesOfCallers ==
  /\ WaitPcs \subseteq OfferPcs
  /\ \A p \in {"load", "push", "full"} : p \in OfferPcs /\ p \notin WaitPcs
  /\ \A p \in {"out", "notify"} : p \notin OfferPcs /\ p \notin WaitPcs
  /\ "isFull" \in WaitPcs /\ "woken" \in WaitPcs
  BY SMTT(30) DEF WaitPcs, OfferPcs

LEMMA AddJobNext ==
  ASSUME TypeOK, ControlInv, WorkInv, CountInv, FieldsOK, NEW c \in Callers, AddJob(c)
  PROVE  IInv'
<1>1. WorkInv' /\ ControlInv' /\ CallerMoves(c, "load")
  BY AddJobKeeps
<1>2. /\ Aside /\ cl[c].pc = "out" /\ added < MaxJobs /\ added' = added + 1
      /\ UNCHANGED <<items, enabled, pushed, counted, popped, waitingPushers, pushSemaphore,
                     m_idleThreads, m_semaphore, m_numThreadsReady, commands, cancelled>>
  BY DEF AddJob, CallerAt, Aside, queue, pool
<1>3. /\ Cardinality(WaitingCallers') = Cardinality(WaitingCallers)
      /\ Cardinality(Offering') = Cardinality(Offering) + 1
  BY <1>1, <1>2, PlacesOfCallers, WaitingCount, OfferCount
<1>4. Cardinality(Offering) \in Nat /\ added \in 0 .. MaxJobs /\ pushed \in Nat /\ MaxJobs \in Nat
  BY ThreadSets, SomeThreads, PoolAssumption DEF FieldsOK
<1>5. pushed' + Cardinality(Offering') <= added' /\ added' \in 0 .. MaxJobs
  <2>1. pushed + Cardinality(Offering) <= added
    BY DEF CountInv
  <2>2. QED
    BY <1>2, <1>3, <1>4, <2>1, SMTT(30)
<1>6. CountInv'
  BY <1>2, <1>3, <1>5, AsideCounts DEF CountInv
<1>7. TypeOK'
  BY <1>1, <1>2, <1>5, <1>6, CallerTypes DEF FieldsOK
<1>8. QED
  BY <1>1, <1>6, <1>7 DEF IInv, WorkInv

\* A caller that pushes nothing
LEMMA CallerIInv ==
  ASSUME CountInv, FieldsOK, NEW c \in Callers, NEW label, CallerMoves(c, label), WorkInv',
         ControlInv', Aside,
         label \in OfferPcs => cl[c].pc \in OfferPcs,
         Cardinality(WaitingCallers') = waitingPushers',
         pushSemaphore' \in Nat, m_semaphore' \in Nat,
         UNCHANGED <<items, enabled, pushed, counted, popped, added, m_idleThreads,
                     m_numThreadsReady, commands, cancelled>>
  PROVE  IInv'
<1>1. \/ Cardinality(Offering') = Cardinality(Offering)
      \/ Cardinality(Offering') = Cardinality(Offering) - 1
  BY OfferCount
<1>2. Cardinality(Offering) \in Nat /\ added \in 0 .. MaxJobs /\ pushed \in Nat
  BY ThreadSets, SomeThreads DEF FieldsOK
<1>3. pushed' + Cardinality(Offering') <= added'
  <2>1. pushed + Cardinality(Offering) <= added
    BY DEF CountInv
  <2>2. QED
    BY <1>1, <1>2, <2>1, SMTT(30)
<1>4. CountInv'
  BY <1>3, AsideCounts DEF CountInv
<1>5. TypeOK'
  BY <1>4, CallerTypes DEF FieldsOK
<1>6. QED
  BY <1>4, <1>5 DEF IInv, WorkInv

LEMMA PushLoadNext ==
  ASSUME TypeOK, ControlInv, WorkInv, CountInv, FieldsOK, NEW c \in Callers, PushLoad(c)
  PROVE  IInv'
<1>1. WorkInv' /\ ControlInv'
  BY PushLoadKeeps
<1>2. PICK label \in {"push", "out"} : CallerMoves(c, label)
  BY PushLoadKeeps
<1>3. /\ Aside /\ cl[c].pc = "load"
      /\ UNCHANGED <<items, enabled, pushed, counted, popped, added, m_idleThreads,
                     m_numThreadsReady, commands, cancelled, waitingPushers, pushSemaphore,
                     m_semaphore>>
  BY DEF PushLoad, CallerAt, Aside, queue, pool
<1>4. Cardinality(WaitingCallers') = Cardinality(WaitingCallers)
  BY <1>2, <1>3, PlacesOfCallers, WaitingCount
<1>5. QED
  BY <1>1, <1>2, <1>3, <1>4, PlacesOfCallers, CallerIInv DEF CountInv, FieldsOK

LEMMA NotifyIdleNext ==
  ASSUME TypeOK, ControlInv, WorkInv, CountInv, FieldsOK, NEW c \in Callers, NotifyIdle(c)
  PROVE  IInv'
<1>1. WorkInv' /\ ControlInv' /\ CallerMoves(c, "out")
  BY NotifyIdleKeeps
<1>2. /\ Aside /\ cl[c].pc = "notify"
      /\ UNCHANGED <<items, enabled, pushed, counted, popped, added, m_idleThreads,
                     m_numThreadsReady, commands, cancelled, waitingPushers, pushSemaphore>>
  BY DEF NotifyIdle, CallerAt, Aside, queue
<1>3. m_semaphore' \in Nat
  BY SMTT(30) DEF NotifyIdle, WakeIdle, FieldsOK
<1>4. Cardinality(WaitingCallers') = Cardinality(WaitingCallers)
  BY <1>1, <1>2, PlacesOfCallers, WaitingCount
<1>5. QED
  BY <1>1, <1>2, <1>3, <1>4, PlacesOfCallers, CallerIInv DEF CountInv, FieldsOK

LEMMA PushWaitNext ==
  ASSUME TypeOK, ControlInv, WorkInv, CountInv, FieldsOK, NEW c \in Callers, PushWait(c)
  PROVE  IInv'
<1>1. WorkInv' /\ ControlInv'
  BY PushWaitKeeps
<1>2. PICK label :
        /\ CallerMoves(c, label)
        /\ \/ cl[c].pc = "full" /\ label \in WaitPcs /\ waitingPushers' = waitingPushers + 1
           \/ cl[c].pc \in WaitPcs /\ label \in WaitPcs /\ waitingPushers' = waitingPushers
           \/ cl[c].pc = "woken" /\ label = "load" /\ waitingPushers' = waitingPushers - 1
  BY PushWaitKeeps, PlacesOfCallers
<1>3. /\ Aside /\ m_semaphore' = m_semaphore
      /\ UNCHANGED <<items, enabled, pushed, counted, popped, added, m_idleThreads,
                     m_numThreadsReady, commands, cancelled>>
  BY DEF PushWait, Aside, pool
<1>4. pushSemaphore' \in Nat
  <2>1. pushSemaphore \in Nat
    BY DEF FieldsOK
  <2>2. pushSemaphore' = pushSemaphore \/ (pushSemaphore > 0 /\ pushSemaphore' = pushSemaphore - 1)
    BY DEF PushWait
  <2>3. QED
    BY <2>1, <2>2, SMTT(30)
<1>5. Cardinality(WaitingCallers') = waitingPushers'
  <2>1. waitingPushers = Cardinality(WaitingCallers)
    BY DEF CountInv
  <2>2. \/ /\ Cardinality(WaitingCallers') = Cardinality(WaitingCallers) + 1
           /\ waitingPushers' = waitingPushers + 1
        \/ Cardinality(WaitingCallers') = Cardinality(WaitingCallers) /\ waitingPushers' = waitingPushers
        \/ /\ Cardinality(WaitingCallers') = Cardinality(WaitingCallers) - 1
           /\ waitingPushers' = waitingPushers - 1
    BY <1>2, PlacesOfCallers, WaitingCount
  <2>3. QED
    BY <2>1, <2>2, SMTT(30)
<1>6. cl[c].pc \in OfferPcs
  BY <1>2, PlacesOfCallers
<1>7. QED
  BY <1>1, <1>2, <1>3, <1>4, <1>5, <1>6, CallerIInv DEF FieldsOK

LEMMA PushNext ==
  ASSUME TypeOK, ControlInv, WorkInv, CountInv, FieldsOK, NEW c \in Callers, Push(c)
  PROVE  IInv'
<1>1. WorkInv' /\ ControlInv'
  BY PushKeeps
<1>2. /\ Aside /\ cl[c].pc = "push"
      /\ UNCHANGED <<enabled, popped, added, m_idleThreads, m_numThreadsReady, commands, cancelled,
                     waitingPushers, pushSemaphore, m_semaphore>>
  BY DEF Push, CallerAt, Aside, pool
<1>3. CASE /\ CallerMoves(c, "notify") /\ HasRoom /\ cl[c].job \in Jobs
           /\ items' = Append(items, cl[c].job) /\ pushed' = pushed + 1
           /\ counted' = (IF enabled THEN pushed + 1 ELSE counted)
  <2>1. /\ Cardinality(WaitingCallers') = Cardinality(WaitingCallers)
        /\ Cardinality(Offering') = Cardinality(Offering) - 1
    BY <1>2, <1>3, PlacesOfCallers, WaitingCount, OfferCount
  <2>2. /\ Cardinality(Offering) \in Nat /\ pushed \in Nat /\ popped \in Nat /\ Capacity \in Nat
        /\ counted \in 0 .. pushed /\ added \in Nat /\ Len(items) \in Nat
    <3>1. Len(items) \in Nat /\ added \in Nat
      BY PoolAssumption, SMTT(30) DEF FieldsOK
    <3>2. QED
      BY <3>1, ThreadSets, SomeThreads, PoolAssumption DEF FieldsOK
  <2>3. Len(items') = Len(items) + 1 /\ items' \in Seq(Jobs)
    BY <1>3, PushItems
  <2>4. /\ pushed + Cardinality(Offering) <= added /\ popped + Len(items) = pushed
        /\ Len(items) < Capacity
    BY <1>3 DEF CountInv, HasRoom
  <2>5. /\ pushed' + Cardinality(Offering') <= added' /\ popped' + Len(items') = pushed'
        /\ pushed' \in Nat /\ counted' \in 0 .. pushed' /\ Len(items') \in 0 .. Capacity
    <3>1. /\ Len(items) + 1 \in 0 .. Capacity /\ popped + (Len(items) + 1) = pushed + 1
          /\ (pushed + 1) + (Cardinality(Offering) - 1) <= added
          /\ pushed + 1 \in Nat /\ counted \in 0 .. pushed + 1 /\ pushed + 1 \in 0 .. pushed + 1
      BY <2>2, <2>4, SMTT(30)
    <3>2. counted' = pushed + 1 \/ counted' = counted
      BY <1>3
    <3>3. counted' \in 0 .. pushed'
      BY <1>3, <3>1, <3>2
    <3>4. QED
      BY <1>2, <1>3, <2>1, <2>3, <3>1, <3>3
  <2>6. CountInv'
    BY <1>2, <2>1, <2>5, AsideCounts DEF CountInv
  <2>7. TypeOK'
    BY <1>2, <1>3, <2>3, <2>5, <2>6, CallerTypes DEF FieldsOK
  <2>8. QED
    BY <1>1, <2>6, <2>7 DEF IInv, WorkInv
<1>4. ASSUME NEW label \in {"full", "out"}, CallerMoves(c, label),
             UNCHANGED <<items, pushed, counted>>
      PROVE  IInv'
  <2>1. Cardinality(WaitingCallers') = Cardinality(WaitingCallers)
    BY <1>2, <1>4, PlacesOfCallers, WaitingCount
  <2>2. QED
    BY <1>1, <1>2, <1>4, <2>1, PlacesOfCallers, CallerIInv DEF CountInv, FieldsOK
<1>5. QED
  BY <1>3, <1>4, PushKeeps

LEMMA CallerNext ==
  ASSUME TypeOK, ControlInv, WorkInv, CountInv, FieldsOK, NEW c \in Callers,
         AddJob(c) \/ CallerStep(c)
  PROVE  IInv'
  BY AddJobNext, PushLoadNext, PushNext, NotifyIdleNext, PushWaitNext DEF CallerStep
-----------------------------------------------------------------------------
(* Every step of the controlling thread keeps the invariant                *)

LEMMA ControlIInv ==
  ASSUME FieldsOK, WorkInv', ControlInv', ctl' \in ControlType, CountInv',
         UNCHANGED <<cl, added, ran, pushed, counted>>,
         wk' \in [Workers -> WorkerType], m_gateCount' \in Nat,
         m_status' \in {"Stop", "Run", "Drain"},
         items' \in Seq(Jobs), Len(items') \in 0 .. Capacity, popped' \in Nat,
         cancelled' \subseteq Jobs,
         enabled' \in BOOLEAN, pushSemaphore' \in Nat, m_semaphore' \in Nat,
         commands' \in 0 .. MaxCommands
  PROVE  IInv'
<1>1. FieldsOK'
  BY DEF FieldsOK
<1>2. TypeOK'
  BY <1>1, CountsTyped
<1>3. QED
  BY <1>2 DEF IInv, WorkInv

\* The controlling thread touches neither the queue nor the workers
LEMMA ControlCounts ==
  ASSUME CountInv,
         UNCHANGED <<wk, m_gateCount, cl, m_numThreadsReady, m_idleThreads, waitingPushers, pushed,
                     added>>,
         popped' + Len(items') = popped + Len(items)
  PROVE  CountInv'
<1>1. \A w \in Workers : Ready(w)' <=> Ready(w)
  BY DEF Ready
<1>2. ReadyWorkers' = ReadyWorkers
  BY <1>1 DEF ReadyWorkers
<1>3. IdleWorkers' = IdleWorkers /\ WaitingCallers' = WaitingCallers /\ Offering' = Offering
  BY DEF IdleWorkers, WaitingCallers, Offering
<1>4. QED
  BY <1>2, <1>3 DEF CountInv

LEMMA CommandNext ==
  ASSUME TypeOK, ControlInv, WorkInv, CountInv, FieldsOK, Command
  PROVE  IInv'
<1>1. WorkInv' /\ ControlInv' /\ ctl' \in ControlType
  BY CommandKeeps
<1>2. /\ commands < MaxCommands /\ commands' = commands + 1
      /\ UNCHANGED <<items, enabled, pushed, counted, popped, waitingPushers, pushSemaphore,
                     m_status, m_idleThreads, m_semaphore, m_gateCount, m_numThreadsReady, wk, cl,
                     added, ran, cancelled>>
  BY DEF Command, queue, pool
<1>3. commands' \in 0 .. MaxCommands
  <2>1. commands \in 0 .. MaxCommands /\ MaxCommands \in Nat
    BY PoolAssumption DEF FieldsOK
  <2>2. QED
    BY <1>2, <2>1, SMTT(30)
<1>4. CountInv'
  BY <1>2, ControlCounts
<1>5. QED
  BY <1>1, <1>2, <1>3, <1>4, ControlIInv DEF FieldsOK

LEMMA SpawnNext ==
  ASSUME TypeOK, ControlInv, WorkInv, CountInv, FieldsOK, Spawn, ~SpawnMayFail
  PROVE  IInv'
<1>1. WorkInv' /\ ControlInv' /\ ctl' \in ControlType
  BY SpawnKeeps
<1>2. PICK w \in Workers : wk[w].pc = "none" /\ Moves(w, "begin")
  BY SpawnKeeps
<1>3. UNCHANGED <<items, enabled, pushed, counted, popped, waitingPushers, pushSemaphore, m_status,
                  m_idleThreads, m_semaphore, m_gateCount, m_numThreadsReady, cl, added, commands,
                  ran, cancelled>>
  BY DEF Spawn, queue, pool
<1>4. ~Ready(w) /\ ~Ready(w)'
  <2>1. wk[w].pc # "gate" /\ wk'[w].pc # "gate"
    BY <1>2, SMTT(30) DEF Moves
  <2>2. QED
    BY <2>1 DEF Ready
<1>5. "begin" \notin IdlePcs /\ wk[w].pc \notin IdlePcs
  BY <1>2, OutsideIdle
<1>6. CountInv'
  BY <1>2, <1>3, <1>4, <1>5, WorkerCounts
<1>7. QED
  BY <1>1, <1>2, <1>3, <1>6, ControlIInv DEF FieldsOK, Moves

LEMMA SetDisabledNext ==
  ASSUME TypeOK, ControlInv, WorkInv, CountInv, FieldsOK, SetDisabled
  PROVE  IInv'
<1>1. WorkInv' /\ ControlInv' /\ ctl' \in ControlType
  BY SetDisabledKeeps
<1>2. /\ enabled' \in BOOLEAN
      /\ UNCHANGED <<items, pushed, counted, popped, waitingPushers, pushSemaphore, m_status,
                     m_idleThreads, m_semaphore, m_gateCount, m_numThreadsReady, wk, cl, added,
                     commands, ran, cancelled>>
  BY DEF SetDisabled, pool
<1>3. CountInv'
  BY <1>2, ControlCounts
<1>4. QED
  BY <1>1, <1>2, <1>3, ControlIInv DEF FieldsOK

LEMMA WakePushersNext ==
  ASSUME TypeOK, ControlInv, WorkInv, CountInv, FieldsOK, WakePushers
  PROVE  IInv'
<1>1. WorkInv' /\ ControlInv' /\ ctl' \in ControlType
  BY WakePushersKeeps
<1>2. UNCHANGED <<items, enabled, pushed, counted, popped, waitingPushers, m_status, m_idleThreads,
                  m_semaphore, m_gateCount, m_numThreadsReady, wk, cl, added, commands, ran,
                  cancelled>>
  BY DEF WakePushers, pool
<1>3. pushSemaphore' \in Nat
  <2>1. pushSemaphore \in Nat /\ waitingPushers \in 0 .. Cardinality(Callers)
    BY DEF TypeOK
  <2>2. QED
    BY <2>1, SMTT(30) DEF WakePushers
<1>4. CountInv'
  BY <1>2, ControlCounts
<1>5. QED
  BY <1>1, <1>2, <1>3, <1>4, ControlIInv DEF FieldsOK

LEMMA EnableNext ==
  ASSUME TypeOK, ControlInv, WorkInv, CountInv, FieldsOK, Enable
  PROVE  IInv'
<1>1. WorkInv' /\ ControlInv' /\ ctl' \in ControlType
  BY EnableKeeps
<1>2. /\ enabled' \in BOOLEAN
      /\ UNCHANGED <<items, pushed, counted, popped, waitingPushers, pushSemaphore, m_status,
                     m_idleThreads, m_semaphore, m_gateCount, m_numThreadsReady, wk, cl, added,
                     commands, ran, cancelled>>
  BY DEF Enable, pool
<1>3. CountInv'
  BY <1>2, ControlCounts
<1>4. QED
  BY <1>1, <1>2, <1>3, ControlIInv DEF FieldsOK

LEMMA SetStatusNext ==
  ASSUME TypeOK, ControlInv, WorkInv, CountInv, FieldsOK, SetStatus
  PROVE  IInv'
<1>1. WorkInv' /\ ControlInv' /\ ctl' \in ControlType /\ m_status' \in {"Stop", "Run", "Drain"}
  BY SetStatusKeeps
<1>2. UNCHANGED <<items, enabled, pushed, counted, popped, waitingPushers, pushSemaphore,
                  m_idleThreads, m_semaphore, m_gateCount, m_numThreadsReady, wk, cl, added,
                  commands, ran, cancelled>>
  BY DEF SetStatus, queue
<1>3. CountInv'
  BY <1>2, ControlCounts
<1>4. QED
  BY <1>1, <1>2, <1>3, ControlIInv DEF FieldsOK

LEMMA InterruptNext ==
  ASSUME TypeOK, ControlInv, WorkInv, CountInv, FieldsOK, Interrupt
  PROVE  IInv'
<1>1. WorkInv' /\ ControlInv' /\ ctl' \in ControlType
  BY InterruptKeeps
<1>2. UNCHANGED <<items, enabled, pushed, counted, popped, waitingPushers, pushSemaphore, m_status,
                  m_idleThreads, m_gateCount, m_numThreadsReady, wk, cl, added, commands, ran,
                  cancelled>>
  BY DEF Interrupt, queue
<1>3. m_semaphore' \in Nat
  <2>1. m_semaphore \in Nat /\ m_idleThreads \in 0 .. Cardinality(Workers)
    BY DEF TypeOK
  <2>2. QED
    BY <2>1, SMTT(30) DEF Interrupt, InterruptCount
<1>4. CountInv'
  BY <1>2, ControlCounts
<1>5. QED
  BY <1>1, <1>2, <1>3, <1>4, ControlIInv DEF FieldsOK

LEMMA WaitThreadsNext ==
  ASSUME TypeOK, ControlInv, WorkInv, CountInv, FieldsOK, WaitThreads
  PROVE  IInv'
<1>1. ReadyWorkers = Workers
  <2>1. Cardinality(ReadyWorkers) = Cardinality(Workers)
    BY DEF WaitThreads, allThreadsReady, CountInv
  <2>2. QED
    BY <2>1, ThreadSets, SomeThreads
<1>2. WorkInv' /\ ControlInv' /\ ctl' \in ControlType
  BY <1>1, WaitThreadsKeeps DEF ReadyWorkers
<1>3. UNCHANGED <<items, enabled, pushed, counted, popped, waitingPushers, pushSemaphore, m_status,
                  m_idleThreads, m_semaphore, m_gateCount, m_numThreadsReady, wk, cl, added,
                  commands, ran, cancelled>>
  BY DEF WaitThreads, queue, pool
<1>4. CountInv'
  BY <1>3, ControlCounts
<1>5. QED
  BY <1>2, <1>3, <1>4, ControlIInv DEF FieldsOK

LEMMA ReleaseNext ==
  ASSUME TypeOK, ControlInv, WorkInv, CountInv, FieldsOK, Release
  PROVE  IInv'
<1>1. WorkInv' /\ ControlInv' /\ ctl' \in ControlType /\ \A w \in Workers : ~Ready(w)'
  BY ReleaseKeeps
<1>2. /\ m_numThreadsReady' = 0 /\ m_gateCount' = m_gateCount + 1
      /\ UNCHANGED <<items, enabled, pushed, counted, popped, waitingPushers, pushSemaphore,
                     m_status, m_idleThreads, m_semaphore, wk, cl, added, commands, ran,
                     cancelled>>
  BY DEF Release, queue
<1>3. m_gateCount' \in Nat
  BY <1>2, SMTT(30) DEF FieldsOK
<1>4. Cardinality(ReadyWorkers') = 0
  <2>1. ReadyWorkers' = {}
    BY <1>1 DEF ReadyWorkers
  <2>2. QED
    BY <2>1, FS_EmptySet
<1>5. CountInv'
  <2>1. IdleWorkers' = IdleWorkers /\ WaitingCallers' = WaitingCallers /\ Offering' = Offering
    BY <1>2 DEF IdleWorkers, WaitingCallers, Offering
  <2>2. QED
    BY <1>2, <1>4, <2>1 DEF CountInv
<1>6. QED
  BY <1>1, <1>2, <1>3, <1>5, ControlIInv DEF FieldsOK

LEMMA RemoveAllNext ==
  ASSUME TypeOK, ControlInv, WorkInv, CountInv, FieldsOK, RemoveAll
  PROVE  IInv'
<1>1. WorkInv' /\ ControlInv' /\ ctl' \in ControlType
  BY RemoveAllKeeps
<1>2. UNCHANGED <<enabled, pushed, counted, waitingPushers, m_status, m_idleThreads, m_semaphore,
                  m_gateCount, m_numThreadsReady, wk, cl, added, commands, ran>>
  BY DEF RemoveAll, pool
<1>3. /\ items' \in Seq(Jobs) /\ Len(items') \in 0 .. Capacity /\ popped' \in Nat
      /\ popped' + Len(items') = popped + Len(items)
  <2>1. \/ items # <<>> /\ items' = Tail(items) /\ popped' = popped + 1
        \/ items' = items /\ popped' = popped
    BY DEF RemoveAll
  <2>2. QED
    BY <2>1, ItemsLeft DEF FieldsOK
<1>4. pushSemaphore' \in Nat
  <2>1. /\ pushSemaphore \in Nat /\ waitingPushers \in 0 .. Cardinality(Callers)
        /\ ctl.poppedItems \in Nat
    BY DEF TypeOK, FieldsOK, ControlType
  <2>2. ctl.poppedItems + 1 \in Nat /\ waitingPushers \in Nat
    BY <2>1, SMTT(30)
  <2>3. Min({ctl.poppedItems + 1, waitingPushers}) \in Nat
    BY <2>2, SmallerOf
  <2>4. \/ pushSemaphore' = pushSemaphore
        \/ pushSemaphore' = pushSemaphore + Min({ctl.poppedItems + 1, waitingPushers})
    BY DEF RemoveAll
  <2>5. QED
    BY <2>1, <2>3, <2>4, SMTT(30)
<1>5. cancelled' \subseteq Jobs
  <2>1. \/ items # <<>> /\ cancelled' = cancelled \cup {Head(items)}
        \/ cancelled' = cancelled
    BY DEF RemoveAll
  <2>2. items # <<>> => Head(items) \in Jobs
    BY SMTT(30) DEF FieldsOK
  <2>3. QED
    BY <2>1, <2>2 DEF FieldsOK
<1>6. CountInv'
  BY <1>2, <1>3, ControlCounts
<1>7. QED
  BY <1>1, <1>2, <1>3, <1>4, <1>5, <1>6, ControlIInv DEF FieldsOK

LEMMA JoinNext ==
  ASSUME TypeOK, ControlInv, WorkInv, CountInv, FieldsOK, Join
  PROVE  IInv'
<1>1. WorkInv' /\ ControlInv' /\ ctl' \in ControlType
  BY JoinKeeps
<1>2. UNCHANGED <<items, enabled, pushed, counted, popped, waitingPushers, pushSemaphore, m_status,
                  m_idleThreads, m_semaphore, m_gateCount, m_numThreadsReady, wk, cl, added,
                  commands, ran, cancelled>>
  BY DEF Join, queue, pool
<1>3. CountInv'
  BY <1>2, ControlCounts
<1>4. QED
  BY <1>1, <1>2, <1>3, ControlIInv DEF FieldsOK

LEMMA ControlNext ==
  ASSUME TypeOK, ControlInv, WorkInv, CountInv, FieldsOK, ControlStep, ~SpawnMayFail
  PROVE  IInv'
  BY SpawnNext, SetDisabledNext, WakePushersNext, EnableNext, SetStatusNext, InterruptNext,
     WaitThreadsNext, ReleaseNext, RemoveAllNext, JoinNext DEF ControlStep
-----------------------------------------------------------------------------
(* The theorems                                                            *)

LEMMA InvInit ==
  ASSUME Init
  PROVE  IInv
<1>1. Cardinality(Workers) \in Nat /\ Cardinality(Callers) \in Nat /\ Cardinality({}) = 0
  BY SomeThreads, FS_EmptySet
<1>2. QED
  BY <1>1, InitFacts DEF IInv

LEMMA InvStutters ==
  ASSUME IInv, UNCHANGED vars
  PROVE  IInv'
<1>1. /\ UNCHANGED <<items, enabled, pushed, counted, popped, waitingPushers, pushSemaphore,
                     m_status, m_idleThreads, m_semaphore, m_gateCount, m_numThreadsReady, wk, cl,
                     ctl, added, commands, ran, cancelled>>
  BY DEF vars, queue, pool
<1>2. TypeOK' /\ ControlInv'
  BY <1>1 DEF IInv, TypeOK, ControlInv
<1>3. WorkInv /\ Aside /\ CountInv
  BY <1>1, Parts DEF Aside
<1>4. CountInv'
  BY <1>1, <1>3, ControlCounts
<1>5. ItemSet' = ItemSet /\ Idles /\ Yields /\ ctl' = ctl /\ wk' = wk
  BY <1>1 DEF ItemSet, Idles, Yields
<1>6. JobInv'
  BY <1>3, <1>5, ControlJobs DEF WorkInv
<1>7. BeforeInv'
  BY <1>3, <1>5, ControlBefore DEF WorkInv
<1>8. PlacesInv'
  BY <1>3, AsidePlaces DEF WorkInv
<1>9. QED
  BY <1>2, <1>4, <1>6, <1>7, <1>8 DEF IInv

LEMMA InvNext ==
  ASSUME IInv, [Next]_vars, ~SpawnMayFail
  PROVE  IInv'
<1>1. TypeOK /\ ControlInv /\ WorkInv /\ CountInv /\ FieldsOK
  BY Parts
<1>2. QED
  BY <1>1, CallerNext, WorkerNext, CommandNext, ControlNext, InvStutters DEF Next

LEMMA InvAlways ==
  ASSUME ~SpawnMayFail
  PROVE  Spec => []IInv
<1>1. Init => IInv
  BY InvInit
<1>2. IInv /\ [Next]_vars => IInv'
  BY InvNext
<1>3. QED
  BY <1>1, <1>2, PTL DEF Spec

\* A worker that leaves runJobs finds Drain or Stop, however many workers, callers and
\* calls of start(), drain(), stop() and shutdown() there are: waitThreads() in drain()
\* holds the status at Drain until every worker is back at the gate.
THEOREM AssertionHolds ==
  ASSUME ~SpawnMayFail
  PROVE  Spec => []LeavesRunForDrainOrStop
  BY AssertionFollows, InvAlways, PTL

\* When drain() or stop() has waited for the workers, every job that was queued or
\* running when it was called has been run: all workers are at the gate, none has a job
\* in hand, and each found the queue without those jobs before it came there.
THEOREM QueuedJobsWaitedFor ==
  ASSUME ~SpawnMayFail
  PROVE  Spec => []WaitsForJobs
  BY WaitFollows, InvAlways, PTL
==============================================================================
