-------------------------------- MODULE Path --------------------------------
(***************************************************************************)
(* llarp::path::Path, a path this node made, and the counters of the       *)
(* path::Builder that owns it, as operators on records.  Times are ages:   *)
(* how long ago the code's time stamp was taken, counted as far as the     *)
(* code compares it.                                                       *)
(*                                                                         *)
(*   path     status (_status), age (of buildStarted), test and testAge    *)
(*            (m_LastLatencyTestID and -Time), tests (the tests sent; test *)
(*            n carries id n), recv (age of m_LastRecvMessage, Never when  *)
(*            that is 0), latency (intro.latency > 0), hook (m_BuiltHook   *)
(*            is set)                                                      *)
(*   builder  run (_run), lastBuild (age), interval (buildIntervalLimit)   *)
(*            and the BuildStats                                           *)
(***************************************************************************)
EXTENDS Integers

CONSTANTS Lifetime,         \* path::default_lifetime
          BuildTimeout,     \* path::build_timeout
          LatencyInterval,  \* path::latency_interval
          AliveTimeout,     \* path::alive_timeout
          MinInterval,      \* MIN_PATH_BUILD_INTERVAL
          MaxInterval       \* MaxBuildInterval

ASSUME TimesAssumption ==
  /\ {Lifetime, BuildTimeout, LatencyInterval, AliveTimeout} \subseteq Nat \ {0}
  /\ {MinInterval, MaxInterval} \subseteq Nat \ {0}
  /\ LatencyInterval <= AliveTimeout
  /\ BuildTimeout <= Lifetime
  /\ MinInterval <= MaxInterval

\* ePathIgnore is left out: only exit sessions enter it.
Statuses == {"building", "established", "timeout", "failed", "expired"}
Never == -1

\* The constructor, and the hook that Builder::Build sets.
NewPath ==
  [status |-> "building", age |-> 0, test |-> 0, testAge |-> AliveTimeout + 1, tests |-> 0,
   recv |-> Never, latency |-> FALSE, hook |-> TRUE]

NewBuilder ==
  [run |-> TRUE, lastBuild |-> MaxInterval, interval |-> MinInterval,
   attempts |-> 0, success |-> 0, timeouts |-> 0, fails |-> 0]

Older(age, limit) == IF age < limit THEN age + 1 ELSE age

PathOlder(p) ==
  [p EXCEPT !.age = Older(@, Lifetime), !.testAge = Older(@, AliveTimeout + 1),
            !.recv = IF @ = Never THEN @ ELSE Older(@, AliveTimeout + 1)]

IsReady(p) == p.latency /\ p.status = "established"

\* Mutant: a path that timed out never expires.
Expired_NotTimeout(p) ==
  \/ p.status \in {"failed", "expired"}
  \/ p.status = "established" /\ p.age >= Lifetime

Expired(p) ==
  \/ p.status \in {"failed", "expired"}
  \/ p.status \in {"established", "timeout"} /\ p.age >= Lifetime

----------------------------------------------------------------------------
(* Path::EnterState, and its effect on the builder.                        *)
EnterState(p, st) == [p EXCEPT !.status = st]

\* DoPathBuildBackoff, n times.
DoPathBuildBackoff(b, n) ==
  [b EXCEPT !.interval = IF @ + n * MinInterval < MaxInterval THEN @ + n * MinInterval ELSE MaxInterval]

HandlePathBuildFailed(b) == DoPathBuildBackoff([b EXCEPT !.fails = @ + 1], 1)

\* For each of the n builds that one tick gives up.
HandlePathBuildTimeouts(b, n) == DoPathBuildBackoff([b EXCEPT !.timeouts = @ + n], n)

HandlePathBuilt(b) == [b EXCEPT !.interval = MinInterval, !.success = @ + 1]

----------------------------------------------------------------------------
SendLatencyTest(p) == [p EXCEPT !.test = p.tests + 1, !.tests = @ + 1, !.testAge = 0]

\* HandlePathConfirmMessage, of a path that is building.
Confirm(p) == SendLatencyTest([p EXCEPT !.recv = 0])

(* Path::Tick, by case: the build took too long; it is time for a latency  *)
(* test; nothing was heard for too long (Endpoint::CheckPathIsDead).       *)
BuildTimedOut(p) == p.status = "building" /\ p.age >= BuildTimeout

TestDue(p) ==
  /\ p.status = "established"
  /\ ~Expired(p)
  /\ p.testAge > LatencyInterval
  /\ p.test = 0

Dead(p) ==
  /\ p.status = "established"
  /\ ~Expired(p)
  /\ ~TestDue(p)
  /\ IF p.recv # Never THEN p.recv > AliveTimeout ELSE p.testAge > AliveTimeout

TickPath(p) ==
  IF BuildTimedOut(p) THEN EnterState(p, "expired")
  ELSE IF TestDue(p) THEN SendLatencyTest(p)
  ELSE IF Dead(p) THEN EnterState(p, "timeout")
  ELSE p

AnswersTest(p, id) == id = p.test

\* Mutant: m_BuiltHook stays set.
HandlePathLatencyMessage_KeepsHook(p, id) ==
  IF AnswersTest(p, id)
    THEN [EnterState(p, "established") EXCEPT
            !.recv = 0, !.latency = p.testAge > 0, !.test = 0]
    ELSE [p EXCEPT !.recv = 0]

(* HandlePathLatencyMessage: the answer to the pending test establishes    *)
(* the path, whatever its status was.                                      *)
HandlePathLatencyMessage(p, id) ==
  IF AnswersTest(p, id)
    THEN [EnterState(p, "established") EXCEPT
            !.recv = 0, !.latency = p.testAge > 0, !.test = 0, !.hook = FALSE]
    ELSE [p EXCEPT !.recv = 0]
=============================================================================
