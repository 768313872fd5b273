------------------------------ MODULE PathBuild -----------------------------
(***************************************************************************)
(* Building and keeping paths: the service endpoint that builds them (its  *)
(* path::Builder and PathSet), and the routers that become their hops      *)
(* (PathContext, LRCMFrameDecrypt, TransitHop).  Every path has Hops hops; *)
(* hop k of a path is one router's entry for it, hop 0 the endpoint.       *)
(*                                                                         *)
(* Link messages arrive in any order, late or never (a lost one stays in   *)
(* msgs).  The sender of an LRCM may be told that it was not delivered     *)
(* when it was: the acknowledgements of a message are lost like any other  *)
(* packet.  A decryption or parse that fails is a message never handled.   *)
(* The paths carry no data but the latency tests.                          *)
(***************************************************************************)
EXTENDS TransitHop, FiniteSets

CONSTANTS Hops,         \* numHops
          NumPaths,     \* numPaths
          ExpiresSoon,  \* how long before its end an introduction "expires soon"
          MaxBuilds     \* bound: paths built

ASSUME HopsAssumption ==
  /\ Hops \in Nat \ {0}
  /\ NumPaths \in Nat
  /\ ExpiresSoon \in Nat
  /\ MaxBuilds \in Nat

Ids == 1..MaxBuilds

VARIABLES builder,
          path,     \* the paths built so far, in order
          keys,     \* those whose keys are being generated
          m_Paths,  \* those in the path set
          logic,    \* closures HandleLRSM queued, in order: <<path, "confirm" or "fail">>
          hop,      \* by path and hop
          msgs      \* link messages in flight

vars == <<builder, path, keys, m_Paths, logic, hop, msgs>>

Commit(p, k) == [type |-> "commit", path |-> p, to |-> k]
Status(p, k, ok, frames) ==
  [type |-> "status", path |-> p, to |-> k, ok |-> ok, frames |-> frames]
Upstream(p, k, id) == [type |-> "up", path |-> p, to |-> k, id |-> id]
Downstream(p, k, id) == [type |-> "down", path |-> p, to |-> k, id |-> id]

Init ==
  /\ builder = NewBuilder
  /\ path = <<>>
  /\ keys = {}
  /\ m_Paths = {}
  /\ logic = <<>>
  /\ hop = [p \in Ids |-> [k \in 1..Hops |-> NoHop]]
  /\ msgs = {}

----------------------------------------------------------------------------
(* The endpoint: Router::Tick, with PathSet::ExpirePaths, Endpoint::       *)
(* ShouldBuildMore, Builder::BuildOne and PathSet::TickPaths.              *)
InStatus(S, st) == Cardinality({p \in S : path[p].status = st})
Cooldown == builder.lastBuild < builder.interval

PathSetShouldBuildMore(S) ==
  /\ builder.run
  /\ InStatus(S, "building") <= NumPaths
  /\ InStatus(S, "established") <= NumPaths

\* Paths are spaced out: the newest introduction is a quarter of its life old.
SpaceOut(S) ==
  LET ready == {p \in S : IsReady(path[p])}
  IN /\ ready # {}
     /\ \A p \in ready : path[p].age >= Lifetime \div 4
     /\ \E p \in ready : path[p].age < Lifetime - ExpiresSoon
     /\ InStatus(S, "building") < NumPaths

ShouldBuildMore(S) == (PathSetShouldBuildMore(S) \/ SpaceOut(S)) /\ ~Cooldown

Build(b) == [b EXCEPT !.lastBuild = 0]

\* What is left of a path nobody holds.
Freed == [NewPath EXCEPT !.status = "expired"]

(* BuildOne starts a build (build = TRUE) if it is due and SelectHops      *)
(* finds the hops.  Endpoints are stopped by Router::Stop alone, and a     *)
(* router that is stopping does not tick.                                  *)
RouterTick(build) ==
  LET S == {p \in m_Paths : ~Expired(path[p])}
      timedOut == {p \in S : BuildTimedOut(path[p])}
      tested == {p \in S : TestDue(path[p])}
      ticked == [p \in DOMAIN path |->
                   IF p \in S THEN TickPath(path[p])
                   ELSE IF p \in m_Paths THEN Freed
                   ELSE path[p]]
      b == IF build THEN Build(builder) ELSE builder
  IN /\ builder.run
     /\ build => ShouldBuildMore(S) /\ Len(path) < MaxBuilds
     /\ m_Paths' = S
     /\ path' = IF build THEN Append(ticked, NewPath) ELSE ticked
     /\ keys' = IF build THEN keys \cup {Len(path) + 1} ELSE keys
     /\ builder' = HandlePathBuildTimeouts(b, Cardinality(timedOut))
     /\ msgs' = msgs \cup {Upstream(p, 1, path[p].tests + 1) : p \in tested}
     /\ UNCHANGED <<logic, hop>>

\* PathBuilderKeysGenerated: sent is SendToOrQueue's result for the LRCM.
KeysGenerated(p, sent) ==
  /\ p \in keys
  /\ keys' = keys \ {p}
  /\ IF builder.run /\ sent
       THEN /\ m_Paths' = m_Paths \cup {p}
            /\ builder' = [builder EXCEPT !.attempts = @ + 1]
            /\ msgs' = msgs \cup {Commit(p, 1)}
            /\ path' = path
       ELSE /\ path' = [path EXCEPT ![p] = Freed]
            /\ UNCHANGED <<m_Paths, builder, msgs>>
  /\ UNCHANGED <<logic, hop>>

\* Path::HandleLRSM, for a path that GetByUpstream still finds.
HandleOwnLRSM(m) ==
  /\ m.type = "status" /\ m.to = 0
  /\ logic' = IF m.path \in m_Paths
                THEN Append(logic, <<m.path, IF Success(m.frames, Hops) THEN "confirm" ELSE "fail">>)
                ELSE logic
  /\ msgs' = msgs \ {m}
  /\ UNCHANGED <<builder, path, keys, m_Paths, hop>>

\* HandlePathConfirmMessage, on the logic thread.
RunConfirm ==
  /\ logic # <<>> /\ Head(logic)[2] = "confirm"
  /\ logic' = Tail(logic)
  /\ LET p == Head(logic)[1]
     IN IF path[p].status = "building"
          THEN /\ path' = [path EXCEPT ![p] = Confirm(@)]
               /\ msgs' = msgs \cup {Upstream(p, 1, path[p].tests + 1)}
          ELSE UNCHANGED <<path, msgs>>
  /\ UNCHANGED <<builder, keys, m_Paths, hop>>

\* EnterState(ePathFailed), on the logic thread, in or out of the path set.
RunFail ==
  /\ logic # <<>> /\ Head(logic)[2] = "fail"
  /\ logic' = Tail(logic)
  /\ LET p == Head(logic)[1]
     IN path' = IF p \in m_Paths THEN [path EXCEPT ![p] = EnterState(@, "failed")] ELSE path
  /\ builder' = HandlePathBuildFailed(builder)
  /\ UNCHANGED <<keys, m_Paths, hop, msgs>>

HandleOwnLatency(m) ==
  /\ m.type = "down" /\ m.to = 0
  /\ msgs' = msgs \ {m}
  /\ IF m.path \in m_Paths
       THEN LET p == path[m.path]
            IN /\ path' = [path EXCEPT ![m.path] = HandlePathLatencyMessage(@, m.id)]
               /\ builder' = IF AnswersTest(p, m.id) /\ p.hook THEN HandlePathBuilt(builder)
                             ELSE builder
       ELSE UNCHANGED <<path, builder>>
  /\ UNCHANGED <<keys, m_Paths, logic, hop>>

\* Builder::Stop, from Router::Stop.
Stop ==
  /\ builder.run
  /\ builder' = [builder EXCEPT !.run = FALSE]
  /\ UNCHANGED <<path, keys, m_Paths, logic, hop, msgs>>

----------------------------------------------------------------------------
(* The routers that become hops.                                           *)
Fail(p, k) == Status(p, k - 1, FALSE, AddFrame(<<>>, k, FALSE))

\* LRCMFrameDecrypt::HandleDecrypted, on a worker thread.
HandleDecrypted(m) ==
  /\ m.type = "commit"
  /\ hop' = [hop EXCEPT ![m.path][m.to] = Decrypted]
  /\ msgs' = msgs \ {m}
  /\ UNCHANGED <<builder, path, keys, m_Paths, logic>>

\* SendLRCM; allowed is ConnectionToRouterAllowed's answer for the next hop.
SendLRCM(p, k, allowed) ==
  /\ k < Hops
  /\ hop[p][k].state = "decrypted"
  /\ hop' = [hop EXCEPT ![p][k] = [@ EXCEPT !.state = IF allowed THEN "put" ELSE "refused",
                                            !.forward = IF allowed THEN "sent" ELSE "no"]]
  /\ msgs' = msgs \cup {IF allowed THEN Commit(p, k + 1) ELSE Fail(p, k)}
  /\ UNCHANGED <<builder, path, keys, m_Paths, logic>>

\* SendPathConfirm, at the farthest hop.
SendPathConfirm(p) ==
  /\ hop[p][Hops].state = "decrypted"
  /\ hop' = [hop EXCEPT ![p][Hops].state = "put"]
  /\ msgs' = msgs \cup {Status(p, Hops - 1, TRUE, AddFrame(<<>>, Hops, TRUE))}
  /\ UNCHANGED <<builder, path, keys, m_Paths, logic>>

\* OnForwardLRCMResult, told of anything but Success (of which it does nothing).
OnForwardLRCMResult(p, k) ==
  /\ hop[p][k].forward = "sent"
  /\ hop' = [hop EXCEPT ![p][k].forward = "failed"]
  /\ msgs' = msgs \cup {Fail(p, k)}
  /\ UNCHANGED <<builder, path, keys, m_Paths, logic>>

\* TransitHop::HandleLRSM, for a hop that GetByUpstream finds.
HandleLRSM(m) ==
  /\ m.type = "status" /\ m.to # 0
  /\ LET p == m.path
         k == m.to
     IN IF hop[p][k].state = "put"
          THEN /\ msgs' = (msgs \ {m}) \cup {Status(p, k - 1, m.ok, AddFrame(m.frames, k, TRUE))}
               /\ hop' = IF ~m.ok /\ hop[p][k].destroy = "no"
                           THEN [hop EXCEPT ![p][k].destroy = "queued"] ELSE hop
          ELSE msgs' = msgs \ {m} /\ hop' = hop
  /\ UNCHANGED <<builder, path, keys, m_Paths, logic>>

(* The closure that QueueDestroySelf queued.  It is bound to the hop, not  *)
(* to a shared_ptr of it: when ExpireHop comes first the code writes to    *)
(* freed memory, and here to an entry that is no longer a hop.             *)
SetSelfDestruct(p, k) ==
  /\ hop[p][k].destroy = "queued"
  /\ hop' = [hop EXCEPT ![p][k].destroy = "yes"]
  /\ UNCHANGED <<builder, path, keys, m_Paths, logic, msgs>>

\* PathContext::ExpirePaths, at the router of hop k.
ExpireHop(p, k) ==
  /\ hop[p][k].state = "put"
  /\ HopExpired(hop[p][k])
  /\ hop' = [hop EXCEPT ![p][k] = [@ EXCEPT !.state = "gone", !.age = 0]]
  /\ UNCHANGED <<builder, path, keys, m_Paths, logic, msgs>>

(* A latency test is relayed up to the farthest hop, which answers it      *)
(* (TransitHop::HandlePathLatencyMessage); the answer is relayed down.     *)
Relayed(m) ==
  IF m.type = "down" THEN Downstream(m.path, m.to - 1, m.id)
  ELSE IF m.to = Hops THEN Downstream(m.path, m.to - 1, m.id)
  ELSE Upstream(m.path, m.to + 1, m.id)

Relay(m) ==
  /\ m.type \in {"up", "down"} /\ m.to # 0
  /\ msgs' = (msgs \ {m}) \cup (IF hop[m.path][m.to].state = "put" THEN {Relayed(m)} ELSE {})
  /\ UNCHANGED <<builder, path, keys, m_Paths, logic, hop>>

----------------------------------------------------------------------------
Clock ==
  /\ builder' = [builder EXCEPT !.lastBuild = Older(@, MaxInterval)]
  /\ path' = [p \in DOMAIN path |->
                IF p \in keys \cup m_Paths THEN PathOlder(path[p]) ELSE path[p]]
  /\ hop' = [p \in Ids |-> [k \in 1..Hops |-> HopOlder(hop[p][k])]]
  /\ UNCHANGED <<keys, m_Paths, logic, msgs>>

HopStep(p, k) ==
  \/ \E allowed \in BOOLEAN : SendLRCM(p, k, allowed)
  \/ OnForwardLRCMResult(p, k)
  \/ SetSelfDestruct(p, k)
  \/ ExpireHop(p, k)

Next ==
  \/ \E build \in BOOLEAN : RouterTick(build)
  \/ \E p \in Ids, sent \in BOOLEAN : KeysGenerated(p, sent)
  \/ RunConfirm
  \/ RunFail
  \/ Stop
  \/ \E m \in msgs : HandleOwnLRSM(m) \/ HandleOwnLatency(m) \/ HandleDecrypted(m)
                      \/ HandleLRSM(m) \/ Relay(m)
  \/ \E p \in Ids : SendPathConfirm(p)
  \/ \E p \in Ids, k \in 1..Hops : HopStep(p, k)
  \/ Clock

Spec == Init /\ [][Next]_vars

\* Clocks advance and routers tick every second.
Timers == Clock \/ RouterTick(FALSE) \/ \E p \in Ids, k \in 1..Hops : ExpireHop(p, k)
FairSpec == Spec /\ WF_vars(Timers)

----------------------------------------------------------------------------
PathType ==
  [status : Statuses, age : 0..Lifetime, test : Nat, tests : Nat,
   testAge : 0..AliveTimeout + 1, recv : Never..AliveTimeout + 1,
   latency : BOOLEAN, hook : BOOLEAN]

BuilderType ==
  [run : BOOLEAN, lastBuild : 0..MaxInterval, interval : MinInterval..MaxInterval,
   attempts : Nat, success : Nat, timeouts : Nat, fails : Nat]

HopType ==
  [state : {"none", "decrypted", "put", "refused", "gone"}, age : 0..Lifetime,
   forward : {"no", "sent", "failed"}, destroy : {"no", "queued", "yes"}]

FrameType == [hop : 1..Hops, ok : BOOLEAN]

MsgType ==
  [type : {"commit"}, path : Ids, to : 1..Hops]
    \cup [type : {"status"}, path : Ids, to : 0..Hops - 1, ok : BOOLEAN, frames : Seq(FrameType)]
    \cup [type : {"up"}, path : Ids, to : 1..Hops, id : Nat]
    \cup [type : {"down"}, path : Ids, to : 0..Hops - 1, id : Nat]

\* Types and ranges of the variables: the back-off stays within its limits.
TypeOK ==
  /\ builder \in BuilderType
  /\ path \in Seq(PathType) /\ Len(path) <= MaxBuilds
  /\ keys \subseteq DOMAIN path /\ m_Paths \subseteq DOMAIN path
  /\ logic \in Seq(Ids \X {"confirm", "fail"})
  /\ hop \in [Ids -> [1..Hops -> HopType]]
  /\ \A m \in msgs : m \in MsgType

(* The state is well typed, the back-off within its limits; and a path     *)
(* that was confirmed has all its hops until it expires: every             *)
(* router put its hop before the confirmation came back, and none erases   *)
(* it while the endpoint may use the path, unless a router that forwarded  *)
(* the build was told that it had not.                                     *)
HopsOutlivePath ==
  /\ TypeOK
  /\ \A p \in m_Paths :
       /\ path[p].tests > 0
       /\ path[p].age < Lifetime
       /\ \A k \in 1..Hops : hop[p][k].forward # "failed"
       => \A k \in 1..Hops : hop[p][k].state = "put"

(* A build fails only if one of its hops could not extend it: the frames   *)
(* of the hops on the way back do not hide or fake a result (HandleLRSM).  *)
FailuresAreReal ==
  \A p \in m_Paths :
    path[p].status = "failed" =>
      \E k \in 1..Hops : hop[p][k].forward = "failed" \/ hop[p][k].state = "refused"

(* The build statistics account for every attempt: each one that is no     *)
(* longer building has been counted as a success, a failure or a timeout,  *)
(* and as a success at most once, whatever late answers it got.            *)
StatsAddUp ==
  /\ builder.attempts - InStatus(m_Paths, "building")
       <= builder.success + builder.timeouts + builder.fails
  /\ builder.success <= builder.attempts

(* No path stays in the path set while its router runs, and no hop in      *)
(* m_TransitPaths, for ever, whatever is lost or late and whether or not   *)
(* the endpoint is stopped: builds time out, paths and hops expire.        *)
EverythingExpires ==
  \A p \in Ids :
    []<>(/\ builder.run => p \notin m_Paths
         /\ \A k \in 1..Hops : hop[p][k].state # "put")
=============================================================================
