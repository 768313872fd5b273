-------------------------- MODULE PathBuild_proofs --------------------------
(***************************************************************************)
(* For any number of paths, hops and all timers: a confirmed path has its  *)
(* hops, a build that failed was not extended by one of its hops, and the  *)
(* statistics account for the builds.  First the inductive invariant and   *)
(* the steps of the routers on the way, which preserve it; then the        *)
(* builder's steps, the statistics and the theorems.                       *)
(***************************************************************************)
EXTENDS PathBuild, TLAPS

\* The hop was put in m_TransitPaths, and the build passed on.
Passed(h) == h.state \in {"put", "gone"}
AllPassed(p) == \A k \in 1..Hops : Passed(hop[p][k])

\* A hop could not extend the path, or was told so.
Broken(p) == \E k \in 1..Hops : hop[p][k].forward = "failed" \/ hop[p][k].state = "refused"

\* Hops are made one after the other, and destroy themselves for a reason.
HopsInOrder ==
  \A p \in Ids, k \in 1..Hops :
    /\ hop[p][k].state = "none" => hop[p][k] = NoHop
    /\ hop[p][k].state \in {"decrypted", "refused"} => hop[p][k].forward = "no"
    /\ hop[p][k].destroy # "no" => Broken(p)
    /\ hop[p][k].state # "none" /\ k > 1 => Passed(hop[p][k - 1])

\* The records of success in an LRSM are of hops that passed the build on.
RecordsTrue(p, frames) ==
  \A i \in 1..Len(frames) : frames[i].ok => Passed(hop[p][frames[i].hop])

\* The records are those of the hops beyond hop k, all of success.
Complete(k, frames) ==
  /\ Len(frames) = Hops - k
  /\ \A i \in 1..Len(frames) : frames[i].hop = k + i /\ frames[i].ok

\* The LRCM is on its way to the next hop once; the frames of an LRSM are
\* what happened; latency tests are numbered from 1.
MsgTrue(m) ==
  /\ m.type = "commit" => /\ hop[m.path][m.to].state = "none"
                          /\ m.to > 1 => Passed(hop[m.path][m.to - 1])
  /\ m.type = "status" =>
       /\ RecordsTrue(m.path, m.frames)
       /\ m.ok => Complete(m.to, m.frames)
       /\ ~m.ok => Broken(m.path)
  /\ m.type \in {"up", "down"} => m.id > 0

MsgsTrue == \A m \in msgs : MsgTrue(m)

\* What HandleLRSM queued is true.
LogicTrue ==
  \A i \in 1..Len(logic) :
    /\ logic[i][2] = "confirm" => AllPassed(logic[i][1])
    /\ logic[i][2] = "fail" => Broken(logic[i][1])

\* Nothing is known of a path before its LRCM is sent.
NothingSent ==
  \A p \in Ids : p \in keys \/ p \notin DOMAIN path =>
    /\ p \notin m_Paths
    /\ \A k \in 1..Hops : hop[p][k].state = "none"
    /\ \A m \in msgs : m.path # p
    /\ \A i \in 1..Len(logic) : logic[i][1] # p

\* q, the record of path p: it was tested once it was confirmed, and fails
\* for a reason.
PathTrue(p, q) ==
  /\ q.tests > 0 => AllPassed(p)
  /\ q.status = "established" \/ q.test > 0 => q.tests > 0
  /\ q.status = "failed" => Broken(p)

\* It is as old as the hops, and they are erased only at the end of its life.
OldEnough(p, q) ==
  \A k \in 1..Hops :
    /\ hop[p][k].age <= q.age
    /\ hop[p][k].state = "gone" => q.age >= Lifetime \/ hop[p][k].destroy = "yes"

PathsTrue ==
  \A p \in DOMAIN path : PathTrue(p, path[p]) /\ (p \in m_Paths => OldEnough(p, path[p]))

\* The inductive invariant
IInv ==
  /\ TypeOK
  /\ HopsInOrder /\ MsgsTrue /\ LogicTrue /\ NothingSent /\ PathsTrue

----------------------------------------------------------------------------
(* What a step may do to a hop.                                            *)
Advances(h, g) ==
  /\ Passed(h) => Passed(g)
  /\ h.forward = "failed" => g.forward = "failed"
  /\ h.state = "refused" => g.state = "refused"

\* A message has the fields of its type (MsgType).
LEMMA MsgFields ==
  ASSUME NEW m \in MsgType
  PROVE  /\ m.path \in Ids
         /\ m.type \in {"commit", "status", "up", "down"}
         /\ m.type \in {"commit", "up"} => m.to \in 1..Hops
         /\ m.type \in {"status", "down"} => m.to \in 0..Hops - 1
         /\ m.type = "commit" => m = Commit(m.path, m.to)
         /\ m.type = "status" => m.ok \in BOOLEAN /\ m.frames \in Seq(FrameType)
         /\ m.type \in {"up", "down"} => m.id \in Nat
BY DEF MsgType, Commit

\* A path has a number, and its fields their types.
LEMMA PathFields ==
  ASSUME TypeOK, NEW p \in DOMAIN path
  PROVE  p \in Ids /\ path[p] \in PathType /\ path[p].age \in Nat /\ path[p].tests \in Nat
<1>1. path \in Seq(PathType) /\ Len(path) <= MaxBuilds
  BY DEF TypeOK
<1>2. p \in Ids /\ path[p] \in PathType
  BY <1>1, HopsAssumption DEF Ids
<1> QED  BY <1>2, TimesAssumption DEF PathType

\* So do a hop's.
LEMMA HopFields ==
  ASSUME TypeOK, NEW p \in Ids, NEW k \in 1..Hops
  PROVE  hop[p][k] \in HopType /\ hop[p][k].age \in Nat
<1>1. hop[p][k] \in HopType
  <2>1. hop \in [Ids -> [1..Hops -> HopType]]
    BY DEF TypeOK
  <2>2. hop[p] \in [1..Hops -> HopType]
    BY <2>1, Zenon
  <2> QED  BY <2>2, Zenon
<1> QED  BY <1>1, TimesAssumption DEF HopType

\* The messages of the code are messages.
LEMMA Messages ==
  ASSUME NEW p \in Ids
  PROVE  /\ \A k \in 1..Hops : Commit(p, k) \in MsgType
         /\ \A k \in 0..Hops - 1, ok \in BOOLEAN, frames \in Seq(FrameType) :
              Status(p, k, ok, frames) \in MsgType
         /\ \A k \in 1..Hops, id \in Nat : Upstream(p, k, id) \in MsgType
         /\ \A k \in 0..Hops - 1, id \in Nat : Downstream(p, k, id) \in MsgType
BY DEF MsgType, Commit, Status, Upstream, Downstream

\* EXCEPT changes one value of a function.
LEMMA ExceptOne ==
  ASSUME NEW S, NEW T, NEW f \in [S -> T], NEW x \in S, NEW e \in T
  PROVE  /\ [f EXCEPT ![x] = e] \in [S -> T]
         /\ [f EXCEPT ![x] = e][x] = e
         /\ \A y \in S : y # x => [f EXCEPT ![x] = e][y] = f[y]
OBVIOUS

\* One hop changes, the others do not.
LEMMA Move ==
  ASSUME hop \in [Ids -> [1..Hops -> HopType]],
         NEW r \in Ids, NEW n \in 1..Hops, NEW g \in HopType,
         hop' = [hop EXCEPT ![r][n] = g],
         Advances(hop[r][n], g)
  PROVE  /\ hop' \in [Ids -> [1..Hops -> HopType]]
         /\ hop'[r][n] = g
         /\ \A p \in Ids, k \in 1..Hops : p # r \/ k # n => hop'[p][k] = hop[p][k]
         /\ \A p \in Ids, k \in 1..Hops : Advances(hop[p][k], hop'[p][k])
<1> DEFINE row == [hop[r] EXCEPT ![n] = g]
<1>1. /\ row \in [1..Hops -> HopType]
      /\ row[n] = g
      /\ \A k \in 1..Hops : k # n => row[k] = hop[r][k]
  <2>1. hop[r] \in [1..Hops -> HopType]
    OBVIOUS
  <2> QED  BY <2>1, ExceptOne, Zenon
<1>2. hop' = [hop EXCEPT ![r] = row]
  OBVIOUS
<1> HIDE DEF row
<1>3. /\ hop' \in [Ids -> [1..Hops -> HopType]]
      /\ hop'[r] = row
      /\ \A p \in Ids : p # r => hop'[p] = hop[p]
  BY <1>1, <1>2
<1>4. \A p \in Ids, k \in 1..Hops : p # r \/ k # n => hop'[p][k] = hop[p][k]
  BY <1>1, <1>3, Zenon
<1>5. \A p \in Ids, k \in 1..Hops : Advances(hop[p][k], hop[p][k])
  BY DEF Advances
<1>6. ASSUME NEW p \in Ids, NEW k \in 1..Hops  PROVE Advances(hop[p][k], hop'[p][k])
  <2>1. CASE p = r /\ k = n
    BY <2>1, <1>1, <1>3
  <2>2. CASE p # r \/ k # n
    <3>1. hop'[p][k] = hop[p][k]
      BY <2>2, <1>4
    <3> QED  BY <3>1, <1>5, Zenon
  <2> QED  BY <2>1, <2>2
<1> QED  BY <1>1, <1>3, <1>4, <1>6

\* What holds of a path's hops stays true.
LEMMA Stable ==
  ASSUME \A p \in Ids, k \in 1..Hops : Advances(hop[p][k], hop'[p][k])
  PROVE  \A p \in Ids : (AllPassed(p) => AllPassed(p)') /\ (Broken(p) => Broken(p)')
BY DEF Advances, AllPassed, Broken

\* Records stay true.
LEMMA RecordsStay ==
  ASSUME NEW p \in Ids, NEW frames \in Seq(FrameType), RecordsTrue(p, frames),
         \A q \in Ids, k \in 1..Hops : Advances(hop[q][k], hop'[q][k])
  PROVE  RecordsTrue(p, frames)'
<1> SUFFICES ASSUME NEW i \in 1..Len(frames), frames[i].ok
             PROVE  Passed(hop'[p][frames[i].hop])
  BY DEF RecordsTrue
<1>1. frames[i] \in FrameType
  OBVIOUS
<1>2. frames[i].hop \in 1..Hops
  BY <1>1 DEF FrameType
<1>3. Passed(hop[p][frames[i].hop])
  BY DEF RecordsTrue
<1> QED  BY <1>2, <1>3 DEF Advances

\* A message stays true, but for an LRCM to the hop it made.
LEMMA OldMsg ==
  ASSUME NEW m \in MsgType, MsgTrue(m),
         \A p \in Ids, k \in 1..Hops : Advances(hop[p][k], hop'[p][k]),
         m.type = "commit" => hop'[m.path][m.to] = hop[m.path][m.to]
  PROVE  MsgTrue(m)'
<1> USE HopsAssumption DEF Ids
<1>1. m.type = "commit" => /\ hop'[m.path][m.to].state = "none"
                           /\ m.to > 1 => Passed(hop'[m.path][m.to - 1])
  <2>1. m.type = "commit" => /\ hop[m.path][m.to].state = "none"
                             /\ m.to > 1 => Passed(hop[m.path][m.to - 1])
    BY Zenon DEF MsgTrue
  <2>2. m.type = "commit" => m.path \in Ids /\ m.to \in 1..Hops
    BY MsgFields
  <2> QED  BY <2>1, <2>2 DEF Advances
<1>2. ASSUME m.type = "status"  PROVE RecordsTrue(m.path, m.frames)'
  <2>1. m.path \in Ids /\ m.frames \in Seq(FrameType) /\ RecordsTrue(m.path, m.frames)
    BY <1>2, MsgFields DEF MsgTrue
  <2> QED  BY <2>1, RecordsStay
<1>3. m.type = "status" /\ ~m.ok => Broken(m.path)'
  <2>1. m.path \in Ids
    BY MsgFields, Zenon
  <2>2. Broken(m.path) => Broken(m.path)'
    BY <2>1, Stable, Zenon
  <2> QED  BY <2>2, Zenon DEF MsgTrue
<1> QED  BY <1>1, <1>2, <1>3, Zenon DEF MsgTrue

\* A step of the routers, as the endpoint sees it.
LEMMA RouterStep ==
  ASSUME IInv, UNCHANGED <<builder, path, keys, m_Paths, logic>>,
         hop' \in [Ids -> [1..Hops -> HopType]], HopsInOrder',
         \A p \in Ids, k \in 1..Hops : Advances(hop[p][k], hop'[p][k]),
         \A m \in msgs' : /\ m \in MsgType /\ MsgTrue(m)'
                          /\ m.path \notin keys /\ m.path \in DOMAIN path,
         \A p \in Ids, k \in 1..Hops :
           p \in keys \/ p \notin DOMAIN path => hop'[p][k].state = "none",
         \A p \in m_Paths, k \in 1..Hops :
           /\ hop'[p][k].age <= path[p].age
           /\ hop'[p][k].state = "gone" => path[p].age >= Lifetime \/ hop'[p][k].destroy = "yes"
  PROVE  IInv'
<1>1. TypeOK'
  BY DEF IInv, TypeOK
<1>2. \A p \in Ids : (AllPassed(p) => AllPassed(p)') /\ (Broken(p) => Broken(p)')
  BY Stable
<1>3. LogicTrue'
  <2>1. \A i \in 1..Len(logic) : logic[i][1] \in Ids
    BY DEF IInv, TypeOK
  <2> QED  BY <1>2, <2>1 DEF IInv, LogicTrue
<1>4. NothingSent'
  BY DEF IInv, NothingSent
<1>5. PathsTrue'
  <2>1. DOMAIN path \subseteq Ids
    BY HopsAssumption DEF IInv, TypeOK, Ids
  <2>2. ASSUME NEW p \in DOMAIN path
        PROVE  /\ path[p].tests > 0 => AllPassed(p)'
               /\ path[p].status = "established" \/ path[p].test > 0 => path[p].tests > 0
               /\ path[p].status = "failed" => Broken(p)'
    BY <1>2, <2>1 DEF IInv, PathsTrue, PathTrue, OldEnough
  <2> QED  BY <2>2 DEF PathsTrue, PathTrue, OldEnough
<1>6. MsgsTrue'
  BY DEF MsgsTrue
<1> QED  BY <1>1, <1>3, <1>4, <1>5, <1>6 DEF IInv

\* A step of one hop: hop n of path r becomes g.
LEMMA HopStepInv ==
  ASSUME IInv, NEW r \in Ids, NEW n \in 1..Hops, NEW g \in HopType,
         UNCHANGED <<builder, path, keys, m_Paths, logic>>,
         hop' = [hop EXCEPT ![r][n] = g], Advances(hop[r][n], g),
         r \notin keys, r \in DOMAIN path,
         g.state # "none",
         g.state \in {"decrypted", "refused"} => g.forward = "no",
         g.destroy = hop[r][n].destroy \/ Broken(r),
         n > 1 => Passed(hop[r][n - 1]),
         g.age <= hop[r][n].age,
         g.state = "gone" /\ r \in m_Paths => path[r].age >= Lifetime \/ g.destroy = "yes",
         \A m \in msgs' : m \in msgs \/ (m \in MsgType /\ m.path = r /\ MsgTrue(m)'),
         Commit(r, n) \notin msgs'
  PROVE  IInv'
<1>1. hop \in [Ids -> [1..Hops -> HopType]]
  BY DEF IInv, TypeOK
<1>2. /\ hop' \in [Ids -> [1..Hops -> HopType]]
      /\ hop'[r][n] = g
      /\ \A p \in Ids, k \in 1..Hops : p # r \/ k # n => hop'[p][k] = hop[p][k]
      /\ \A p \in Ids, k \in 1..Hops : Advances(hop[p][k], hop'[p][k])
  BY <1>1, Move, Zenon
<1>3. \A p \in Ids : Broken(p) => Broken(p)'
  BY <1>2, Stable
<1>4. HopsInOrder'
  <2> SUFFICES ASSUME NEW p \in Ids, NEW k \in 1..Hops
               PROVE  /\ hop'[p][k].state = "none" => hop'[p][k] = NoHop
                      /\ hop'[p][k].state \in {"decrypted", "refused"} => hop'[p][k].forward = "no"
                      /\ hop'[p][k].destroy # "no" => Broken(p)'
                      /\ hop'[p][k].state # "none" /\ k > 1 => Passed(hop'[p][k - 1])
    BY Zenon DEF HopsInOrder
  <2>1. k > 1 => k - 1 \in 1..Hops
    BY HopsAssumption
  <2>2. k > 1 => Advances(hop[p][k - 1], hop'[p][k - 1])
    BY <1>2, <2>1
  <2>3. CASE p = r /\ k = n
    <3>1. hop[r][n].destroy # "no" => Broken(r)
      BY DEF IInv, HopsInOrder
    <3>2. Broken(r) => Broken(r)'
      BY <1>3, Zenon
    <3>3. k > 1 => Passed(hop'[p][k - 1])
      BY <2>2, <2>3, Zenon DEF Advances
    <3> QED  BY <1>2, <2>3, <3>1, <3>2, <3>3, Zenon
  <2>4. CASE p # r \/ k # n
    <3>1. hop'[p][k] = hop[p][k]
      BY <1>2, <2>4
    <3>2. /\ hop[p][k].state = "none" => hop[p][k] = NoHop
          /\ hop[p][k].state \in {"decrypted", "refused"} => hop[p][k].forward = "no"
          /\ hop[p][k].destroy # "no" => Broken(p)
          /\ hop[p][k].state # "none" /\ k > 1 => Passed(hop[p][k - 1])
      BY DEF IInv, HopsInOrder
    <3>3. Broken(p) => Broken(p)'
      BY <1>3, Zenon
    <3>4. hop[p][k].state # "none" /\ k > 1 => Passed(hop'[p][k - 1])
      BY <2>2, <3>2, Zenon DEF Advances
    <3> QED  BY <3>1, <3>2, <3>3, <3>4, Zenon
  <2> QED  BY <2>3, <2>4
<1>5. ASSUME NEW m \in msgs'
      PROVE  m \in MsgType /\ MsgTrue(m)' /\ m.path \notin keys /\ m.path \in DOMAIN path
  <2>1. CASE m \in msgs
    <3>1. m \in MsgType /\ MsgTrue(m)
      BY <2>1 DEF IInv, TypeOK, MsgsTrue
    <3>2. m.path \in Ids /\ (m.type = "commit" => m.to \in 1..Hops /\ m = Commit(m.path, m.to))
      BY <3>1, MsgFields
    <3>3. m.path \notin keys /\ m.path \in DOMAIN path
      BY <2>1, <3>2 DEF IInv, NothingSent
    <3>4. m.type = "commit" => ~(m.path = r /\ m.to = n)
      BY <1>5, <3>2
    <3>5. m.type = "commit" => hop'[m.path][m.to] = hop[m.path][m.to]
      BY <1>2, <3>2, <3>4
    <3>6. MsgTrue(m)'
      BY <1>2, <3>1, <3>5, OldMsg
    <3> QED  BY <3>1, <3>3, <3>6
  <2>2. CASE m \notin msgs
    BY <2>2, <1>5
  <2> QED  BY <2>1, <2>2
<1>6. ASSUME NEW p \in Ids, NEW k \in 1..Hops, p \in keys \/ p \notin DOMAIN path
      PROVE  hop'[p][k].state = "none"
  BY <1>2, <1>6 DEF IInv, NothingSent
<1>7. ASSUME NEW p \in m_Paths, NEW k \in 1..Hops
      PROVE  /\ hop'[p][k].age <= path[p].age
             /\ hop'[p][k].state = "gone" => path[p].age >= Lifetime \/ hop'[p][k].destroy = "yes"
  <2>1. p \in DOMAIN path /\ p \in Ids /\ path[p].age \in Nat /\ hop[p][k].age \in Nat
    <3>1. TypeOK /\ p \in DOMAIN path
      BY DEF IInv, TypeOK
    <3> QED  BY <3>1, PathFields, HopFields, Zenon
  <2>2. /\ hop[p][k].age <= path[p].age
        /\ hop[p][k].state = "gone" => path[p].age >= Lifetime \/ hop[p][k].destroy = "yes"
    BY <2>1 DEF IInv, PathsTrue, PathTrue, OldEnough
  <2>3. g.age \in Nat
    BY TimesAssumption DEF HopType
  <2>4. CASE p = r /\ k = n
    BY <1>2, <2>1, <2>2, <2>3, <2>4
  <2>5. CASE p # r \/ k # n
    <3>1. hop'[p][k] = hop[p][k]
      BY <1>2, <2>1, <2>5
    <3> QED  BY <2>2, <3>1
  <2> QED  BY <2>4, <2>5
<1> QED  BY <1>2, <1>4, <1>5, <1>6, <1>7, RouterStep

\* What a concatenation is made of
LEMMA Concatenated ==
  ASSUME NEW F, NEW s \in Seq(F), NEW t \in Seq(F)
  PROVE  /\ s \o t \in Seq(F) /\ Len(s \o t) = Len(s) + Len(t)
         /\ \A i \in 1..Len(s) + Len(t) : (s \o t)[i] = IF i <= Len(s) THEN s[i] ELSE t[i - Len(s)]
OBVIOUS

\* LR_StatusMessage::AddFrame puts a record in front.
LEMMA FrameAdded ==
  ASSUME NEW frames \in Seq(FrameType), NEW k \in 1..Hops, NEW ok \in BOOLEAN
  PROVE  /\ AddFrame(frames, k, ok) \in Seq(FrameType)
         /\ Len(AddFrame(frames, k, ok)) = Len(frames) + 1
         /\ AddFrame(frames, k, ok)[1] = [hop |-> k, ok |-> ok]
         /\ \A i \in 2..Len(frames) + 1 : AddFrame(frames, k, ok)[i] = frames[i - 1]
<1> DEFINE one == <<[hop |-> k, ok |-> ok]>>
<1>1. one \in Seq(FrameType) /\ Len(one) = 1 /\ one[1] = [hop |-> k, ok |-> ok]
  BY DEF FrameType
<1>2. Len(frames) \in Nat
  OBVIOUS
<1> HIDE DEF one
<1>3. /\ one \o frames \in Seq(FrameType)
      /\ Len(one \o frames) = Len(frames) + 1
      /\ (one \o frames)[1] = one[1]
      /\ \A i \in 2..Len(frames) + 1 : (one \o frames)[i] = frames[i - 1]
  <2>1. /\ one \o frames \in Seq(FrameType) /\ Len(one \o frames) = Len(one) + Len(frames)
        /\ \A i \in 1..Len(one) + Len(frames) :
             (one \o frames)[i] = IF i <= Len(one) THEN one[i] ELSE frames[i - Len(one)]
    BY <1>1, Concatenated, Zenon
  <2> DEFINE all == one \o frames
  <2> HIDE DEF all
  <2>2. /\ all \in Seq(FrameType) /\ Len(all) = Len(one) + Len(frames)
        /\ \A i \in 1..Len(one) + Len(frames) :
             all[i] = IF i <= Len(one) THEN one[i] ELSE frames[i - Len(one)]
    BY <2>1, Zenon DEF all
  <2>3. /\ all \in Seq(FrameType) /\ Len(all) = Len(frames) + 1 /\ all[1] = one[1]
        /\ \A i \in 2..Len(frames) + 1 : all[i] = frames[i - 1]
    BY <1>1, <1>2, <2>2
  <2> QED  BY <2>3, Zenon DEF all
<1>4. AddFrame(frames, k, ok) = one \o frames
  BY DEF AddFrame, one
<1> QED  BY <1>1, <1>2, <1>3, <1>4

\* The LRSM of a hop that could not extend the path is true.
LEMMA FailTrue ==
  ASSUME NEW p \in Ids, NEW k \in 1..Hops, NEW m, m = Fail(p, k), Broken(p)'
  PROVE  m \in MsgType /\ m.path = p /\ MsgTrue(m)'
<1> DEFINE frames == AddFrame(<<>>, k, FALSE)
<1>1. <<>> \in Seq(FrameType) /\ Len(<<>>) = 0 /\ FALSE \in BOOLEAN
  OBVIOUS
<1>2. /\ frames \in Seq(FrameType) /\ Len(frames) = Len(<<>>) + 1
      /\ frames[1] = [hop |-> k, ok |-> FALSE]
  BY <1>1, FrameAdded, Zenon
<1> HIDE DEF frames
<1>3. k - 1 \in 0..Hops - 1
  BY HopsAssumption
<1>4. Status(p, k - 1, FALSE, frames) \in MsgType
  BY <1>1, <1>2, <1>3, Messages, Zenon
<1>5. m = Status(p, k - 1, FALSE, frames)
  BY DEF Fail, frames
<1>6. /\ m.type = "status" /\ m.path = p /\ ~m.ok /\ m.frames = frames
      /\ m.type # "commit" /\ m.type \notin {"up", "down"}
  BY <1>5 DEF Status
<1>7. ASSUME NEW i \in 1..Len(m.frames)  PROVE ~m.frames[i].ok
  <2>1. Len(m.frames) = 1
    BY <1>1, <1>2, <1>6
  <2>2. i = 1
    BY <2>1
  <2>3. m.frames[i] = [hop |-> k, ok |-> FALSE]
    BY <1>2, <1>6, <2>2
  <2> QED  BY <2>3
<1>8. MsgTrue(m)'
  BY <1>6, <1>7, Zenon DEF MsgTrue, RecordsTrue
<1> QED  BY <1>4, <1>5, <1>6, <1>8, Zenon

\* Every hop that was made belongs to a path whose LRCM was sent.
LEMMA MadeHop ==
  ASSUME IInv, NEW p \in Ids, NEW k \in 1..Hops, hop[p][k].state # "none"
  PROVE  /\ p \notin keys /\ p \in DOMAIN path
         /\ k > 1 => Passed(hop[p][k - 1])
         /\ Commit(p, k) \notin msgs
<1>1. p \notin keys /\ p \in DOMAIN path
  BY DEF IInv, NothingSent
<1>2. k > 1 => Passed(hop[p][k - 1])
  BY DEF IInv, HopsInOrder
<1>3. Commit(p, k) \in msgs => MsgTrue(Commit(p, k))
  BY DEF IInv, MsgsTrue
<1> QED  BY <1>1, <1>2, <1>3 DEF MsgTrue, Commit

\* LRCMFrameDecrypt::HandleDecrypted
LEMMA HandleDecryptedInv ==
  ASSUME IInv, NEW m \in msgs, HandleDecrypted(m)
  PROVE  IInv'
<1>1. /\ m.type = "commit" /\ m \in MsgType /\ MsgTrue(m)
      /\ hop' = [hop EXCEPT ![m.path][m.to] = Decrypted]
      /\ msgs' = msgs \ {m} /\ UNCHANGED <<builder, path, keys, m_Paths, logic>>
  BY DEF HandleDecrypted, IInv, TypeOK, MsgsTrue
<1>2. m.path \in Ids /\ m.to \in 1..Hops /\ m = Commit(m.path, m.to)
  BY <1>1, MsgFields
<1>3. hop[m.path][m.to].state = "none" /\ (m.to > 1 => Passed(hop[m.path][m.to - 1]))
  BY <1>1 DEF MsgTrue
<1>4. hop[m.path][m.to] = NoHop
  BY <1>2, <1>3 DEF IInv, HopsInOrder
<1>5. /\ Decrypted \in HopType /\ Advances(hop[m.path][m.to], Decrypted)
      /\ Decrypted.state # "none" /\ Decrypted.state # "gone" /\ Decrypted.forward = "no"
      /\ Decrypted.destroy = hop[m.path][m.to].destroy
      /\ Decrypted.age <= hop[m.path][m.to].age
  BY <1>4, TimesAssumption DEF Decrypted, NoHop, HopType, Advances, Passed
<1>6. m.path \notin keys /\ m.path \in DOMAIN path
  BY <1>2 DEF IInv, NothingSent
<1>7. Commit(m.path, m.to) \notin msgs' /\ \A n \in msgs' : n \in msgs
  BY <1>1, <1>2
<1> QED  BY <1>1, <1>2, <1>3, <1>4, <1>5, <1>6, <1>7, HopStepInv, Zenon

\* The fields of a hop whose state and forward are set.
LEMMA HopSet ==
  ASSUME NEW h \in HopType, NEW st \in {"put", "refused"}, NEW f \in {"no", "sent"}
  PROVE  /\ [h EXCEPT !.state = st, !.forward = f] \in HopType
         /\ [h EXCEPT !.state = st, !.forward = f].state = st
         /\ [h EXCEPT !.state = st, !.forward = f].forward = f
         /\ [h EXCEPT !.state = st, !.forward = f].destroy = h.destroy
         /\ [h EXCEPT !.state = st, !.forward = f].age = h.age
<1> DEFINE e == [h EXCEPT !.state = st]
<1>1. /\ e \in HopType /\ e.state = st
      /\ e.destroy = h.destroy /\ e.age = h.age
  BY DEF HopType
<1>2. [h EXCEPT !.state = st, !.forward = f] = [e EXCEPT !.forward = f]
  OBVIOUS
<1> HIDE DEF e
<1> QED  BY <1>1, <1>2 DEF HopType

\* SendLRCM, with the LRCM passed on
LEMMA SendLRCMInv ==
  ASSUME IInv, NEW p \in Ids, NEW k \in 1..Hops, SendLRCM(p, k, TRUE)
  PROVE  IInv'
<1> DEFINE g == [hop[p][k] EXCEPT !.state = "put", !.forward = "sent"]
           c == Commit(p, k + 1)
<1>1. /\ k < Hops /\ hop[p][k].state = "decrypted"
      /\ hop' = [hop EXCEPT ![p][k] = g] /\ msgs' = msgs \cup {c}
      /\ UNCHANGED <<builder, path, keys, m_Paths, logic>>
  BY DEF SendLRCM
<1>2. hop[p][k] \in HopType /\ hop[p][k].forward = "no" /\ hop[p][k].age \in Nat
  BY <1>1, HopFields DEF IInv, HopsInOrder
<1>3. /\ g \in HopType /\ Advances(hop[p][k], g) /\ Passed(g)
      /\ g.state # "none" /\ g.state # "gone" /\ g.state \notin {"decrypted", "refused"}
      /\ g.destroy = hop[p][k].destroy /\ g.age <= hop[p][k].age
  <2>1. /\ g \in HopType /\ g.state = "put" /\ g.forward = "sent"
        /\ g.destroy = hop[p][k].destroy /\ g.age = hop[p][k].age
    <3>1. "put" \in {"put", "refused"} /\ "sent" \in {"no", "sent"}
      OBVIOUS
    <3>2. hop[p][k] \in HopType
      BY <1>2
    <3> QED  BY <3>1, <3>2, HopSet, Zenon
  <2> HIDE DEF g
  <2> QED  BY <1>1, <1>2, <2>1 DEF Advances, Passed
<1>4. p \notin keys /\ p \in DOMAIN path /\ (k > 1 => Passed(hop[p][k - 1])) /\ Commit(p, k) \notin msgs
  BY <1>1, MadeHop
<1>5. k + 1 \in 1..Hops /\ k + 1 # k /\ k + 1 > 1 /\ (k + 1) - 1 = k
  BY <1>1, HopsAssumption
<1>6. hop[p][k + 1].state = "none"
  BY <1>1, <1>5 DEF IInv, HopsInOrder, Passed
<1> HIDE DEF g
<1>7. hop'[p][k] = g /\ hop'[p][k + 1] = hop[p][k + 1]
  <2>1. hop \in [Ids -> [1..Hops -> HopType]]
    BY DEF IInv, TypeOK
  <2>2. /\ hop' \in [Ids -> [1..Hops -> HopType]]
        /\ hop'[p][k] = g
        /\ \A q \in Ids, n \in 1..Hops : q # p \/ n # k => hop'[q][n] = hop[q][n]
        /\ \A q \in Ids, n \in 1..Hops : Advances(hop[q][n], hop'[q][n])
    <3>1. hop' = [hop EXCEPT ![p][k] = g] /\ g \in HopType /\ Advances(hop[p][k], g)
      BY <1>1, <1>3
    <3> QED  BY <2>1, <3>1, Move, Zenon
  <2> QED  BY <1>5, <2>2
<1>8. c \in MsgType /\ c.path = p /\ c.type = "commit" /\ c.to = k + 1
  BY <1>5, Messages DEF Commit
<1>9. c # Commit(p, k)
  BY <1>5 DEF Commit
<1> HIDE DEF c
<1>10. MsgTrue(c)'
  BY <1>3, <1>5, <1>6, <1>7, <1>8 DEF MsgTrue
<1>11. \A m \in msgs' : m \in msgs \/ (m \in MsgType /\ m.path = p /\ MsgTrue(m)')
  BY <1>1, <1>8, <1>10, Zenon
<1>12. Commit(p, k) \notin msgs'
  BY <1>1, <1>4, <1>9
<1> QED  BY <1>1, <1>3, <1>4, <1>11, <1>12, HopStepInv, Zenon

\* SendLRCM, with the next hop refused
LEMMA RefuseInv ==
  ASSUME IInv, NEW p \in Ids, NEW k \in 1..Hops, SendLRCM(p, k, FALSE)
  PROVE  IInv'
<1> DEFINE g == [hop[p][k] EXCEPT !.state = "refused", !.forward = "no"]
           f == Fail(p, k)
<1>1. /\ hop[p][k].state = "decrypted"
      /\ hop' = [hop EXCEPT ![p][k] = g] /\ msgs' = msgs \cup {f}
      /\ UNCHANGED <<builder, path, keys, m_Paths, logic>>
  BY DEF SendLRCM
<1>2. hop[p][k] \in HopType /\ hop[p][k].forward = "no" /\ hop[p][k].age \in Nat
  BY <1>1, HopFields DEF IInv, HopsInOrder
<1>3. /\ g \in HopType /\ Advances(hop[p][k], g)
      /\ g.state # "none" /\ g.state # "gone" /\ g.state = "refused" /\ g.forward = "no"
      /\ g.destroy = hop[p][k].destroy /\ g.age <= hop[p][k].age
  <2>1. /\ g \in HopType /\ g.state = "refused" /\ g.forward = "no"
        /\ g.destroy = hop[p][k].destroy /\ g.age = hop[p][k].age
    <3>1. "refused" \in {"put", "refused"} /\ "no" \in {"no", "sent"}
      OBVIOUS
    <3>2. hop[p][k] \in HopType
      BY <1>2
    <3> QED  BY <3>1, <3>2, HopSet, Zenon
  <2> HIDE DEF g
  <2> QED  BY <1>1, <1>2, <2>1 DEF Advances, Passed
<1>4. p \notin keys /\ p \in DOMAIN path /\ (k > 1 => Passed(hop[p][k - 1])) /\ Commit(p, k) \notin msgs
  BY <1>1, MadeHop
<1> HIDE DEF g
<1>5. hop'[p][k] = g
  <2>1. hop \in [Ids -> [1..Hops -> HopType]]
    BY DEF IInv, TypeOK
  <2>2. /\ hop' \in [Ids -> [1..Hops -> HopType]]
        /\ hop'[p][k] = g
        /\ \A q \in Ids, j \in 1..Hops : q # p \/ j # k => hop'[q][j] = hop[q][j]
        /\ \A q \in Ids, j \in 1..Hops : Advances(hop[q][j], hop'[q][j])
    BY <1>1, <1>3, <2>1, Move, Zenon
  <2> QED  BY <2>2
<1>6. Broken(p)'
  BY <1>3, <1>5 DEF Broken
<1>7. f \in MsgType /\ f.path = p /\ MsgTrue(f)'
  BY <1>6, FailTrue, Zenon
<1>8. f # Commit(p, k)
  BY DEF Fail, Status, Commit
<1> HIDE DEF f
<1>9. \A m \in msgs' : m \in msgs \/ (m \in MsgType /\ m.path = p /\ MsgTrue(m)')
  BY <1>1, <1>7, Zenon
<1>10. Commit(p, k) \notin msgs'
  BY <1>1, <1>4, <1>8
<1> QED  BY <1>1, <1>3, <1>4, <1>9, <1>10, HopStepInv, Zenon

\* OnForwardLRCMResult
LEMMA ForwardResultInv ==
  ASSUME IInv, NEW p \in Ids, NEW k \in 1..Hops, OnForwardLRCMResult(p, k)
  PROVE  IInv'
<1> DEFINE g == [hop[p][k] EXCEPT !.forward = "failed"]
           f == Fail(p, k)
<1>1. /\ hop[p][k].forward = "sent"
      /\ hop' = [hop EXCEPT ![p][k] = g] /\ msgs' = msgs \cup {f}
      /\ UNCHANGED <<builder, path, keys, m_Paths, logic>>
  BY DEF OnForwardLRCMResult
<1>2. /\ hop[p][k] \in HopType /\ hop[p][k].state \notin {"decrypted", "refused", "none"}
      /\ hop[p][k].age \in Nat
  BY <1>1, HopFields DEF IInv, HopsInOrder, NoHop
<1>3. /\ g \in HopType /\ Advances(hop[p][k], g)
      /\ g.state = hop[p][k].state /\ g.forward = "failed"
      /\ g.state # "none" /\ g.state \notin {"decrypted", "refused"}
      /\ g.destroy = hop[p][k].destroy /\ g.age <= hop[p][k].age
  BY <1>1, <1>2 DEF HopType, Advances, Passed
<1>4. p \notin keys /\ p \in DOMAIN path /\ (k > 1 => Passed(hop[p][k - 1])) /\ Commit(p, k) \notin msgs
  BY <1>2, MadeHop
<1> HIDE DEF g
<1>5. hop'[p][k] = g
  <2>1. hop \in [Ids -> [1..Hops -> HopType]]
    BY DEF IInv, TypeOK
  <2>2. /\ hop' \in [Ids -> [1..Hops -> HopType]]
        /\ hop'[p][k] = g
        /\ \A q \in Ids, j \in 1..Hops : q # p \/ j # k => hop'[q][j] = hop[q][j]
        /\ \A q \in Ids, j \in 1..Hops : Advances(hop[q][j], hop'[q][j])
    BY <1>1, <1>3, <2>1, Move, Zenon
  <2> QED  BY <2>2
<1>6. Broken(p)'
  BY <1>3, <1>5 DEF Broken
<1>7. f \in MsgType /\ f.path = p /\ MsgTrue(f)'
  BY <1>6, FailTrue, Zenon
<1>8. f # Commit(p, k)
  BY DEF Fail, Status, Commit
<1> HIDE DEF f
<1>9. \A m \in msgs' : m \in msgs \/ (m \in MsgType /\ m.path = p /\ MsgTrue(m)')
  BY <1>1, <1>7, Zenon
<1>10. Commit(p, k) \notin msgs'
  BY <1>1, <1>4, <1>8
<1>11. g.state = "gone" /\ p \in m_Paths => path[p].age >= Lifetime \/ g.destroy = "yes"
  <2>1. hop[p][k].state = "gone" /\ p \in m_Paths =>
          path[p].age >= Lifetime \/ hop[p][k].destroy = "yes"
    BY <1>4, Zenon DEF IInv, PathsTrue, PathTrue, OldEnough
  <2> QED  BY <1>3, <2>1, Zenon
<1> QED  BY <1>1, <1>3, <1>4, <1>9, <1>10, <1>11, HopStepInv, Zenon

\* AddFrame of a success; the LRSMs of success and of failure.
Front(frames, k) == AddFrame(frames, k, TRUE)
Good(p, k, fs) == Status(p, k, TRUE, fs)
Bad(p, k, fs) == Status(p, k, FALSE, fs)

\* LR_StatusMessage::AddFrame, of a success.
LEMMA SuccessAdded ==
  ASSUME NEW frames \in Seq(FrameType), NEW k \in 1..Hops, NEW fs, fs = Front(frames, k)
  PROVE  /\ fs \in Seq(FrameType) /\ Len(fs) = Len(frames) + 1 /\ Len(frames) \in Nat
         /\ fs[1].hop = k /\ fs[1].ok
         /\ \A i \in 1..Len(fs) : i = 1 \/ (i - 1 \in 1..Len(frames) /\ fs[i] = frames[i - 1])
<1>1. TRUE \in BOOLEAN /\ Len(frames) \in Nat
  OBVIOUS
<1>2. /\ fs \in Seq(FrameType) /\ Len(fs) = Len(frames) + 1 /\ fs[1] = [hop |-> k, ok |-> TRUE]
      /\ \A i \in 2..Len(frames) + 1 : fs[i] = frames[i - 1]
  BY <1>1, FrameAdded, Zenon DEF Front
<1>3. \A i \in 1..Len(fs) : i = 1 \/ (i - 1 \in 1..Len(frames) /\ fs[i] = frames[i - 1])
  <2>1. /\ Len(fs) = Len(frames) + 1
        /\ \A i \in 2..Len(frames) + 1 : fs[i] = frames[i - 1]
    BY <1>2, Zenon
  <2> QED  BY <1>1, <2>1
<1>4. fs[1].hop = k /\ fs[1].ok
  BY <1>2
<1> QED  BY <1>1, <1>2, <1>3, <1>4, Zenon

\* The fields of an LRSM.
LEMMA SuccessFields ==
  ASSUME NEW p, NEW k, NEW fs, NEW m, m = Good(p, k, fs)
  PROVE  /\ m.type = "status" /\ m.type # "commit" /\ m.type \notin {"up", "down"}
         /\ m.path = p /\ m.to = k /\ m.frames = fs /\ m.ok
BY DEF Good, Status

LEMMA FailureFields ==
  ASSUME NEW p, NEW k, NEW fs, NEW m, m = Bad(p, k, fs)
  PROVE  /\ m.type = "status" /\ m.type # "commit" /\ m.type \notin {"up", "down"}
         /\ m.path = p /\ m.to = k /\ m.frames = fs /\ ~m.ok
BY DEF Bad, Status

\* A record of success in front of true records: what HandleLRSM and
\* SendPathConfirm send.
LEMMA FramesTrue ==
  ASSUME NEW p \in Ids, NEW k \in 1..Hops, NEW frames \in Seq(FrameType),
         Passed(hop'[p][k]), RecordsTrue(p, frames)'
  PROVE  /\ Front(frames, k) \in Seq(FrameType)
         /\ RecordsTrue(p, Front(frames, k))'
         /\ Complete(k, frames) => Complete(k - 1, Front(frames, k))
<1> DEFINE fs == Front(frames, k)
<1>1. /\ fs \in Seq(FrameType) /\ Len(fs) = Len(frames) + 1 /\ Len(frames) \in Nat
      /\ fs[1].hop = k /\ fs[1].ok
      /\ \A i \in 1..Len(fs) : i = 1 \/ (i - 1 \in 1..Len(frames) /\ fs[i] = frames[i - 1])
  BY SuccessAdded
<1> HIDE DEF fs
<1>2. \A i \in 1..Len(fs) : fs[i].ok => Passed(hop'[p][fs[i].hop])
  BY <1>1, Zenon DEF RecordsTrue
<1>3. ASSUME Complete(k, frames)  PROVE Complete(k - 1, fs)
  <2>1. /\ Len(frames) = Hops - k
        /\ \A i \in 1..Len(frames) : frames[i].hop = k + i /\ frames[i].ok
    BY <1>3 DEF Complete
  <2>2. ASSUME NEW i \in 1..Len(fs)  PROVE fs[i].hop = (k - 1) + i /\ fs[i].ok
    <3>1. CASE i = 1
      BY <1>1, <3>1
    <3>2. CASE i # 1
      <4>1. i - 1 \in 1..Len(frames) /\ fs[i] = frames[i - 1]
        BY <1>1, <3>2
      <4>2. frames[i - 1].hop = k + (i - 1) /\ frames[i - 1].ok
        BY <2>1, <4>1, Zenon
      <4>3. k + (i - 1) = (k - 1) + i
        OBVIOUS
      <4> QED  BY <4>1, <4>2, <4>3, Zenon
    <3> QED  BY <3>1, <3>2
  <2>3. Len(fs) = Hops - (k - 1)
    BY <1>1, <2>1, HopsAssumption
  <2> QED  BY <2>2, <2>3, Zenon DEF Complete
<1>4. RecordsTrue(p, fs)'
  BY <1>2, Zenon DEF RecordsTrue
<1> QED  BY <1>1, <1>3, <1>4, Zenon DEF fs

\* An LRSM of success that a hop sends or passes on is true.
LEMMA SuccessTrue ==
  ASSUME NEW p \in Ids, NEW k \in 1..Hops, NEW frames \in Seq(FrameType),
         Passed(hop'[p][k]), RecordsTrue(p, frames)', Complete(k, frames),
         NEW m, m = Good(p, k - 1, Front(frames, k))
  PROVE  m \in MsgType /\ m.path = p /\ m.type = "status" /\ MsgTrue(m)'
<1>1. TRUE \in BOOLEAN /\ k - 1 \in 0..Hops - 1
  BY HopsAssumption
<1>2. /\ Front(frames, k) \in Seq(FrameType)
      /\ RecordsTrue(p, Front(frames, k))' /\ Complete(k - 1, Front(frames, k))
  BY FramesTrue, Zenon
<1>3. m \in MsgType
  BY <1>1, <1>2, Messages, Zenon DEF Good
<1>4. /\ m.type = "status" /\ m.type # "commit" /\ m.type \notin {"up", "down"}
      /\ m.path = p /\ m.to = k - 1 /\ m.frames = Front(frames, k) /\ m.ok
  BY SuccessFields
<1>5. MsgTrue(m)'
  BY <1>2, <1>4, Zenon DEF MsgTrue
<1> QED  BY <1>3, <1>4, <1>5, Zenon

\* So is one of failure that a hop passes on.
LEMMA FailureTrue ==
  ASSUME NEW p \in Ids, NEW k \in 1..Hops, NEW frames \in Seq(FrameType),
         Passed(hop'[p][k]), RecordsTrue(p, frames)', Broken(p)',
         NEW m, m = Bad(p, k - 1, Front(frames, k))
  PROVE  m \in MsgType /\ m.path = p /\ m.type = "status" /\ MsgTrue(m)'
<1>1. FALSE \in BOOLEAN /\ k - 1 \in 0..Hops - 1
  BY HopsAssumption
<1>2. Front(frames, k) \in Seq(FrameType) /\ RecordsTrue(p, Front(frames, k))'
  BY FramesTrue, Zenon
<1>3. m \in MsgType
  BY <1>1, <1>2, Messages, Zenon DEF Bad
<1>4. /\ m.type = "status" /\ m.type # "commit" /\ m.type \notin {"up", "down"}
      /\ m.path = p /\ m.to = k - 1 /\ m.frames = Front(frames, k) /\ ~m.ok
  BY FailureFields
<1>5. MsgTrue(m)'
  BY <1>2, <1>4, Zenon DEF MsgTrue
<1> QED  BY <1>3, <1>4, <1>5, Zenon

\* SendPathConfirm
LEMMA SendPathConfirmInv ==
  ASSUME IInv, NEW p \in Ids, SendPathConfirm(p)
  PROVE  IInv'
<1> DEFINE k == Hops
           g == [hop[p][k] EXCEPT !.state = "put"]
           f == Status(p, k - 1, TRUE, AddFrame(<<>>, k, TRUE))
<1>1. /\ hop[p][k].state = "decrypted"
      /\ hop' = [hop EXCEPT ![p][k] = g] /\ msgs' = msgs \cup {f}
      /\ UNCHANGED <<builder, path, keys, m_Paths, logic>>
  BY DEF SendPathConfirm
<1>2. k \in 1..Hops /\ Hops - k = 0
  BY HopsAssumption
<1> HIDE DEF k
<1>3. hop[p][k] \in HopType /\ hop[p][k].age \in Nat
  BY <1>2, HopFields DEF IInv
<1>4. /\ g \in HopType /\ Advances(hop[p][k], g) /\ Passed(g)
      /\ g.state # "none" /\ g.state # "gone" /\ g.state \notin {"decrypted", "refused"}
      /\ g.destroy = hop[p][k].destroy /\ g.age <= hop[p][k].age
  BY <1>1, <1>3 DEF HopType, Advances, Passed
<1>5. p \notin keys /\ p \in DOMAIN path /\ (k > 1 => Passed(hop[p][k - 1])) /\ Commit(p, k) \notin msgs
  BY <1>1, <1>2, MadeHop
<1> HIDE DEF g
<1>6. hop'[p][k] = g
  <2>1. hop \in [Ids -> [1..Hops -> HopType]]
    BY DEF IInv, TypeOK
  <2>2. /\ hop' \in [Ids -> [1..Hops -> HopType]]
        /\ hop'[p][k] = g
        /\ \A q \in Ids, j \in 1..Hops : q # p \/ j # k => hop'[q][j] = hop[q][j]
        /\ \A q \in Ids, j \in 1..Hops : Advances(hop[q][j], hop'[q][j])
    BY <1>1, <1>2, <1>4, <2>1, Move, Zenon
  <2> QED  BY <2>2
<1>7. ASSUME NEW m, m = f  PROVE m \in MsgType /\ m.path = p /\ MsgTrue(m)'
  <2> DEFINE none == <<>>
  <2>1. none \in Seq(FrameType) /\ Len(none) = 0 /\ Len(none) = Hops - k
    BY <1>2
  <2>2. m = Good(p, k - 1, Front(none, k))
    BY <1>7, Zenon DEF Good, Front
  <2> HIDE DEF none, f
  <2>3. \A i \in 1..Len(none) : FALSE
    BY <2>1
  <2>4. RecordsTrue(p, none)' /\ Complete(k, none)
    BY <2>1, <2>3, Zenon DEF RecordsTrue, Complete
  <2>5. Passed(hop'[p][k])
    BY <1>4, <1>6
  <2> QED  BY <1>2, <2>1, <2>2, <2>4, <2>5, SuccessTrue, Zenon
<1>8. f # Commit(p, k)
  BY DEF Status, Commit
<1> HIDE DEF f
<1>9. \A m \in msgs' : m \in msgs \/ (m \in MsgType /\ m.path = p /\ MsgTrue(m)')
  BY <1>1, <1>7, Zenon
<1>10. Commit(p, k) \notin msgs'
  BY <1>1, <1>5, <1>8
<1> QED  BY <1>1, <1>2, <1>4, <1>5, <1>9, <1>10, HopStepInv, Zenon

\* The fields of a hop that is erased.
LEMMA HopGone ==
  ASSUME NEW h \in HopType
  PROVE  /\ [h EXCEPT !.state = "gone", !.age = 0] \in HopType
         /\ [h EXCEPT !.state = "gone", !.age = 0].state = "gone"
         /\ [h EXCEPT !.state = "gone", !.age = 0].age = 0
         /\ [h EXCEPT !.state = "gone", !.age = 0].destroy = h.destroy
         /\ [h EXCEPT !.state = "gone", !.age = 0].forward = h.forward
<1> DEFINE e == [h EXCEPT !.state = "gone"]
<1>1. /\ e \in HopType /\ e.state = "gone"
      /\ e.destroy = h.destroy /\ e.forward = h.forward
  BY DEF HopType
<1>2. [h EXCEPT !.state = "gone", !.age = 0] = [e EXCEPT !.age = 0]
  OBVIOUS
<1> HIDE DEF e
<1> QED  BY <1>1, <1>2, TimesAssumption DEF HopType

\* Only messages move.
LEMMA MsgStepInv ==
  ASSUME IInv, UNCHANGED <<builder, path, keys, m_Paths, logic, hop>>,
         NEW q \in msgs,
         \A m \in msgs' : m \in msgs \/ (m \in MsgType /\ m.path = q.path /\ MsgTrue(m)')
  PROVE  IInv'
<1>1. hop' = hop /\ UNCHANGED <<builder, path, keys, m_Paths, logic>>
  OBVIOUS
<1>2. hop' \in [Ids -> [1..Hops -> HopType]]
  BY <1>1 DEF IInv, TypeOK
<1>3. \A p \in Ids, k \in 1..Hops : Advances(hop[p][k], hop'[p][k])
  BY <1>1 DEF Advances
<1>4. HopsInOrder'
  BY <1>1 DEF IInv, HopsInOrder, Broken
<1>5. ASSUME NEW m \in msgs  PROVE /\ m \in MsgType /\ MsgTrue(m)'
                                   /\ m.path \notin keys /\ m.path \in DOMAIN path
  <2>1. m \in MsgType /\ MsgTrue(m)
    BY DEF IInv, TypeOK, MsgsTrue
  <2>2. m.path \in Ids
    BY <2>1, MsgFields
  <2>3. m.path \notin keys /\ m.path \in DOMAIN path
    BY <2>2 DEF IInv, NothingSent
  <2>4. hop'[m.path][m.to] = hop[m.path][m.to]
    BY <1>1
  <2>5. MsgTrue(m)'
    BY <1>3, <2>1, <2>4, OldMsg, Zenon
  <2> QED  BY <2>1, <2>3, <2>5, Zenon
<1>6. \A m \in msgs' : /\ m \in MsgType /\ MsgTrue(m)'
                       /\ m.path \notin keys /\ m.path \in DOMAIN path
  BY <1>5, Zenon
<1>7. \A p \in Ids, k \in 1..Hops :
        p \in keys \/ p \notin DOMAIN path => hop'[p][k].state = "none"
  BY <1>1 DEF IInv, NothingSent
<1>8. ASSUME NEW p \in m_Paths, NEW k \in 1..Hops
      PROVE  /\ hop'[p][k].age <= path[p].age
             /\ hop'[p][k].state = "gone" => path[p].age >= Lifetime \/ hop'[p][k].destroy = "yes"
  <2>1. p \in DOMAIN path
    BY DEF IInv, TypeOK
  <2> QED  BY <1>1, <2>1, Zenon DEF IInv, PathsTrue, PathTrue, OldEnough
<1> QED  BY <1>1, <1>2, <1>3, <1>4, <1>6, <1>7, <1>8, RouterStep, Zenon

\* Relay
LEMMA RelayInv ==
  ASSUME IInv, NEW m \in msgs, Relay(m)
  PROVE  IInv'
<1>1. m \in MsgType /\ MsgTrue(m)
  BY DEF IInv, TypeOK, MsgsTrue
<1>2. /\ m.type \in {"up", "down"} /\ m.to # 0
      /\ UNCHANGED <<builder, path, keys, m_Paths, logic, hop>>
      /\ \A n \in msgs' : n \in msgs \/ n = Relayed(m)
  BY DEF Relay
<1>3. /\ m.path \in Ids /\ m.id \in Nat /\ m.id > 0
      /\ m.type = "up" => m.to \in 1..Hops
      /\ m.type = "down" => m.to \in 0..Hops - 1
  BY <1>1, <1>2, MsgFields, Zenon DEF MsgTrue
<1>4. /\ m.type = "up" /\ m.to # Hops => m.to + 1 \in 1..Hops
      /\ m.type = "down" \/ m.to = Hops => m.to - 1 \in 0..Hops - 1
  BY <1>2, <1>3, HopsAssumption
<1>5. ASSUME NEW n, n = Relayed(m)
      PROVE  /\ n \in MsgType /\ n.path = m.path
             /\ n.type \in {"up", "down"} /\ n.id = m.id
  <2>1. \/ n = Downstream(m.path, m.to - 1, m.id) /\ m.to - 1 \in 0..Hops - 1
        \/ n = Upstream(m.path, m.to + 1, m.id) /\ m.to + 1 \in 1..Hops
    BY <1>2, <1>4, <1>5 DEF Relayed
  <2>2. n \in MsgType
    BY <1>3, <2>1, Messages, Zenon
  <2>3. n.path = m.path /\ n.type \in {"up", "down"} /\ n.id = m.id
    BY <2>1 DEF Downstream, Upstream
  <2> QED  BY <2>2, <2>3
<1>6. ASSUME NEW n, n = Relayed(m)  PROVE n \in MsgType /\ n.path = m.path /\ MsgTrue(n)'
  <2>1. n \in MsgType /\ n.path = m.path /\ n.type \in {"up", "down"} /\ n.id > 0
    BY <1>3, <1>5, <1>6, Zenon
  <2>2. n.type # "commit" /\ n.type # "status"
    BY <2>1
  <2> QED  BY <2>1, <2>2, Zenon DEF MsgTrue
<1>7. \A n \in msgs' : n \in msgs \/ (n \in MsgType /\ n.path = m.path /\ MsgTrue(n)')
  BY <1>2, <1>6, Zenon
<1> QED  BY <1>2, <1>7, MsgStepInv, Zenon

\* SetSelfDestruct
LEMMA SetSelfDestructInv ==
  ASSUME IInv, NEW p \in Ids, NEW k \in 1..Hops, SetSelfDestruct(p, k)
  PROVE  IInv'
<1> DEFINE g == [hop[p][k] EXCEPT !.destroy = "yes"]
<1>1. /\ hop[p][k].destroy = "queued"
      /\ hop' = [hop EXCEPT ![p][k] = g] /\ msgs' = msgs
      /\ UNCHANGED <<builder, path, keys, m_Paths, logic>>
  BY DEF SetSelfDestruct
<1>2. hop[p][k] \in HopType /\ hop[p][k].age \in Nat
  BY HopFields DEF IInv
<1>3. /\ hop[p][k].state = "none" => hop[p][k] = NoHop
      /\ hop[p][k].state \in {"decrypted", "refused"} => hop[p][k].forward = "no"
      /\ Broken(p)
  BY <1>1 DEF IInv, HopsInOrder
<1>4. hop[p][k].state # "none"
  BY <1>1, <1>3 DEF NoHop
<1>5. /\ g \in HopType /\ Advances(hop[p][k], g)
      /\ g.state = hop[p][k].state /\ g.forward = hop[p][k].forward
      /\ g.destroy = "yes" /\ g.age <= hop[p][k].age
  BY <1>1, <1>2 DEF HopType, Advances, Passed
<1>6. p \notin keys /\ p \in DOMAIN path /\ (k > 1 => Passed(hop[p][k - 1])) /\ Commit(p, k) \notin msgs
  BY <1>4, MadeHop
<1> HIDE DEF g
<1>7. /\ g.state # "none" /\ (g.state \in {"decrypted", "refused"} => g.forward = "no")
      /\ Commit(p, k) \notin msgs' /\ \A m \in msgs' : m \in msgs
  BY <1>1, <1>3, <1>4, <1>5, <1>6, Zenon
<1> QED  BY <1>1, <1>3, <1>5, <1>6, <1>7, HopStepInv, Zenon

\* PathContext::ExpirePaths
LEMMA ExpireHopInv ==
  ASSUME IInv, NEW p \in Ids, NEW k \in 1..Hops, ExpireHop(p, k)
  PROVE  IInv'
<1> DEFINE g == [hop[p][k] EXCEPT !.state = "gone", !.age = 0]
<1>1. /\ hop[p][k].state = "put" /\ (hop[p][k].destroy = "yes" \/ hop[p][k].age >= Lifetime)
      /\ hop' = [hop EXCEPT ![p][k] = g] /\ msgs' = msgs
      /\ UNCHANGED <<builder, path, keys, m_Paths, logic>>
  BY DEF ExpireHop, HopExpired
<1>2. hop[p][k] \in HopType /\ hop[p][k].age \in Nat
  BY HopFields DEF IInv
<1>3. g \in HopType /\ g.state = "gone" /\ g.age = 0 /\ g.destroy = hop[p][k].destroy /\ g.forward = hop[p][k].forward
  BY <1>2, HopGone, Zenon
<1> HIDE DEF g
<1>4. /\ Advances(hop[p][k], g) /\ g.age <= hop[p][k].age
      /\ g.state # "none" /\ g.state \notin {"decrypted", "refused"} /\ hop[p][k].state # "none"
  BY <1>1, <1>2, <1>3 DEF Advances, Passed
<1>5. p \notin keys /\ p \in DOMAIN path /\ (k > 1 => Passed(hop[p][k - 1])) /\ Commit(p, k) \notin msgs
  BY <1>4, MadeHop
<1>6. ASSUME p \in m_Paths  PROVE path[p].age >= Lifetime \/ g.destroy = "yes"
  <2>1. hop[p][k].age <= path[p].age /\ path[p].age \in Nat
    BY <1>5, <1>6, PathFields DEF IInv, PathsTrue, PathTrue, OldEnough
  <2> QED  BY <1>1, <1>2, <1>3, <2>1, TimesAssumption
<1>7. Commit(p, k) \notin msgs' /\ \A m \in msgs' : m \in msgs
  BY <1>1, <1>5
<1> QED  BY <1>1, <1>3, <1>4, <1>5, <1>6, <1>7, HopStepInv, Zenon

\* The LRSM that HandleLRSM passes on.
LEMMA PassedOn ==
  ASSUME IInv, NEW m \in msgs, m.type = "status", m.to # 0, hop[m.path][m.to].state = "put",
         \A p \in Ids, k \in 1..Hops : Advances(hop[p][k], hop'[p][k]),
         NEW n, n = Status(m.path, m.to - 1, m.ok, AddFrame(m.frames, m.to, TRUE))
  PROVE  n \in MsgType /\ n.path = m.path /\ n.type = "status" /\ MsgTrue(n)'
<1>1. m \in MsgType /\ MsgTrue(m)
  BY DEF IInv, TypeOK, MsgsTrue
<1>2. m.path \in Ids /\ m.to \in 0..Hops - 1 /\ m.frames \in Seq(FrameType)
  BY <1>1, MsgFields, Zenon
<1>3. m.to \in 1..Hops
  BY <1>2, HopsAssumption
<1>4. RecordsTrue(m.path, m.frames)'
  BY <1>1, <1>2, RecordsStay, Zenon DEF MsgTrue
<1>5. Passed(hop'[m.path][m.to])
  BY <1>2, <1>3 DEF Advances, Passed
<1>6. CASE m.ok = TRUE
  <2>1. n = Good(m.path, m.to - 1, Front(m.frames, m.to))
    BY <1>6, Zenon DEF Good, Front
  <2>2. Complete(m.to, m.frames)
    BY <1>1, <1>6, Zenon DEF MsgTrue
  <2>4. ASSUME NEW q, q = Good(m.path, m.to - 1, Front(m.frames, m.to))
        PROVE  q \in MsgType /\ q.path = m.path /\ q.type = "status" /\ MsgTrue(q)'
    BY <1>2, <1>3, <1>4, <1>5, <2>2, <2>4, SuccessTrue
  <2> QED  BY <2>1, <2>4, Zenon
<1>7. CASE m.ok = FALSE
  <2>1. n = Bad(m.path, m.to - 1, Front(m.frames, m.to))
    BY <1>7, Zenon DEF Bad, Front
  <2>2. Broken(m.path)
    BY <1>1, <1>7, Zenon DEF MsgTrue
  <2>3. Broken(m.path)'
    BY <1>2, <2>2, Stable, Zenon
  <2>4. ASSUME NEW q, q = Bad(m.path, m.to - 1, Front(m.frames, m.to))
        PROVE  q \in MsgType /\ q.path = m.path /\ q.type = "status" /\ MsgTrue(q)'
    BY <1>2, <1>3, <1>4, <1>5, <2>3, <2>4, FailureTrue
  <2> QED  BY <2>1, <2>4, Zenon
<1>8. m.ok \in BOOLEAN
  BY <1>1, MsgFields, Zenon
<1> QED  BY <1>6, <1>7, <1>8, Zenon

\* TransitHop::HandleLRSM, of a failure: the hop will destroy itself.
LEMMA FailurePassedInv ==
  ASSUME IInv, NEW m \in msgs, HandleLRSM(m),
         hop[m.path][m.to].state = "put", ~m.ok, hop[m.path][m.to].destroy = "no"
  PROVE  IInv'
<1> DEFINE p == m.path
           k == m.to
           g == [hop[p][k] EXCEPT !.destroy = "queued"]
           n == Status(p, k - 1, m.ok, AddFrame(m.frames, k, TRUE))
<1>1. /\ m.type = "status" /\ m.to # 0
      /\ hop' = [hop EXCEPT ![p][k] = g] /\ msgs' = (msgs \ {m}) \cup {n}
      /\ UNCHANGED <<builder, path, keys, m_Paths, logic>>
  BY Zenon DEF HandleLRSM
<1>2. m \in MsgType /\ MsgTrue(m)
  BY DEF IInv, TypeOK, MsgsTrue
<1>3. p \in Ids /\ k \in 0..Hops - 1
  BY <1>1, <1>2, MsgFields, Zenon
<1>4. k \in 1..Hops
  BY <1>1, <1>3, HopsAssumption
<1>5. Broken(p)
  BY <1>1, <1>2, Zenon DEF MsgTrue
<1>6. hop[p][k] \in HopType /\ hop[p][k].age \in Nat /\ hop[p][k].state = "put"
  BY <1>3, <1>4, HopFields, Zenon DEF IInv
<1>7. /\ g \in HopType /\ Advances(hop[p][k], g)
      /\ g.state # "none" /\ g.state # "gone" /\ g.state \notin {"decrypted", "refused"}
      /\ g.age <= hop[p][k].age /\ hop[p][k].state # "none"
  <2> HIDE DEF p, k
  <2> QED  BY <1>6 DEF HopType, Advances, Passed
<1>8. p \notin keys /\ p \in DOMAIN path /\ (k > 1 => Passed(hop[p][k - 1])) /\ Commit(p, k) \notin msgs
  BY <1>3, <1>4, <1>7, MadeHop, Zenon
<1> HIDE DEF g
<1>9. \A q \in Ids, j \in 1..Hops : Advances(hop[q][j], hop'[q][j])
  <2>1. hop \in [Ids -> [1..Hops -> HopType]]
    BY DEF IInv, TypeOK
  <2> HIDE DEF p, k
  <2>2. /\ hop' \in [Ids -> [1..Hops -> HopType]]
        /\ hop'[p][k] = g
        /\ \A q \in Ids, j \in 1..Hops : q # p \/ j # k => hop'[q][j] = hop[q][j]
        /\ \A q \in Ids, j \in 1..Hops : Advances(hop[q][j], hop'[q][j])
    <3>1. hop' = [hop EXCEPT ![p][k] = g] /\ g \in HopType /\ Advances(hop[p][k], g)
      BY <1>1, <1>7, Zenon
    <3> QED  BY <1>3, <1>4, <2>1, <3>1, Move, Zenon
  <2> QED  BY <2>2, Zenon
<1>10. ASSUME NEW q, q = n  PROVE q \in MsgType /\ q.path = p /\ q.type = "status" /\ MsgTrue(q)'
  BY <1>1, <1>9, <1>10, PassedOn, Zenon
<1>11. \A q \in msgs' : q \in msgs \/ (q \in MsgType /\ q.path = p /\ MsgTrue(q)')
  <2> HIDE DEF n, p, k
  <2> QED  BY <1>1, <1>10, Zenon
<1>12. Commit(p, k) \notin msgs'
  <2>1. ASSUME NEW q, q = n  PROVE q.type = "status"
    BY <1>10, <2>1, Zenon
  <2> HIDE DEF n, p, k
  <2>2. Commit(p, k).type # "status"
    BY DEF Commit
  <2> QED  BY <1>1, <1>8, <2>1, <2>2, Zenon
<1> HIDE DEF n, p, k
<1> QED  BY <1>1, <1>3, <1>4, <1>5, <1>7, <1>8, <1>11, <1>12, HopStepInv, Zenon

\* TransitHop::HandleLRSM
LEMMA HandleLRSMInv ==
  ASSUME IInv, NEW m \in msgs, HandleLRSM(m)
  PROVE  IInv'
<1>1. /\ m.type = "status" /\ m.to # 0
      /\ UNCHANGED <<builder, path, keys, m_Paths, logic>>
  BY Zenon DEF HandleLRSM
<1>2. CASE hop[m.path][m.to].state = "put" /\ ~m.ok /\ hop[m.path][m.to].destroy = "no"
  BY <1>2, FailurePassedInv, Zenon
<1>3. CASE hop[m.path][m.to].state = "put" /\ ~(~m.ok /\ hop[m.path][m.to].destroy = "no")
  <2> DEFINE n == Status(m.path, m.to - 1, m.ok, AddFrame(m.frames, m.to, TRUE))
  <2>1. hop' = hop /\ msgs' = (msgs \ {m}) \cup {n}
    BY <1>3, Zenon DEF HandleLRSM
  <2>2. \A p \in Ids, k \in 1..Hops : Advances(hop[p][k], hop'[p][k])
    BY <2>1, Zenon DEF Advances
  <2>3. ASSUME NEW q, q = n
        PROVE  q \in MsgType /\ q.path = m.path /\ q.type = "status" /\ MsgTrue(q)'
    BY <1>1, <1>3, <2>2, <2>3, PassedOn, Zenon
  <2>4. \A q \in msgs' : q \in msgs \/ (q \in MsgType /\ q.path = m.path /\ MsgTrue(q)')
    <3> HIDE DEF n
    <3> QED  BY <2>1, <2>3, Zenon
  <2>5. UNCHANGED <<builder, path, keys, m_Paths, logic, hop>>
    <3> HIDE DEF n
    <3> QED  BY <1>1, <2>1
  <2> QED  BY <2>4, <2>5, MsgStepInv, Zenon
<1>4. CASE hop[m.path][m.to].state # "put"
  <2>1. hop' = hop /\ msgs' = msgs \ {m}
    BY <1>4, Zenon DEF HandleLRSM
  <2>2. UNCHANGED <<builder, path, keys, m_Paths, logic, hop>> /\ \A q \in msgs' : q \in msgs
    BY <1>1, <2>1
  <2> QED  BY <2>2, MsgStepInv, Zenon
<1> QED  BY <1>2, <1>3, <1>4, Zenon
-----------------------------------------------------------------------------

\* The times are natural numbers.
LEMMA Times ==
  /\ Lifetime \in Nat \ {0} /\ BuildTimeout \in Nat \ {0}
  /\ LatencyInterval \in Nat \ {0} /\ AliveTimeout \in Nat \ {0}
  /\ MinInterval \in Nat \ {0} /\ MaxInterval \in Nat \ {0} /\ MinInterval <= MaxInterval
BY TimesAssumption

\* The fields of a path.
LEMMA PathTypes ==
  ASSUME NEW q
  PROVE  q \in PathType =>
           /\ q.status \in Statuses /\ q.age \in 0..Lifetime /\ q.test \in Nat /\ q.tests \in Nat
           /\ q.testAge \in 0..AliveTimeout + 1 /\ q.recv \in Never..AliveTimeout + 1
BY DEF PathType

\* A fresh path
LEMMA NewPathTrue ==
  ASSUME NEW p
  PROVE  /\ NewPath \in PathType /\ PathTrue(p, NewPath) /\ NewPath.age = 0
         /\ Freed \in PathType /\ PathTrue(p, Freed)
<1>1. NewPath \in PathType
  BY Times DEF NewPath, PathType, Statuses, Never
<1>2. NewPath.age = 0 /\ NewPath.test = 0 /\ NewPath.tests = 0 /\ NewPath.status = "building"
  BY DEF NewPath
<1>3. /\ Freed \in PathType /\ Freed.test = 0 /\ Freed.tests = 0 /\ Freed.status = "expired"
  BY <1>1, <1>2 DEF Freed, PathType, Statuses
<1> QED  BY <1>1, <1>2, <1>3 DEF PathTrue

\* EnterState, but for "failed" and "established" with no cause
LEMMA EnterStateTrue ==
  ASSUME NEW p, NEW q \in PathType, PathTrue(p, q), NEW st \in Statuses,
         st = "failed" => Broken(p), st = "established" => q.tests > 0
  PROVE  /\ EnterState(q, st) \in PathType /\ PathTrue(p, EnterState(q, st))
         /\ EnterState(q, st).age = q.age /\ EnterState(q, st).testAge = q.testAge
         /\ EnterState(q, st).tests = q.tests
<1>1. /\ EnterState(q, st) \in PathType /\ EnterState(q, st).status = st
      /\ EnterState(q, st).age = q.age /\ EnterState(q, st).tests = q.tests
      /\ EnterState(q, st).test = q.test /\ EnterState(q, st).testAge = q.testAge
  BY DEF EnterState, PathType
<1> QED  BY <1>1 DEF PathTrue

\* SendLatencyTest, of a path all whose hops passed the build on
LEMMA SendLatencyTestTrue ==
  ASSUME NEW p, NEW q \in PathType, AllPassed(p), q.status = "failed" => Broken(p)
  PROVE  /\ SendLatencyTest(q) \in PathType /\ PathTrue(p, SendLatencyTest(q))
         /\ SendLatencyTest(q).age = q.age
<1> DEFINE a == [q EXCEPT !.test = q.tests + 1]
           b == [a EXCEPT !.tests = @ + 1]
           c == [b EXCEPT !.testAge = 0]
<1>1. q.tests \in Nat
  BY PathTypes
<1>2. /\ a \in PathType /\ a.status = q.status /\ a.age = q.age
      /\ a.test = q.tests + 1 /\ a.tests = q.tests
  BY <1>1 DEF PathType
<1> HIDE DEF a
<1>3. /\ b \in PathType /\ b.status = a.status /\ b.age = a.age
      /\ b.test = a.test /\ b.tests = a.tests + 1
  BY <1>1, <1>2 DEF PathType
<1> HIDE DEF b
<1>4. /\ c \in PathType /\ c.status = b.status /\ c.age = b.age
      /\ c.test = b.test /\ c.tests = b.tests
  BY <1>3, Times DEF PathType
<1> HIDE DEF c
<1>5. SendLatencyTest(q) = c
  BY DEF SendLatencyTest, a, b, c
<1>6. PathTrue(p, c)
  BY <1>1, <1>2, <1>3, <1>4 DEF PathTrue
<1> QED  BY <1>2, <1>3, <1>4, <1>5, <1>6

\* Path::Tick
LEMMA TickPathTrue ==
  ASSUME NEW p, NEW q \in PathType, PathTrue(p, q)
  PROVE  TickPath(q) \in PathType /\ PathTrue(p, TickPath(q)) /\ TickPath(q).age = q.age
<1>1. CASE BuildTimedOut(q)
  BY <1>1, EnterStateTrue DEF TickPath, Statuses
<1>2. CASE ~BuildTimedOut(q) /\ TestDue(q)
  <2>1. AllPassed(p) /\ (q.status = "failed" => Broken(p))
    BY <1>2 DEF TestDue, PathTrue
  <2> QED  BY <1>2, <2>1, SendLatencyTestTrue DEF TickPath
<1>3. CASE ~BuildTimedOut(q) /\ ~TestDue(q) /\ Dead(q)
  BY <1>3, EnterStateTrue DEF TickPath, Statuses
<1>4. CASE ~BuildTimedOut(q) /\ ~TestDue(q) /\ ~Dead(q)
  BY <1>4 DEF TickPath
<1> QED  BY <1>1, <1>2, <1>3, <1>4

\* HandlePathConfirmMessage
LEMMA ConfirmTrue ==
  ASSUME NEW p, NEW q \in PathType, AllPassed(p), q.status = "building"
  PROVE  Confirm(q) \in PathType /\ PathTrue(p, Confirm(q)) /\ Confirm(q).age = q.age
<1> DEFINE a == [q EXCEPT !.recv = 0]
<1>1. a \in PathType /\ a.status = "building" /\ a.age = q.age
  BY Times DEF PathType, Never
<1> HIDE DEF a
<1>2. Confirm(q) = SendLatencyTest(a)
  BY DEF Confirm, a
<1> QED  BY <1>1, <1>2, SendLatencyTestTrue

\* HandlePathLatencyMessage, of a test that was sent
LEMMA LatencyTrue ==
  ASSUME NEW p, NEW q \in PathType, PathTrue(p, q), NEW id \in Nat, id > 0
  PROVE  /\ HandlePathLatencyMessage(q, id) \in PathType
         /\ PathTrue(p, HandlePathLatencyMessage(q, id))
         /\ HandlePathLatencyMessage(q, id).age = q.age
         /\ id = q.test => /\ HandlePathLatencyMessage(q, id).status = "established"
                           /\ ~HandlePathLatencyMessage(q, id).hook
         /\ id # q.test => /\ HandlePathLatencyMessage(q, id).status = q.status
                           /\ HandlePathLatencyMessage(q, id).hook = q.hook
<1>1. CASE id = q.test
  <2> DEFINE e == EnterState(q, "established")
             lat == q.testAge > 0
             a == [e EXCEPT !.recv = 0]
             b == [a EXCEPT !.latency = lat]
             c == [b EXCEPT !.test = 0]
             no == FALSE
             d == [c EXCEPT !.hook = no]
  <2>1. q.tests > 0 /\ "established" \in Statuses
    BY <1>1 DEF PathTrue, Statuses
  <2>2. e \in PathType /\ PathTrue(p, e) /\ e.age = q.age /\ e.tests = q.tests
    BY <2>1, EnterStateTrue
  <2>3. e.status = "established"
    BY DEF EnterState, PathType
  <2>4. lat \in BOOLEAN /\ no \in BOOLEAN
    OBVIOUS
  <2> HIDE DEF e, lat, no
  <2>5. a \in PathType /\ a.age = e.age /\ a.tests = e.tests /\ a.status = e.status
    BY <2>2, Times DEF PathType, Never
  <2> HIDE DEF a
  <2>6. b \in PathType /\ b.age = a.age /\ b.tests = a.tests /\ b.status = a.status
    BY <2>4, <2>5 DEF PathType
  <2> HIDE DEF b
  <2>7. c \in PathType /\ c.age = b.age /\ c.tests = b.tests /\ c.status = b.status /\ c.test = 0
    BY <2>6 DEF PathType
  <2> HIDE DEF c
  <2>8. /\ d \in PathType /\ d.age = c.age /\ d.tests = c.tests /\ d.status = c.status
        /\ d.test = c.test
    BY <2>4, <2>7 DEF PathType
  <2>11. d.hook = no
    BY <2>7 DEF PathType
  <2> HIDE DEF d
  <2>9. HandlePathLatencyMessage(q, id) = d
    BY <1>1, Zenon DEF HandlePathLatencyMessage, AnswersTest, a, b, c, d, e, lat, no
  <2>10. PathTrue(p, d)
    BY <2>1, <2>2, <2>3, <2>5, <2>6, <2>7, <2>8 DEF PathTrue
  <2>12. d.status = "established" /\ ~d.hook /\ d.age = q.age
    BY <2>2, <2>3, <2>5, <2>6, <2>7, <2>8, <2>11, Zenon DEF no
  <2> QED  BY <1>1, <2>8, <2>9, <2>10, <2>12, Zenon
<1>2. CASE id # q.test
  <2> DEFINE a == [q EXCEPT !.recv = 0]
  <2>1. a \in PathType /\ a.age = q.age /\ a.tests = q.tests /\ a.status = q.status /\ a.test = q.test
    BY Times DEF PathType, Never
  <2>3. a.hook = q.hook
    BY DEF PathType
  <2> HIDE DEF a
  <2>2. HandlePathLatencyMessage(q, id) = a
    BY <1>2 DEF HandlePathLatencyMessage, AnswersTest, a
  <2>4. PathTrue(p, a)
    BY <2>1 DEF PathTrue
  <2> QED  BY <1>2, <2>1, <2>2, <2>3, <2>4, Zenon
<1> QED  BY <1>1, <1>2

\* The clock
LEMMA PathOlderTrue ==
  ASSUME NEW p, NEW q \in PathType, PathTrue(p, q)
  PROVE  /\ PathOlder(q) \in PathType /\ PathTrue(p, PathOlder(q))
         /\ PathOlder(q).age = Older(q.age, Lifetime)
<1> DEFINE a == [q EXCEPT !.age = Older(@, Lifetime)]
           b == [a EXCEPT !.testAge = Older(@, AliveTimeout + 1)]
           r == IF b.recv = Never THEN b.recv ELSE Older(b.recv, AliveTimeout + 1)
           c == [b EXCEPT !.recv = r]
<1>1. /\ a \in PathType /\ a.age = Older(q.age, Lifetime)
      /\ a.tests = q.tests /\ a.status = q.status /\ a.test = q.test
  BY Times DEF PathType, Older
<1> HIDE DEF a
<1>2. /\ b \in PathType /\ b.age = a.age
      /\ b.tests = a.tests /\ b.status = a.status /\ b.test = a.test
  BY <1>1, Times DEF PathType, Older
<1> HIDE DEF b
<1>3. r \in Never..AliveTimeout + 1
  <2>1. b.recv \in Never..AliveTimeout + 1
    BY <1>2, PathTypes
  <2> QED  BY <2>1, Times DEF Older, Never
<1> HIDE DEF r
<1>4. /\ c \in PathType /\ c.age = b.age
      /\ c.tests = b.tests /\ c.status = b.status /\ c.test = b.test
  BY <1>2, <1>3 DEF PathType
<1> HIDE DEF c
<1>5. PathOlder(q) = c
  BY DEF PathOlder, a, b, c, r
<1> QED  BY <1>1, <1>2, <1>4, <1>5 DEF PathTrue

\* Builder::DoPathBuildBackoff, n times
LEMMA BackoffType ==
  ASSUME NEW b \in BuilderType, NEW n \in Nat
  PROVE  DoPathBuildBackoff(b, n) \in BuilderType
<1> DEFINE x == n * MinInterval
           i == IF b.interval + x < MaxInterval THEN b.interval + x ELSE MaxInterval
<1>1. x \in Nat
  BY Times
<1>2. b.interval \in MinInterval..MaxInterval
  BY DEF BuilderType
<1>3. DoPathBuildBackoff(b, n) = [b EXCEPT !.interval = i]
  BY DEF DoPathBuildBackoff
<1> HIDE DEF x
<1>4. i \in MinInterval..MaxInterval
  BY <1>1, <1>2, Times
<1> HIDE DEF i
<1> QED  BY <1>3, <1>4 DEF BuilderType

\* The builder's counters and times keep their types.
LEMMA BuilderTypes ==
  ASSUME NEW b \in BuilderType
  PROVE  /\ HandlePathBuildFailed(b) \in BuilderType
         /\ \A n \in Nat : HandlePathBuildTimeouts(b, n) \in BuilderType
         /\ HandlePathBuilt(b) \in BuilderType
         /\ Build(b) \in BuilderType
         /\ [b EXCEPT !.attempts = @ + 1] \in BuilderType
         /\ [b EXCEPT !.run = FALSE] \in BuilderType
         /\ [b EXCEPT !.lastBuild = Older(@, MaxInterval)] \in BuilderType
<1>1. HandlePathBuildFailed(b) \in BuilderType
  <2> DEFINE a == [b EXCEPT !.fails = @ + 1]
  <2>1. a \in BuilderType /\ 1 \in Nat
    BY DEF BuilderType
  <2> QED  BY <2>1, BackoffType, Zenon DEF HandlePathBuildFailed
<1>2. ASSUME NEW n \in Nat  PROVE HandlePathBuildTimeouts(b, n) \in BuilderType
  <2> DEFINE a == [b EXCEPT !.timeouts = @ + n]
  <2>1. a \in BuilderType
    BY DEF BuilderType
  <2> QED  BY <2>1, BackoffType, Zenon DEF HandlePathBuildTimeouts
<1>3. HandlePathBuilt(b) \in BuilderType
  <2> DEFINE a == [b EXCEPT !.interval = MinInterval]
             c == [a EXCEPT !.success = @ + 1]
  <2>1. a \in BuilderType
    BY Times DEF BuilderType
  <2> HIDE DEF a
  <2>2. c \in BuilderType
    BY <2>1 DEF BuilderType
  <2> QED  BY <2>2 DEF HandlePathBuilt, a
<1>4. Build(b) \in BuilderType
  BY Times DEF Build, BuilderType
<1>5. [b EXCEPT !.attempts = @ + 1] \in BuilderType
  BY DEF BuilderType
<1>6. [b EXCEPT !.run = FALSE] \in BuilderType
  <2> DEFINE no == FALSE
  <2>1. no \in BOOLEAN
    OBVIOUS
  <2> HIDE DEF no
  <2>2. [b EXCEPT !.run = no] \in BuilderType
    BY <2>1 DEF BuilderType
  <2> QED  BY <2>2, Zenon DEF no
<1>7. [b EXCEPT !.lastBuild = Older(@, MaxInterval)] \in BuilderType
  BY Times DEF BuilderType, Older
<1> QED  BY <1>1, <1>2, <1>3, <1>4, <1>5, <1>6, <1>7, Zenon

\* A function on 1..n is a sequence.
LEMMA FunctionSeq ==
  ASSUME NEW S, NEW n \in Nat, NEW f \in [1..n -> S]
  PROVE  f \in Seq(S) /\ Len(f) = n /\ DOMAIN f = 1..n
<1>1. f \in Seq(S)
  OBVIOUS
<1> QED  BY <1>1

\* A step of the endpoint: the hops do not change.
LEMMA EndpointStep ==
  ASSUME IInv, hop' = hop,
         builder' \in BuilderType,
         path' \in Seq(PathType), Len(path') <= MaxBuilds,
         keys' \subseteq DOMAIN path', m_Paths' \subseteq DOMAIN path',
         logic' \in Seq(Ids \X {"confirm", "fail"}),
         \A m \in msgs' : m \in MsgType /\ MsgTrue(m),
         \A i \in 1..Len(logic') : /\ logic'[i][2] = "confirm" => AllPassed(logic'[i][1])
                                   /\ logic'[i][2] = "fail" => Broken(logic'[i][1]),
         NothingSent',
         \A p \in DOMAIN path' :
           PathTrue(p, path'[p]) /\ (p \in m_Paths' => OldEnough(p, path'[p]))
  PROVE  IInv'
<1>1. TypeOK'
  BY DEF IInv, TypeOK
<1>2. HopsInOrder'
  BY DEF IInv, HopsInOrder, Broken
<1>3. MsgsTrue'
  BY Zenon DEF MsgsTrue, MsgTrue, RecordsTrue, Broken
<1>4. LogicTrue'
  BY Zenon DEF LogicTrue, AllPassed, Broken
<1>5. PathsTrue'
  BY Zenon DEF PathsTrue, PathTrue, OldEnough, AllPassed, Broken
<1> QED  BY <1>1, <1>2, <1>3, <1>4, <1>5 DEF IInv

\* The parts of the invariant that the endpoint's steps use.
LEMMA EndpointState ==
  ASSUME IInv
  PROVE  /\ builder \in BuilderType
         /\ path \in Seq(PathType) /\ Len(path) \in Nat /\ Len(path) <= MaxBuilds
         /\ DOMAIN path = 1..Len(path) /\ DOMAIN path \subseteq Ids
         /\ keys \subseteq DOMAIN path /\ m_Paths \subseteq DOMAIN path
         /\ logic \in Seq(Ids \X {"confirm", "fail"})
         /\ \A m \in msgs : m \in MsgType /\ MsgTrue(m)
         /\ \A i \in 1..Len(logic) : /\ logic[i][2] = "confirm" => AllPassed(logic[i][1])
                                     /\ logic[i][2] = "fail" => Broken(logic[i][1])
         /\ \A p \in DOMAIN path : /\ path[p] \in PathType /\ PathTrue(p, path[p])
                                   /\ p \in m_Paths => OldEnough(p, path[p])
<1>1. /\ builder \in BuilderType
      /\ path \in Seq(PathType) /\ Len(path) <= MaxBuilds
      /\ keys \subseteq DOMAIN path /\ m_Paths \subseteq DOMAIN path
      /\ logic \in Seq(Ids \X {"confirm", "fail"})
      /\ \A m \in msgs : m \in MsgType
  BY Zenon DEF IInv, TypeOK
<1>2. Len(path) \in Nat /\ DOMAIN path = 1..Len(path) /\ DOMAIN path \subseteq Ids
  BY <1>1, HopsAssumption DEF Ids
<1>3. \A p \in DOMAIN path : path[p] \in PathType
  BY <1>1, <1>2
<1>4. /\ \A m \in msgs : MsgTrue(m)
      /\ \A i \in 1..Len(logic) : /\ logic[i][2] = "confirm" => AllPassed(logic[i][1])
                                  /\ logic[i][2] = "fail" => Broken(logic[i][1])
      /\ \A p \in DOMAIN path : PathTrue(p, path[p]) /\ (p \in m_Paths => OldEnough(p, path[p]))
  BY Zenon DEF IInv, MsgsTrue, LogicTrue, PathsTrue
<1> QED  BY <1>1, <1>2, <1>3, <1>4, Zenon

\* One path changes.
LEMMA PathUpdate ==
  ASSUME IInv, NEW p \in DOMAIN path, NEW q \in PathType, PathTrue(p, q),
         path' = [path EXCEPT ![p] = q]
  PROVE  /\ path' \in Seq(PathType) /\ Len(path') = Len(path) /\ DOMAIN path' = DOMAIN path
         /\ \A r \in DOMAIN path : PathTrue(r, path'[r])
         /\ \A r \in m_Paths : r # p \/ q.age = path[p].age => OldEnough(r, path'[r])
<1>1. /\ path \in Seq(PathType) /\ Len(path) \in Nat
      /\ DOMAIN path = 1..Len(path) /\ m_Paths \subseteq DOMAIN path
      /\ \A r \in DOMAIN path : PathTrue(r, path[r]) /\ (r \in m_Paths => OldEnough(r, path[r]))
  BY EndpointState, Zenon
<1>2. path' \in Seq(PathType) /\ Len(path') = Len(path) /\ DOMAIN path' = DOMAIN path
  BY <1>1
<1>3. path'[p] = q /\ \A r \in DOMAIN path : r # p => path'[r] = path[r]
  BY <1>1
<1>4. \A r \in DOMAIN path : PathTrue(r, path'[r])
  BY <1>1, <1>3, Zenon
<1>5. p \in m_Paths /\ q.age = path[p].age => OldEnough(p, q)
  BY <1>1, Zenon DEF OldEnough
<1>6. \A r \in m_Paths : r # p \/ q.age = path[p].age => OldEnough(r, path'[r])
  BY <1>1, <1>3, <1>5, Zenon
<1> QED  BY <1>2, <1>4, <1>6, Zenon

\* Builder::Stop
LEMMA StopInv ==
  ASSUME IInv, Stop
  PROVE  IInv'
<1>1. /\ builder' = [builder EXCEPT !.run = FALSE]
      /\ UNCHANGED <<path, keys, m_Paths, logic, hop, msgs>>
  BY Zenon DEF Stop
<1>2. builder' \in BuilderType
  BY <1>1, EndpointState, BuilderTypes, Zenon
<1>3. path' = path /\ keys' = keys /\ m_Paths' = m_Paths /\ logic' = logic /\ hop' = hop /\ msgs' = msgs
  BY <1>1
<1>4. NothingSent'
  BY <1>3, Zenon DEF IInv, NothingSent
<1>5. /\ path' \in Seq(PathType) /\ Len(path') <= MaxBuilds
      /\ keys' \subseteq DOMAIN path' /\ m_Paths' \subseteq DOMAIN path'
      /\ logic' \in Seq(Ids \X {"confirm", "fail"})
      /\ \A i \in 1..Len(logic') : /\ logic'[i][2] = "confirm" => AllPassed(logic'[i][1])
                                   /\ logic'[i][2] = "fail" => Broken(logic'[i][1])
      /\ \A m \in msgs' : m \in MsgType /\ MsgTrue(m)
      /\ \A p \in DOMAIN path' :
           PathTrue(p, path'[p]) /\ (p \in m_Paths' => OldEnough(p, path'[p]))
  BY <1>3, EndpointState, Zenon
<1> QED  BY <1>2, <1>3, <1>4, <1>5, EndpointStep, Zenon

\* PathBuilderKeysGenerated, with the LRCM sent
LEMMA KeysSentInv ==
  ASSUME IInv, NEW p \in keys,
         keys' = keys \ {p}, m_Paths' = m_Paths \cup {p},
         builder' = [builder EXCEPT !.attempts = @ + 1], msgs' = msgs \cup {Commit(p, 1)},
         path' = path, logic' = logic, hop' = hop
  PROVE  IInv'
<1>1. /\ builder \in BuilderType /\ p \in DOMAIN path /\ p \in Ids /\ path[p] \in PathType
      /\ 1 \in 1..Hops
  BY EndpointState, HopsAssumption
<1>2. \A k \in 1..Hops : hop[p][k].state = "none"
  BY <1>1, Zenon DEF IInv, NothingSent
<1>3. \A k \in 1..Hops : hop[p][k] = NoHop
  BY <1>1, <1>2, Zenon DEF IInv, HopsInOrder
<1>4. OldEnough(p, path[p])
  <2>1. path[p].age \in Nat
    BY <1>1, PathFields DEF IInv
  <2>2. NoHop.age <= path[p].age /\ NoHop.state # "gone"
    BY <2>1 DEF NoHop
  <2> QED  BY <1>3, <2>2, Zenon DEF OldEnough
<1>5. builder' \in BuilderType
  BY <1>1, BuilderTypes, Zenon
<1>6. \A m \in msgs' : m \in MsgType /\ MsgTrue(m)
  <2>1. ASSUME NEW m, m = Commit(p, 1)  PROVE m \in MsgType /\ MsgTrue(m)
    <3>1. m \in MsgType
      BY <1>1, <2>1, Messages
    <3>2. /\ m.type = "commit" /\ m.type # "status" /\ m.type \notin {"up", "down"}
          /\ m.path = p /\ m.to = 1 /\ ~(m.to > 1)
      BY <2>1 DEF Commit
    <3>3. hop[m.path][m.to].state = "none"
      BY <1>1, <1>2, <3>2
    <3> QED  BY <3>1, <3>2, <3>3, Zenon DEF MsgTrue
  <2> QED  BY <2>1, EndpointState, Zenon
<1>7. NothingSent'
  <2>1. Commit(p, 1).path = p
    BY DEF Commit
  <2> QED  BY <1>1, <2>1, Zenon DEF IInv, NothingSent
<1>8. /\ path' \in Seq(PathType) /\ Len(path') <= MaxBuilds
      /\ keys' \subseteq DOMAIN path' /\ m_Paths' \subseteq DOMAIN path'
      /\ logic' \in Seq(Ids \X {"confirm", "fail"})
      /\ \A i \in 1..Len(logic') : /\ logic'[i][2] = "confirm" => AllPassed(logic'[i][1])
                                   /\ logic'[i][2] = "fail" => Broken(logic'[i][1])
  BY <1>1, EndpointState, Zenon
<1>9. \A q \in DOMAIN path' :
        PathTrue(q, path'[q]) /\ (q \in m_Paths' => OldEnough(q, path'[q]))
  BY <1>4, EndpointState, Zenon
<1> QED  BY <1>5, <1>6, <1>7, <1>8, <1>9, EndpointStep, Zenon

\* PathBuilderKeysGenerated, with the LRCM not sent
LEMMA KeysNotSentInv ==
  ASSUME IInv, NEW p \in keys,
         keys' = keys \ {p}, path' = [path EXCEPT ![p] = Freed],
         UNCHANGED <<m_Paths, builder, msgs, logic, hop>>
  PROVE  IInv'
<1>1. p \in DOMAIN path /\ p \in Ids
  BY EndpointState
<1>2. p \notin m_Paths
  BY <1>1, Zenon DEF IInv, NothingSent
<1>3. Freed \in PathType /\ PathTrue(p, Freed)
  BY NewPathTrue, Zenon
<1>4. /\ path' \in Seq(PathType) /\ Len(path') = Len(path) /\ DOMAIN path' = DOMAIN path
      /\ \A r \in DOMAIN path : PathTrue(r, path'[r])
      /\ \A r \in m_Paths : r # p \/ Freed.age = path[p].age => OldEnough(r, path'[r])
  BY <1>1, <1>3, PathUpdate, Zenon
<1>5. /\ m_Paths' = m_Paths /\ builder' = builder /\ msgs' = msgs /\ logic' = logic /\ hop' = hop
  OBVIOUS
<1>6. NothingSent'
  BY <1>1, <1>4, <1>5, Zenon DEF IInv, NothingSent
<1>7. \A r \in DOMAIN path' : PathTrue(r, path'[r]) /\ (r \in m_Paths' => OldEnough(r, path'[r]))
  BY <1>2, <1>4, <1>5, EndpointState, Zenon
<1>8. /\ builder' \in BuilderType /\ Len(path') <= MaxBuilds
      /\ keys' \subseteq DOMAIN path' /\ m_Paths' \subseteq DOMAIN path'
      /\ logic' \in Seq(Ids \X {"confirm", "fail"})
      /\ \A i \in 1..Len(logic') : /\ logic'[i][2] = "confirm" => AllPassed(logic'[i][1])
                                   /\ logic'[i][2] = "fail" => Broken(logic'[i][1])
      /\ \A m \in msgs' : m \in MsgType /\ MsgTrue(m)
  BY <1>4, <1>5, EndpointState, Zenon
<1> QED  BY <1>4, <1>5, <1>6, <1>7, <1>8, EndpointStep, Zenon

\* A latency test that the endpoint sends
LEMMA TestTrue ==
  ASSUME NEW p \in Ids, NEW id \in Nat, id > 0, NEW m, m = Upstream(p, 1, id)
  PROVE  m \in MsgType /\ MsgTrue(m) /\ m.path = p
<1>1. 1 \in 1..Hops
  BY HopsAssumption
<1>2. m \in MsgType
  BY <1>1, Messages
<1>3. m.type = "up" /\ m.type # "commit" /\ m.type # "status" /\ m.path = p /\ m.id = id
  BY DEF Upstream
<1> QED  BY <1>2, <1>3, Zenon DEF MsgTrue

\* The closure at the head of the logic queue is of a path whose LRCM was sent.
LEMMA FirstClosure ==
  ASSUME IInv, logic # <<>>
  PROVE  /\ Head(logic)[1] \in Ids /\ Head(logic)[1] \in DOMAIN path
         /\ Head(logic)[1] \notin keys
         /\ Head(logic)[2] = "confirm" => AllPassed(Head(logic)[1])
         /\ Head(logic)[2] = "fail" => Broken(Head(logic)[1])
         /\ Tail(logic) \in Seq(Ids \X {"confirm", "fail"})
         /\ \A i \in 1..Len(Tail(logic)) : \E j \in 1..Len(logic) : Tail(logic)[i] = logic[j]
<1>1. logic \in Seq(Ids \X {"confirm", "fail"})
  BY EndpointState, Zenon
<1>2. Len(logic) \in Nat /\ Len(logic) > 0 /\ 1 \in 1..Len(logic) /\ Head(logic) = logic[1]
  BY <1>1
<1>3. /\ Head(logic) \in Ids \X {"confirm", "fail"}
      /\ Tail(logic) \in Seq(Ids \X {"confirm", "fail"})
      /\ Len(Tail(logic)) = Len(logic) - 1
      /\ \A i \in 1..Len(Tail(logic)) : Tail(logic)[i] = logic[i + 1]
  BY <1>1
<1>4. \A i \in 1..Len(Tail(logic)) : i + 1 \in 1..Len(logic)
  BY <1>2, <1>3
<1>5. Head(logic)[1] \in Ids
  BY <1>3
<1>6. Head(logic)[1] \in DOMAIN path /\ Head(logic)[1] \notin keys
  <2>1. logic[1][1] \in Ids
    BY <1>2, <1>5
  <2>2. logic[1][1] \in DOMAIN path /\ logic[1][1] \notin keys
    BY <1>2, <2>1, Zenon DEF IInv, NothingSent
  <2> QED  BY <1>2, <2>2
<1>7. /\ Head(logic)[2] = "confirm" => AllPassed(Head(logic)[1])
      /\ Head(logic)[2] = "fail" => Broken(Head(logic)[1])
  BY <1>2, EndpointState, Zenon
<1> QED  BY <1>3, <1>4, <1>5, <1>6, <1>7, Zenon

\* A step that takes the first closure of the logic queue.
LEMMA LogicStep ==
  ASSUME IInv, logic # <<>>, logic' = Tail(logic),
         keys' = keys, m_Paths' = m_Paths, hop' = hop,
         builder' \in BuilderType,
         path' \in Seq(PathType), Len(path') = Len(path), DOMAIN path' = DOMAIN path,
         \A m \in msgs' : m \in msgs \/ (m \in MsgType /\ MsgTrue(m) /\ m.path = Head(logic)[1]),
         \A p \in DOMAIN path : PathTrue(p, path'[p]) /\ (p \in m_Paths => OldEnough(p, path'[p]))
  PROVE  IInv'
<1>1. /\ Head(logic)[1] \in Ids /\ Head(logic)[1] \in DOMAIN path
      /\ Head(logic)[1] \notin keys
      /\ Tail(logic) \in Seq(Ids \X {"confirm", "fail"})
      /\ \A i \in 1..Len(Tail(logic)) : \E j \in 1..Len(logic) : Tail(logic)[i] = logic[j]
  BY FirstClosure, Zenon
<1>2. \A m \in msgs' : m \in MsgType /\ MsgTrue(m)
  BY EndpointState, Zenon
<1>3. \A i \in 1..Len(logic') : /\ logic'[i][2] = "confirm" => AllPassed(logic'[i][1])
                                /\ logic'[i][2] = "fail" => Broken(logic'[i][1])
  <2> SUFFICES ASSUME NEW i \in 1..Len(logic')
               PROVE  /\ logic'[i][2] = "confirm" => AllPassed(logic'[i][1])
                      /\ logic'[i][2] = "fail" => Broken(logic'[i][1])
    BY Zenon
  <2>1. PICK j \in 1..Len(logic) : logic'[i] = logic[j]
    BY <1>1, Zenon
  <2>2. /\ logic[j][2] = "confirm" => AllPassed(logic[j][1])
        /\ logic[j][2] = "fail" => Broken(logic[j][1])
    BY EndpointState, Zenon
  <2> QED  BY <2>1, <2>2, Zenon
<1>4. NothingSent'
  <2> SUFFICES ASSUME NEW p \in Ids, p \in keys \/ p \notin DOMAIN path
               PROVE  /\ p \notin m_Paths
                      /\ \A k \in 1..Hops : hop[p][k].state = "none"
                      /\ \A m \in msgs' : m.path # p
                      /\ \A i \in 1..Len(logic') : logic'[i][1] # p
    BY Zenon DEF NothingSent
  <2>1. /\ p \notin m_Paths
        /\ \A k \in 1..Hops : hop[p][k].state = "none"
        /\ \A m \in msgs : m.path # p
        /\ \A i \in 1..Len(logic) : logic[i][1] # p
    BY Zenon DEF IInv, NothingSent
  <2>2. \A m \in msgs' : m.path # p
    BY <1>1, <2>1, Zenon
  <2>3. \A i \in 1..Len(logic') : logic'[i][1] # p
    BY <1>1, <2>1, Zenon
  <2> QED  BY <2>1, <2>2, <2>3, Zenon
<1>5. /\ Len(path') <= MaxBuilds /\ keys' \subseteq DOMAIN path' /\ m_Paths' \subseteq DOMAIN path'
      /\ logic' \in Seq(Ids \X {"confirm", "fail"})
  BY <1>1, EndpointState, Zenon
<1>6. \A p \in DOMAIN path' : PathTrue(p, path'[p]) /\ (p \in m_Paths' => OldEnough(p, path'[p]))
  BY Zenon
<1> QED  BY <1>2, <1>3, <1>4, <1>5, <1>6, EndpointStep, Zenon

\* HandlePathConfirmMessage
LEMMA RunConfirmInv ==
  ASSUME IInv, RunConfirm
  PROVE  IInv'
<1> DEFINE p == Head(logic)[1]
<1>1. /\ logic # <<>> /\ Head(logic)[2] = "confirm" /\ logic' = Tail(logic)
      /\ builder' = builder /\ keys' = keys /\ m_Paths' = m_Paths /\ hop' = hop
      /\ path[p].status = "building" =>
           /\ path' = [path EXCEPT ![p] = Confirm(@)]
           /\ msgs' = msgs \cup {Upstream(p, 1, path[p].tests + 1)}
      /\ path[p].status # "building" => path' = path /\ msgs' = msgs
  BY DEF RunConfirm
<1>2. p \in Ids /\ p \in DOMAIN path /\ AllPassed(p)
  BY <1>1, FirstClosure, Zenon
<1>3. /\ builder' \in BuilderType /\ path[p] \in PathType
      /\ path \in Seq(PathType) /\ m_Paths \subseteq DOMAIN path
      /\ \A r \in DOMAIN path : PathTrue(r, path[r]) /\ (r \in m_Paths => OldEnough(r, path[r]))
  BY <1>1, <1>2, EndpointState, Zenon
<1> HIDE DEF p
<1>4. CASE path[p].status = "building"
  <2>1. Confirm(path[p]) \in PathType /\ PathTrue(p, Confirm(path[p])) /\ Confirm(path[p]).age = path[p].age
    BY <1>2, <1>3, <1>4, ConfirmTrue, Zenon
  <2>2. path' = [path EXCEPT ![p] = Confirm(path[p])]
    BY <1>1, <1>4, Zenon
  <2>3. /\ path' \in Seq(PathType) /\ Len(path') = Len(path) /\ DOMAIN path' = DOMAIN path
        /\ \A r \in DOMAIN path : PathTrue(r, path'[r])
        /\ \A r \in m_Paths : r # p \/ Confirm(path[p]).age = path[p].age => OldEnough(r, path'[r])
    BY <1>2, <2>1, <2>2, PathUpdate, Zenon
  <2>4. path[p].tests + 1 \in Nat /\ path[p].tests + 1 > 0
    BY <1>3, PathTypes
  <2>5. \A m \in msgs' : m \in msgs \/ (m \in MsgType /\ MsgTrue(m) /\ m.path = p)
    <3> DEFINE id == path[p].tests + 1
    <3>1. msgs' = msgs \cup {Upstream(p, 1, id)}
      BY <1>1, <1>4, Zenon
    <3>2. id \in Nat /\ id > 0
      BY <2>4
    <3> HIDE DEF id
    <3>3. ASSUME NEW m, m = Upstream(p, 1, id)  PROVE m \in MsgType /\ MsgTrue(m) /\ m.path = p
      BY <1>2, <3>2, <3>3, TestTrue, Zenon
    <3> QED  BY <3>1, <3>3, Zenon
  <2>6. \A r \in DOMAIN path : PathTrue(r, path'[r]) /\ (r \in m_Paths => OldEnough(r, path'[r]))
    BY <2>1, <2>3, Zenon
  <2> QED  BY <1>1, <1>3, <2>3, <2>5, <2>6, LogicStep, Zenon DEF p
<1>5. CASE path[p].status # "building"
  <2>1. path' = path /\ msgs' = msgs
    BY <1>1, <1>5, Zenon
  <2> QED  BY <1>1, <1>3, <2>1, LogicStep, Zenon
<1> QED  BY <1>4, <1>5

\* EnterState(ePathFailed)
LEMMA RunFailInv ==
  ASSUME IInv, RunFail
  PROVE  IInv'
<1> DEFINE p == Head(logic)[1]
<1>1. /\ logic # <<>> /\ Head(logic)[2] = "fail" /\ logic' = Tail(logic)
      /\ keys' = keys /\ m_Paths' = m_Paths /\ hop' = hop /\ msgs' = msgs
      /\ path' = IF p \in m_Paths THEN [path EXCEPT ![p] = EnterState(@, "failed")] ELSE path
      /\ builder' = HandlePathBuildFailed(builder)
  BY DEF RunFail
<1>2. p \in Ids /\ p \in DOMAIN path /\ Broken(p)
  BY <1>1, FirstClosure, Zenon
<1>3. /\ builder \in BuilderType /\ path[p] \in PathType
      /\ path \in Seq(PathType) /\ m_Paths \subseteq DOMAIN path
      /\ \A r \in DOMAIN path : PathTrue(r, path[r]) /\ (r \in m_Paths => OldEnough(r, path[r]))
  BY <1>2, EndpointState, Zenon
<1>4. builder' \in BuilderType
  BY <1>1, <1>3, BuilderTypes, Zenon
<1> HIDE DEF p
<1>5. CASE p \in m_Paths
  <2> DEFINE q == EnterState(path[p], "failed")
  <2>1. "failed" \in Statuses /\ "failed" # "established"
    BY DEF Statuses
  <2>2. q \in PathType /\ PathTrue(p, q) /\ q.age = path[p].age
    BY <1>2, <1>3, <2>1, EnterStateTrue, Zenon
  <2>3. path' = [path EXCEPT ![p] = q]
    BY <1>1, <1>5, Zenon
  <2> HIDE DEF q
  <2>4. /\ path' \in Seq(PathType) /\ Len(path') = Len(path) /\ DOMAIN path' = DOMAIN path
        /\ \A r \in DOMAIN path : PathTrue(r, path'[r])
        /\ \A r \in m_Paths : r # p \/ q.age = path[p].age => OldEnough(r, path'[r])
    BY <1>2, <2>2, <2>3, PathUpdate, Zenon
  <2>5. \A r \in DOMAIN path : PathTrue(r, path'[r]) /\ (r \in m_Paths => OldEnough(r, path'[r]))
    BY <2>2, <2>4, Zenon
  <2> QED  BY <1>1, <1>4, <2>4, <2>5, LogicStep, Zenon
<1>6. CASE p \notin m_Paths
  <2>1. path' = path
    BY <1>1, <1>6, Zenon
  <2> QED  BY <1>1, <1>3, <1>4, <2>1, LogicStep, Zenon
<1> QED  BY <1>5, <1>6

\* Path::HandleLRSM's loop: what the frames decide is what happened.
LEMMA SuccessDecides ==
  ASSUME IInv, NEW m \in msgs, m.type = "status", m.to = 0
  PROVE  /\ Success(m.frames, Hops) => AllPassed(m.path)
         /\ ~Success(m.frames, Hops) => Broken(m.path)
<1>1. m \in MsgType /\ MsgTrue(m)
  BY EndpointState, Zenon
<1>2. /\ RecordsTrue(m.path, m.frames)
      /\ m.ok => Complete(0, m.frames)
      /\ ~m.ok => Broken(m.path)
  BY <1>1, Zenon DEF MsgTrue
<1>3. Len(m.frames) \in Nat
  <2>1. m.frames \in Seq(FrameType)
    BY <1>1, MsgFields, Zenon
  <2> QED  BY <2>1
<1>4. ASSUME Success(m.frames, Hops), NEW k \in 1..Hops  PROVE Passed(hop[m.path][k])
  <2>1. k <= Len(m.frames) /\ m.frames[k].hop = k /\ m.frames[k].ok
    BY <1>4, Zenon DEF Success
  <2>2. k \in 1..Len(m.frames)
    BY <1>3, <2>1
  <2>3. Passed(hop[m.path][m.frames[k].hop])
    BY <1>2, <2>1, <2>2, Zenon DEF RecordsTrue
  <2> QED  BY <2>1, <2>3, Zenon
<1>5. ASSUME Complete(0, m.frames)  PROVE Success(m.frames, Hops)
  <2>1. Len(m.frames) = Hops - 0 /\ \A i \in 1..Len(m.frames) : m.frames[i].hop = 0 + i /\ m.frames[i].ok
    BY <1>5, Zenon DEF Complete
  <2>2. \A i \in 1..Hops : i <= Len(m.frames) /\ i \in 1..Len(m.frames) /\ 0 + i = i
    BY <2>1, HopsAssumption
  <2> QED  BY <2>1, <2>2, Zenon DEF Success
<1>6. Success(m.frames, Hops) => AllPassed(m.path)
  BY <1>4, Zenon DEF AllPassed
<1>7. ~Success(m.frames, Hops) => Broken(m.path)
  BY <1>2, <1>5, Zenon
<1> QED  BY <1>6, <1>7, Zenon

\* What Append does to the logic queue.
LEMMA LogicAppend ==
  ASSUME NEW S, NEW s \in Seq(S), NEW e \in S
  PROVE  /\ Append(s, e) \in Seq(S)
         /\ \A i \in 1..Len(Append(s, e)) : Append(s, e)[i] = e \/ \E j \in 1..Len(s) : Append(s, e)[i] = s[j]
<1>1. Append(s, e) \in Seq(S) /\ Len(Append(s, e)) = Len(s) + 1 /\ Len(s) \in Nat
  OBVIOUS
<1>2. \A i \in 1..Len(s) + 1 : i = Len(s) + 1 \/ i \in 1..Len(s)
  BY <1>1
<1>3. Append(s, e)[Len(s) + 1] = e /\ \A i \in 1..Len(s) : Append(s, e)[i] = s[i]
  OBVIOUS
<1> QED  BY <1>1, <1>2, <1>3, Zenon

\* Path::HandleLRSM
LEMMA HandleOwnLRSMInv ==
  ASSUME IInv, NEW m \in msgs, HandleOwnLRSM(m)
  PROVE  IInv'
<1> DEFINE c == IF Success(m.frames, Hops) THEN "confirm" ELSE "fail"
           e == <<m.path, c>>
<1>1. /\ m.type = "status" /\ m.to = 0 /\ msgs' = msgs \ {m}
      /\ logic' = IF m.path \in m_Paths THEN Append(logic, e) ELSE logic
      /\ builder' = builder /\ path' = path /\ keys' = keys /\ m_Paths' = m_Paths /\ hop' = hop
  BY DEF HandleOwnLRSM
<1>2. m.path \in Ids
  BY EndpointState, MsgFields, Zenon
<1>3. m.path \in DOMAIN path /\ m.path \notin keys
  BY <1>2, Zenon DEF IInv, NothingSent
<1>4. /\ c = "confirm" => AllPassed(m.path)
      /\ c = "fail" => Broken(m.path)
      /\ c \in {"confirm", "fail"}
  <2>1. "confirm" # "fail"
    OBVIOUS
  <2> QED  BY <1>1, <2>1, SuccessDecides, Zenon
<1> HIDE DEF c
<1>5. /\ e \in Ids \X {"confirm", "fail"} /\ e[1] = m.path
      /\ e[2] = "confirm" => AllPassed(e[1])
      /\ e[2] = "fail" => Broken(e[1])
  BY <1>2, <1>4
<1> HIDE DEF e
<1>6. logic \in Seq(Ids \X {"confirm", "fail"})
  BY EndpointState, Zenon
<1>7. /\ logic' \in Seq(Ids \X {"confirm", "fail"})
      /\ \A i \in 1..Len(logic') : logic'[i] = e \/ \E j \in 1..Len(logic) : logic'[i] = logic[j]
  <2>1. CASE m.path \in m_Paths
    <3>1. logic' = Append(logic, e) /\ e \in Ids \X {"confirm", "fail"}
      BY <1>1, <1>5, <2>1, Zenon
    <3>2. /\ Append(logic, e) \in Seq(Ids \X {"confirm", "fail"})
          /\ \A i \in 1..Len(Append(logic, e)) :
               Append(logic, e)[i] = e \/ \E j \in 1..Len(logic) : Append(logic, e)[i] = logic[j]
      <4> DEFINE T == Ids \X {"confirm", "fail"}
      <4>1. logic \in Seq(T) /\ e \in T
        BY <1>6, <3>1, Zenon
      <4> HIDE DEF T
      <4>2. /\ Append(logic, e) \in Seq(T)
            /\ \A i \in 1..Len(Append(logic, e)) :
                 Append(logic, e)[i] = e \/ \E j \in 1..Len(logic) : Append(logic, e)[i] = logic[j]
        BY <4>1, LogicAppend
      <4> QED  BY <4>2, Zenon DEF T
    <3> QED  BY <3>1, <3>2, Zenon
  <2>2. CASE m.path \notin m_Paths
    <3>1. logic' = logic
      BY <1>1, <2>2, Zenon
    <3> QED  BY <1>6, <3>1, Zenon
  <2> QED  BY <2>1, <2>2
<1>8. \A i \in 1..Len(logic') : /\ logic'[i][2] = "confirm" => AllPassed(logic'[i][1])
                                /\ logic'[i][2] = "fail" => Broken(logic'[i][1])
  <2> SUFFICES ASSUME NEW i \in 1..Len(logic')
               PROVE  /\ logic'[i][2] = "confirm" => AllPassed(logic'[i][1])
                      /\ logic'[i][2] = "fail" => Broken(logic'[i][1])
    BY Zenon
  <2>1. CASE logic'[i] = e
    BY <1>5, <2>1, Zenon
  <2>2. ASSUME NEW j \in 1..Len(logic), logic'[i] = logic[j]
        PROVE  /\ logic'[i][2] = "confirm" => AllPassed(logic'[i][1])
               /\ logic'[i][2] = "fail" => Broken(logic'[i][1])
    BY <2>2, EndpointState, Zenon
  <2> QED  BY <1>7, <2>1, <2>2, Zenon
<1>9. NothingSent'
  <2> SUFFICES ASSUME NEW p \in Ids, p \in keys \/ p \notin DOMAIN path
               PROVE  /\ p \notin m_Paths
                      /\ \A k \in 1..Hops : hop[p][k].state = "none"
                      /\ \A n \in msgs' : n.path # p
                      /\ \A i \in 1..Len(logic') : logic'[i][1] # p
    BY <1>1, Zenon DEF NothingSent
  <2>1. /\ p \notin m_Paths
        /\ \A k \in 1..Hops : hop[p][k].state = "none"
        /\ \A n \in msgs : n.path # p
        /\ \A i \in 1..Len(logic) : logic[i][1] # p
    BY Zenon DEF IInv, NothingSent
  <2>2. \A n \in msgs' : n.path # p
    BY <1>1, <2>1, Zenon
  <2>3. e[1] # p
    BY <1>3, <1>5, Zenon
  <2>4. \A i \in 1..Len(logic') : logic'[i][1] # p
    BY <1>7, <2>1, <2>3, Zenon
  <2> QED  BY <2>1, <2>2, <2>4, Zenon
<1>10. /\ builder' \in BuilderType /\ path' \in Seq(PathType) /\ Len(path') <= MaxBuilds
       /\ keys' \subseteq DOMAIN path' /\ m_Paths' \subseteq DOMAIN path'
       /\ \A n \in msgs' : n \in MsgType /\ MsgTrue(n)
       /\ \A p \in DOMAIN path' : PathTrue(p, path'[p]) /\ (p \in m_Paths' => OldEnough(p, path'[p]))
  BY <1>1, EndpointState, Zenon
<1> QED  BY <1>1, <1>7, <1>8, <1>9, <1>10, EndpointStep, Zenon

\* Path::HandlePathLatencyMessage
LEMMA HandleOwnLatencyInv ==
  ASSUME IInv, NEW m \in msgs, HandleOwnLatency(m)
  PROVE  IInv'
<1> DEFINE p == m.path
           q == HandlePathLatencyMessage(path[p], m.id)
<1>1. /\ m.type = "down" /\ m.to = 0 /\ msgs' = msgs \ {m}
      /\ p \in m_Paths => path' = [path EXCEPT ![p] = q]
      /\ p \notin m_Paths => path' = path
      /\ builder' = builder \/ builder' = HandlePathBuilt(builder)
      /\ keys' = keys /\ m_Paths' = m_Paths /\ logic' = logic /\ hop' = hop
  BY DEF HandleOwnLatency
<1>2. /\ builder \in BuilderType /\ path \in Seq(PathType) /\ Len(path) <= MaxBuilds
      /\ keys \subseteq DOMAIN path /\ m_Paths \subseteq DOMAIN path
      /\ \A r \in DOMAIN path : /\ path[r] \in PathType /\ PathTrue(r, path[r])
                                /\ r \in m_Paths => OldEnough(r, path[r])
  BY EndpointState, Zenon
<1>3. builder' \in BuilderType
  BY <1>1, <1>2, BuilderTypes, Zenon
<1>4. m.id \in Nat /\ m.id > 0
  BY <1>1, EndpointState, MsgFields, Zenon DEF MsgTrue
<1>5. /\ path' \in Seq(PathType) /\ Len(path') = Len(path) /\ DOMAIN path' = DOMAIN path
      /\ \A r \in DOMAIN path : PathTrue(r, path'[r]) /\ (r \in m_Paths => OldEnough(r, path'[r]))
  <2>1. CASE p \in m_Paths
    <3>1. p \in DOMAIN path /\ path[p] \in PathType /\ PathTrue(p, path[p])
      BY <1>2, <2>1, Zenon
    <3>2. q \in PathType /\ PathTrue(p, q) /\ q.age = path[p].age
      BY <1>4, <3>1, LatencyTrue, Zenon
    <3>3. path' = [path EXCEPT ![p] = q]
      BY <1>1, <2>1, Zenon
    <3> HIDE DEF q, p
    <3>4. /\ path' \in Seq(PathType) /\ Len(path') = Len(path) /\ DOMAIN path' = DOMAIN path
          /\ \A r \in DOMAIN path : PathTrue(r, path'[r])
          /\ \A r \in m_Paths : r # p \/ q.age = path[p].age => OldEnough(r, path'[r])
      BY <3>1, <3>2, <3>3, PathUpdate, Zenon
    <3> QED  BY <3>2, <3>4, Zenon
  <2>2. CASE p \notin m_Paths
    <3>1. path' = path
      BY <1>1, <2>2, Zenon
    <3> QED  BY <1>2, <3>1, Zenon
  <2> QED  BY <2>1, <2>2
<1> HIDE DEF q, p
<1>6. NothingSent'
  BY <1>1, <1>5, Zenon DEF IInv, NothingSent
<1>7. /\ Len(path') <= MaxBuilds
      /\ keys' \subseteq DOMAIN path' /\ m_Paths' \subseteq DOMAIN path'
      /\ logic' \in Seq(Ids \X {"confirm", "fail"})
      /\ \A i \in 1..Len(logic') : /\ logic'[i][2] = "confirm" => AllPassed(logic'[i][1])
                                   /\ logic'[i][2] = "fail" => Broken(logic'[i][1])
      /\ \A n \in msgs' : n \in MsgType /\ MsgTrue(n)
  BY <1>1, <1>5, EndpointState, Zenon
<1>8. \A r \in DOMAIN path' : PathTrue(r, path'[r]) /\ (r \in m_Paths' => OldEnough(r, path'[r]))
  BY <1>1, <1>5, Zenon
<1> QED  BY <1>1, <1>3, <1>5, <1>6, <1>7, <1>8, EndpointStep, Zenon

\* PathSet::ExpirePaths and TickPaths: S is what stays in the path set, f what
\* the paths become.
LEMMA TickedTrue ==
  ASSUME IInv, NEW S, S \subseteq m_Paths, NEW f,
         f = [p \in DOMAIN path |-> IF p \in S THEN TickPath(path[p])
                                    ELSE IF p \in m_Paths THEN Freed
                                    ELSE path[p]]
  PROVE  /\ f \in Seq(PathType) /\ Len(f) = Len(path) /\ DOMAIN f = DOMAIN path
         /\ \A p \in DOMAIN path : PathTrue(p, f[p]) /\ (p \in S => OldEnough(p, f[p]))
<1>1. /\ Len(path) \in Nat /\ DOMAIN path = 1..Len(path) /\ m_Paths \subseteq DOMAIN path
      /\ \A p \in DOMAIN path : /\ path[p] \in PathType /\ PathTrue(p, path[p])
                                /\ p \in m_Paths => OldEnough(p, path[p])
  BY EndpointState, Zenon
<1>2. ASSUME NEW p \in DOMAIN path
      PROVE  f[p] \in PathType /\ PathTrue(p, f[p]) /\ (p \in S => OldEnough(p, f[p]))
  <2>1. CASE p \in S
    <3>1. f[p] = TickPath(path[p])
      BY <2>1
    <3>2. f[p] \in PathType /\ PathTrue(p, f[p]) /\ f[p].age = path[p].age
      BY <1>1, <3>1, TickPathTrue, Zenon
    <3>3. OldEnough(p, f[p])
      BY <1>1, <2>1, <3>2, Zenon DEF OldEnough
    <3> QED  BY <3>2, <3>3, Zenon
  <2>2. CASE p \notin S /\ p \in m_Paths
    <3>1. f[p] = Freed
      BY <2>2
    <3> QED  BY <2>2, <3>1, NewPathTrue, Zenon
  <2>3. CASE p \notin S /\ p \notin m_Paths
    <3>1. f[p] = path[p]
      BY <2>3
    <3> QED  BY <1>1, <2>3, <3>1, Zenon
  <2> QED  BY <2>1, <2>2, <2>3
<1>3. DOMAIN f = DOMAIN path
  OBVIOUS
<1>4. f \in [1..Len(path) -> PathType]
  BY <1>1, <1>2
<1>5. f \in Seq(PathType) /\ Len(f) = Len(path)
  BY <1>1, <1>4, FunctionSeq, Zenon
<1> QED  BY <1>2, <1>3, <1>5, Zenon

\* What Router::Tick leaves in the path set, and what it makes of the paths.
Staying == {p \in m_Paths : ~Expired(path[p])}
Ticked == [p \in DOMAIN path |-> IF p \in Staying THEN TickPath(path[p])
                                 ELSE IF p \in m_Paths THEN Freed
                                 ELSE path[p]]

\* Router::Tick changes the paths it has, and may add one.
LEMMA TickState ==
  ASSUME IInv, NEW build \in BOOLEAN, RouterTick(build)
  PROVE  /\ path' \in Seq(PathType) /\ Len(path') <= MaxBuilds
         /\ DOMAIN path \subseteq DOMAIN path' /\ keys' \subseteq DOMAIN path'
         /\ \A p \in DOMAIN path : path'[p] = Ticked[p]
         /\ \A p \in DOMAIN path' \ DOMAIN path : path'[p] = NewPath
         /\ \A p \in keys' : p \in keys \/ p \notin DOMAIN path
<1>1. /\ build => Len(path) < MaxBuilds
      /\ path' = IF build THEN Append(Ticked, NewPath) ELSE Ticked
      /\ keys' = IF build THEN keys \cup {Len(path) + 1} ELSE keys
  BY Zenon DEF RouterTick, Staying, Ticked
<1>2. /\ path \in Seq(PathType) /\ Len(path) \in Nat /\ Len(path) <= MaxBuilds
      /\ DOMAIN path = 1..Len(path) /\ keys \subseteq DOMAIN path
  BY EndpointState, Zenon
<1>3. Ticked \in Seq(PathType) /\ Len(Ticked) = Len(path) /\ DOMAIN Ticked = DOMAIN path
  <2>1. Staying \subseteq m_Paths
    BY Zenon DEF Staying
  <2> QED  BY <2>1, TickedTrue, Zenon DEF Ticked
<1>4. CASE build
  <2>1. path' = Append(Ticked, NewPath) /\ keys' = keys \cup {Len(path) + 1} /\ Len(path) < MaxBuilds
    BY <1>1, <1>4, Zenon
  <2>2. NewPath \in PathType
    BY NewPathTrue, Zenon
  <2>3. /\ path' \in Seq(PathType) /\ Len(path') = Len(path) + 1
        /\ DOMAIN path' = 1..Len(path) + 1
        /\ \A p \in 1..Len(path) : path'[p] = Ticked[p]
        /\ path'[Len(path) + 1] = NewPath
    BY <1>2, <1>3, <2>1, <2>2
  <2>4. Len(path') <= MaxBuilds
    BY <1>2, <2>1, <2>3, HopsAssumption
  <2>5. /\ 1..Len(path) \subseteq 1..Len(path) + 1 /\ Len(path) + 1 \notin 1..Len(path)
        /\ \A p \in 1..Len(path) + 1 : p \in 1..Len(path) \/ p = Len(path) + 1
        /\ Len(path) + 1 \in 1..Len(path) + 1
    BY <1>2
  <2> QED  BY <1>2, <2>1, <2>3, <2>4, <2>5, Zenon
<1>5. CASE ~build
  <2>1. path' = Ticked /\ keys' = keys
    BY <1>1, <1>5, Zenon
  <2> QED  BY <1>2, <1>3, <2>1, Zenon
<1> QED  BY <1>4, <1>5, Zenon

\* Router::Tick, of finitely many paths
LEMMA RouterTickInv ==
  ASSUME IInv, NEW build \in BOOLEAN, RouterTick(build),
         \A S \in SUBSET DOMAIN path : Cardinality(S) \in Nat
  PROVE  IInv'
<1> DEFINE S == Staying
           timedOut == {p \in S : BuildTimedOut(path[p])}
           tested == {p \in S : TestDue(path[p])}
           f == Ticked
           b == IF build THEN Build(builder) ELSE builder
<1>1. /\ build => Len(path) < MaxBuilds
      /\ m_Paths' = S
      /\ path' = IF build THEN Append(f, NewPath) ELSE f
      /\ keys' = IF build THEN keys \cup {Len(path) + 1} ELSE keys
      /\ builder' = HandlePathBuildTimeouts(b, Cardinality(timedOut))
      /\ msgs' = msgs \cup {Upstream(p, 1, path[p].tests + 1) : p \in tested}
      /\ logic' = logic /\ hop' = hop
  BY Zenon DEF RouterTick, Staying, Ticked
<1>2. /\ builder \in BuilderType
      /\ path \in Seq(PathType) /\ Len(path) \in Nat /\ Len(path) <= MaxBuilds
      /\ DOMAIN path = 1..Len(path) /\ DOMAIN path \subseteq Ids
      /\ keys \subseteq DOMAIN path /\ m_Paths \subseteq DOMAIN path
      /\ \A p \in DOMAIN path : path[p] \in PathType
  BY EndpointState, Zenon
<1>3. S \subseteq m_Paths /\ timedOut \subseteq DOMAIN path /\ tested \subseteq m_Paths
  BY <1>2 DEF Staying
<1>4. /\ f \in Seq(PathType) /\ Len(f) = Len(path) /\ DOMAIN f = DOMAIN path
      /\ \A p \in DOMAIN path : PathTrue(p, f[p]) /\ (p \in S => OldEnough(p, f[p]))
  BY <1>3, TickedTrue, Zenon DEF Ticked
<1>5. builder' \in BuilderType
  <2>2. Cardinality(timedOut) \in Nat
    BY <1>3
  <2>3. b \in BuilderType
    BY <1>2, BuilderTypes, Zenon
  <2> HIDE DEF b, timedOut
  <2> QED  BY <1>1, <2>2, <2>3, BuilderTypes, Zenon
<1> HIDE DEF f, b, timedOut
<1>6. ASSUME NEW m \in msgs'
      PROVE  m \in MsgType /\ MsgTrue(m) /\ (m \in msgs \/ m.path \in m_Paths)
  <2>1. CASE m \in msgs
    BY <2>1, EndpointState, Zenon
  <2>2. ASSUME NEW p \in tested, m = Upstream(p, 1, path[p].tests + 1)
        PROVE  m \in MsgType /\ MsgTrue(m) /\ m.path \in m_Paths
    <3> DEFINE id == path[p].tests + 1
    <3>1. p \in m_Paths /\ p \in Ids /\ path[p] \in PathType
      BY <1>2, <1>3
    <3>2. id \in Nat /\ id > 0
      BY <3>1, PathTypes
    <3>3. m = Upstream(p, 1, id)
      BY <2>2
    <3> HIDE DEF id, tested, S
    <3> QED  BY <3>1, <3>2, <3>3, TestTrue, Zenon
  <2> HIDE DEF tested
  <2> QED  BY <1>1, <1>6, <2>1, <2>2, Zenon
<1> HIDE DEF S, tested
<1>7. /\ path' \in Seq(PathType) /\ Len(path') <= MaxBuilds
      /\ DOMAIN path \subseteq DOMAIN path' /\ keys' \subseteq DOMAIN path'
      /\ \A p \in DOMAIN path : path'[p] = f[p]
      /\ \A p \in DOMAIN path' \ DOMAIN path : path'[p] = NewPath
      /\ \A p \in keys' : p \in keys \/ p \notin DOMAIN path
  BY TickState, Zenon DEF f
<1>8. NothingSent'
  <2> SUFFICES ASSUME NEW p \in Ids, p \in keys' \/ p \notin DOMAIN path'
               PROVE  /\ p \notin m_Paths'
                      /\ \A k \in 1..Hops : hop[p][k].state = "none"
                      /\ \A m \in msgs' : m.path # p
                      /\ \A i \in 1..Len(logic) : logic[i][1] # p
    BY <1>1, Zenon DEF NothingSent
  <2>1. p \in keys \/ p \notin DOMAIN path
    BY <1>7, Zenon
  <2>2. /\ p \notin m_Paths
        /\ \A k \in 1..Hops : hop[p][k].state = "none"
        /\ \A m \in msgs : m.path # p
        /\ \A i \in 1..Len(logic) : logic[i][1] # p
    BY <2>1, Zenon DEF IInv, NothingSent
  <2>3. p \notin m_Paths'
    BY <1>1, <1>3, <2>2, Zenon
  <2>4. \A m \in msgs' : m.path # p
    BY <1>6, <2>2, Zenon
  <2> QED  BY <2>2, <2>3, <2>4, Zenon
<1>9. m_Paths' \subseteq DOMAIN path'
  BY <1>1, <1>2, <1>3, <1>7, Zenon
<1>10. \A p \in DOMAIN path' : PathTrue(p, path'[p]) /\ (p \in m_Paths' => OldEnough(p, path'[p]))
  <2> SUFFICES ASSUME NEW p \in DOMAIN path'
               PROVE  PathTrue(p, path'[p]) /\ (p \in m_Paths' => OldEnough(p, path'[p]))
    BY Zenon
  <2>1. CASE p \in DOMAIN path
    BY <1>1, <1>4, <1>7, <2>1, Zenon
  <2>2. CASE p \notin DOMAIN path
    <3>1. path'[p] = NewPath /\ p \notin m_Paths'
      BY <1>1, <1>2, <1>3, <1>7, <2>2, Zenon
    <3> QED  BY <3>1, NewPathTrue, Zenon
  <2> QED  BY <2>1, <2>2
<1>11. /\ logic' \in Seq(Ids \X {"confirm", "fail"})
       /\ \A i \in 1..Len(logic') : /\ logic'[i][2] = "confirm" => AllPassed(logic'[i][1])
                                    /\ logic'[i][2] = "fail" => Broken(logic'[i][1])
  BY <1>1, EndpointState, Zenon
<1> QED  BY <1>1, <1>5, <1>6, <1>7, <1>8, <1>9, <1>10, <1>11, EndpointStep, Zenon

\* The clock, of a hop
LEMMA HopOlderTrue ==
  ASSUME NEW h \in HopType
  PROVE  /\ HopOlder(h) \in HopType /\ Advances(h, HopOlder(h))
         /\ HopOlder(h).state = h.state /\ HopOlder(h).forward = h.forward
         /\ HopOlder(h).destroy = h.destroy
         /\ HopOlder(h).age = h.age \/ HopOlder(h).age = Older(h.age, Lifetime)
         /\ h.state = "none" => HopOlder(h) = h
<1>1. h.age \in 0..Lifetime
  BY DEF HopType
<1>2. CASE h.state \in {"decrypted", "put"}
  <2>1. HopOlder(h) = [h EXCEPT !.age = Older(h.age, Lifetime)]
    BY <1>2 DEF HopOlder
  <2>2. Older(h.age, Lifetime) \in 0..Lifetime
    BY <1>1, Times DEF Older
  <2> QED  BY <1>2, <2>1, <2>2 DEF HopType, Advances, Passed
<1>3. CASE h.state \notin {"decrypted", "put"}
  <2>1. HopOlder(h) = h
    BY <1>3 DEF HopOlder
  <2> QED  BY <2>1 DEF Advances
<1> QED  BY <1>2, <1>3

LEMMA ClockInv ==
  ASSUME IInv, Clock
  PROVE  IInv'
<1> DEFINE e(p) == IF p \in keys \cup m_Paths THEN PathOlder(path[p]) ELSE path[p]
<1>1. /\ builder' = [builder EXCEPT !.lastBuild = Older(@, MaxInterval)]
      /\ path' = [p \in DOMAIN path |-> e(p)]
      /\ hop' = [p \in Ids |-> [k \in 1..Hops |-> HopOlder(hop[p][k])]]
      /\ keys' = keys /\ m_Paths' = m_Paths /\ logic' = logic /\ msgs' = msgs
  BY Zenon DEF Clock
<1>2. /\ builder \in BuilderType
      /\ path \in Seq(PathType) /\ Len(path) \in Nat /\ Len(path) <= MaxBuilds
      /\ DOMAIN path = 1..Len(path) /\ DOMAIN path \subseteq Ids
      /\ keys \subseteq DOMAIN path /\ m_Paths \subseteq DOMAIN path
      /\ \A p \in DOMAIN path : /\ path[p] \in PathType /\ PathTrue(p, path[p])
                                /\ p \in m_Paths => OldEnough(p, path[p])
  BY EndpointState, Zenon
<1>3. builder' \in BuilderType
  BY <1>1, <1>2, BuilderTypes, Zenon
<1>4. \A p \in Ids, k \in 1..Hops : hop[p][k] \in HopType /\ hop[p][k].age \in Nat
  BY HopFields, Zenon DEF IInv
<1>5. \A p \in Ids, k \in 1..Hops : hop'[p][k] = HopOlder(hop[p][k])
  BY <1>1
<1>6. ASSUME NEW p \in Ids, NEW k \in 1..Hops
      PROVE  /\ hop'[p][k] \in HopType /\ Advances(hop[p][k], hop'[p][k])
             /\ hop'[p][k].state = hop[p][k].state /\ hop'[p][k].forward = hop[p][k].forward
             /\ hop'[p][k].destroy = hop[p][k].destroy
             /\ hop'[p][k].age = hop[p][k].age \/ hop'[p][k].age = Older(hop[p][k].age, Lifetime)
             /\ hop[p][k].state = "none" => hop'[p][k] = hop[p][k]
  <2> DEFINE g == hop[p][k]
  <2>1. g \in HopType /\ hop'[p][k] = HopOlder(g)
    BY <1>4, <1>5, Zenon
  <2> HIDE DEF g
  <2>2. /\ HopOlder(g) \in HopType /\ Advances(g, HopOlder(g))
        /\ HopOlder(g).state = g.state /\ HopOlder(g).forward = g.forward
        /\ HopOlder(g).destroy = g.destroy
        /\ HopOlder(g).age = g.age \/ HopOlder(g).age = Older(g.age, Lifetime)
        /\ g.state = "none" => HopOlder(g) = g
    BY <2>1, HopOlderTrue, Zenon
  <2> QED  BY <2>1, <2>2, Zenon DEF g
<1>7. hop' \in [Ids -> [1..Hops -> HopType]]
  <2>1. \A p \in Ids, k \in 1..Hops : HopOlder(hop[p][k]) \in HopType
    BY <1>5, <1>6, Zenon
  <2> QED  BY <1>1, <2>1, Zenon
<1>8. \A p \in Ids : (AllPassed(p) => AllPassed(p)') /\ (Broken(p) => Broken(p)')
  BY <1>6, Stable, Zenon
<1>9. ASSUME NEW p \in DOMAIN path
      PROVE  /\ path'[p] \in PathType /\ PathTrue(p, path'[p])
             /\ p \in m_Paths => path'[p].age = Older(path[p].age, Lifetime)
  <2>1. path'[p] = e(p) /\ path[p] \in PathType /\ PathTrue(p, path[p])
    BY <1>1, <1>2, Zenon
  <2>2. /\ PathOlder(path[p]) \in PathType /\ PathTrue(p, PathOlder(path[p]))
        /\ PathOlder(path[p]).age = Older(path[p].age, Lifetime)
    BY <2>1, PathOlderTrue, Zenon
  <2> QED  BY <2>1, <2>2, Zenon
<1>10. path' \in Seq(PathType) /\ Len(path') = Len(path) /\ DOMAIN path' = DOMAIN path
  <2>1. DOMAIN path' = DOMAIN path
    BY <1>1, Zenon
  <2>2. path' \in [1..Len(path) -> PathType]
    <3>1. \A p \in 1..Len(path) : e(p) \in PathType
      BY <1>1, <1>2, <1>9, Zenon
    <3> HIDE DEF e
    <3> QED  BY <1>1, <1>2, <3>1, Zenon
  <2> QED  BY <1>2, <2>1, <2>2, FunctionSeq, Zenon
<1> HIDE DEF e
<1>11. TypeOK'
  <2>1. Len(path') <= MaxBuilds
    BY <1>2, <1>10, Zenon
  <2>2. /\ keys' \subseteq DOMAIN path' /\ m_Paths' \subseteq DOMAIN path'
        /\ logic' \in Seq(Ids \X {"confirm", "fail"}) /\ \A m \in msgs' : m \in MsgType
    BY <1>1, <1>2, <1>10, EndpointState, Zenon
  <2> QED  BY <1>3, <1>7, <1>10, <2>1, <2>2, Zenon DEF TypeOK
<1>12. HopsInOrder'
  <2> SUFFICES ASSUME NEW p \in Ids, NEW k \in 1..Hops
               PROVE  /\ hop'[p][k].state = "none" => hop'[p][k] = NoHop
                      /\ hop'[p][k].state \in {"decrypted", "refused"} => hop'[p][k].forward = "no"
                      /\ hop'[p][k].destroy # "no" => Broken(p)'
                      /\ hop'[p][k].state # "none" /\ k > 1 => Passed(hop'[p][k - 1])
    BY Zenon DEF HopsInOrder
  <2>1. /\ hop[p][k].state = "none" => hop[p][k] = NoHop
        /\ hop[p][k].state \in {"decrypted", "refused"} => hop[p][k].forward = "no"
        /\ hop[p][k].destroy # "no" => Broken(p)
        /\ hop[p][k].state # "none" /\ k > 1 => Passed(hop[p][k - 1])
    BY Zenon DEF IInv, HopsInOrder
  <2>2. k > 1 => k - 1 \in 1..Hops
    BY HopsAssumption
  <2>3. k > 1 => Advances(hop[p][k - 1], hop'[p][k - 1])
    BY <1>6, <2>2, Zenon
  <2>4. /\ hop'[p][k].state = hop[p][k].state /\ hop'[p][k].forward = hop[p][k].forward
        /\ hop'[p][k].destroy = hop[p][k].destroy
        /\ hop[p][k].state = "none" => hop'[p][k] = hop[p][k]
    BY <1>6, Zenon
  <2>5. Broken(p) => Broken(p)'
    BY <1>8, Zenon
  <2>6. hop[p][k].state # "none" /\ k > 1 => Passed(hop'[p][k - 1])
    BY <2>1, <2>3, Zenon DEF Advances
  <2> QED  BY <2>1, <2>4, <2>5, <2>6, Zenon
<1>13. MsgsTrue'
  <2> SUFFICES ASSUME NEW m \in msgs  PROVE MsgTrue(m)'
    BY <1>1, Zenon DEF MsgsTrue
  <2>1. m \in MsgType /\ MsgTrue(m)
    BY EndpointState, Zenon
  <2>2. m.type = "commit" => m.path \in Ids /\ m.to \in 1..Hops /\ hop[m.path][m.to].state = "none"
    BY <2>1, MsgFields, Zenon DEF MsgTrue
  <2>3. m.type = "commit" => hop'[m.path][m.to] = hop[m.path][m.to]
    BY <1>6, <2>2, Zenon
  <2>4. \A p \in Ids, k \in 1..Hops : Advances(hop[p][k], hop'[p][k])
    BY <1>6, Zenon
  <2> QED  BY <2>1, <2>3, <2>4, OldMsg, Zenon
<1>14. LogicTrue'
  <2> SUFFICES ASSUME NEW i \in 1..Len(logic)
               PROVE  /\ logic[i][2] = "confirm" => AllPassed(logic[i][1])'
                      /\ logic[i][2] = "fail" => Broken(logic[i][1])'
    BY <1>1 DEF LogicTrue
  <2>1. logic \in Seq(Ids \X {"confirm", "fail"})
    BY EndpointState, Zenon
  <2>2. logic[i][1] \in Ids
    BY <2>1
  <2>3. /\ logic[i][2] = "confirm" => AllPassed(logic[i][1])
        /\ logic[i][2] = "fail" => Broken(logic[i][1])
    BY EndpointState, Zenon
  <2> QED  BY <1>1, <1>8, <2>2, <2>3
<1>15. NothingSent'
  <2> SUFFICES ASSUME NEW p \in Ids, p \in keys \/ p \notin DOMAIN path
               PROVE  /\ p \notin m_Paths
                      /\ \A k \in 1..Hops : hop'[p][k].state = "none"
                      /\ \A m \in msgs : m.path # p
                      /\ \A i \in 1..Len(logic) : logic[i][1] # p
    BY <1>1, <1>10, Zenon DEF NothingSent
  <2>1. /\ p \notin m_Paths
        /\ \A k \in 1..Hops : hop[p][k].state = "none"
        /\ \A m \in msgs : m.path # p
        /\ \A i \in 1..Len(logic) : logic[i][1] # p
    BY Zenon DEF IInv, NothingSent
  <2>2. \A k \in 1..Hops : hop'[p][k].state = hop[p][k].state
    BY <1>6, Zenon
  <2> QED  BY <2>1, <2>2, Zenon
<1>16. PathsTrue'
  <2> SUFFICES ASSUME NEW p \in DOMAIN path
               PROVE  PathTrue(p, path[p])' /\ (p \in m_Paths => OldEnough(p, path[p])')
    BY <1>1, <1>10, Zenon DEF PathsTrue
  <2>1. p \in Ids
    BY <1>2
  <2>2. PathTrue(p, path[p])'
    BY <1>8, <1>9, <2>1, Zenon DEF PathTrue
  <2>3. ASSUME p \in m_Paths, NEW k \in 1..Hops
        PROVE  /\ hop'[p][k].age <= path'[p].age
               /\ hop'[p][k].state = "gone" => path'[p].age >= Lifetime \/ hop'[p][k].destroy = "yes"
    <3>1. /\ hop[p][k].age <= path[p].age
          /\ hop[p][k].state = "gone" => path[p].age >= Lifetime \/ hop[p][k].destroy = "yes"
      BY <1>2, <2>3, Zenon DEF OldEnough
    <3>2. /\ path'[p].age = Older(path[p].age, Lifetime) /\ path[p].age \in 0..Lifetime
          /\ hop[p][k].age \in 0..Lifetime
      BY <1>2, <1>4, <1>9, <2>1, <2>3, PathTypes DEF HopType
    <3>3. /\ hop'[p][k].state = hop[p][k].state /\ hop'[p][k].destroy = hop[p][k].destroy
          /\ hop'[p][k].age = hop[p][k].age \/ hop'[p][k].age = Older(hop[p][k].age, Lifetime)
      BY <1>6, <2>1, Zenon
    <3>4. path'[p].age >= path[p].age /\ path'[p].age \in 0..Lifetime
      BY <3>2, Times DEF Older
    <3>5. hop'[p][k].age <= path'[p].age
      BY <3>1, <3>2, <3>3, Times DEF Older
    <3>6. path[p].age >= Lifetime => path'[p].age >= Lifetime
      BY <3>2, <3>4, Times
    <3> QED  BY <3>1, <3>3, <3>5, <3>6, Zenon
  <2> QED  BY <2>2, <2>3, Zenon DEF OldEnough
<1> QED  BY <1>11, <1>12, <1>13, <1>14, <1>15, <1>16, Zenon DEF IInv

INSTANCE FiniteSetTheorems

\* Before the first path
LEMMA InitInv ==
  ASSUME Init
  PROVE  IInv
<1>1. /\ builder = NewBuilder /\ path = <<>> /\ keys = {} /\ m_Paths = {} /\ logic = <<>>
      /\ hop = [p \in Ids |-> [k \in 1..Hops |-> NoHop]] /\ msgs = {}
  BY DEF Init
<1>2. path \in Seq(PathType) /\ logic \in Seq(Ids \X {"confirm", "fail"})
  BY <1>1
<1>3. Len(path) = 0 /\ Len(logic) = 0 /\ DOMAIN path = {}
  BY <1>1
<1>4. NewBuilder \in BuilderType
  <2> DEFINE yes == TRUE
  <2>1. yes \in BOOLEAN
    OBVIOUS
  <2> HIDE DEF yes
  <2>2. [run |-> yes, lastBuild |-> MaxInterval, interval |-> MinInterval,
         attempts |-> 0, success |-> 0, timeouts |-> 0, fails |-> 0] \in BuilderType
    BY <2>1, Times DEF BuilderType
  <2> QED  BY <2>2, Zenon DEF NewBuilder, yes
<1>5. NoHop \in HopType
  BY Times DEF NoHop, HopType
<1>6. hop \in [Ids -> [1..Hops -> HopType]] /\ \A p \in Ids, k \in 1..Hops : hop[p][k] = NoHop
  BY <1>1, <1>5, Zenon
<1>7. NoHop.state = "none" /\ NoHop.destroy = "no" /\ NoHop.state \notin {"decrypted", "refused"}
  BY DEF NoHop
<1>8. TypeOK
  <2>1. Len(path) <= MaxBuilds
    BY <1>3, HopsAssumption
  <2> QED  BY <1>1, <1>2, <1>4, <1>6, <2>1, Zenon DEF TypeOK
<1>9. HopsInOrder
  BY <1>6, <1>7, Zenon DEF HopsInOrder
<1>10. \A i \in 1..Len(logic) : FALSE
  BY <1>3
<1>11. MsgsTrue /\ LogicTrue /\ PathsTrue
  BY <1>1, <1>3, <1>10, Zenon DEF MsgsTrue, LogicTrue, PathsTrue
<1>12. NothingSent
  BY <1>1, <1>6, <1>7, <1>10, Zenon DEF NothingSent
<1> QED  BY <1>8, <1>9, <1>11, <1>12 DEF IInv

\* Every step keeps the invariant.
LEMMA NextInv ==
  ASSUME IInv, [Next]_vars
  PROVE  IInv'
<1>1. ASSUME NEW build \in BOOLEAN, RouterTick(build)  PROVE IInv'
  <2>1. /\ path \in Seq(PathType) /\ Len(path) \in Nat
        /\ DOMAIN path = 1..Len(path)
    BY EndpointState, Zenon
  <2>2. IsFiniteSet(1..Len(path))
    BY <2>1, FS_Interval
  <2>3. \A S \in SUBSET DOMAIN path : Cardinality(S) \in Nat
    BY <2>1, <2>2, FS_Subset, FS_CardinalityType, Zenon
  <2> QED  BY <1>1, <2>3, RouterTickInv, Zenon
<1>2. ASSUME NEW p \in Ids, NEW sent \in BOOLEAN, KeysGenerated(p, sent)  PROVE IInv'
  <2>1. p \in keys /\ keys' = keys \ {p} /\ logic' = logic /\ hop' = hop
    BY <1>2, Zenon DEF KeysGenerated
  <2>2. CASE builder.run /\ sent
    <3>1. /\ m_Paths' = m_Paths \cup {p} /\ builder' = [builder EXCEPT !.attempts = @ + 1]
          /\ msgs' = msgs \cup {Commit(p, 1)} /\ path' = path
      BY <1>2, <2>2, Zenon DEF KeysGenerated
    <3> QED  BY <2>1, <3>1, KeysSentInv, Zenon
  <2>3. CASE ~(builder.run /\ sent)
    <3>1. path' = [path EXCEPT ![p] = Freed] /\ UNCHANGED <<m_Paths, builder, msgs>>
      BY <1>2, <2>3, Zenon DEF KeysGenerated
    <3>2. UNCHANGED <<m_Paths, builder, msgs, logic, hop>>
      BY <2>1, <3>1
    <3> QED  BY <2>1, <3>1, <3>2, KeysNotSentInv, Zenon
  <2> QED  BY <2>2, <2>3, Zenon
<1>3. ASSUME NEW p \in Ids, NEW k \in 1..Hops, HopStep(p, k)  PROVE IInv'
  <2>1. ASSUME NEW allowed \in BOOLEAN, SendLRCM(p, k, allowed)  PROVE IInv'
    <3>1. CASE allowed = TRUE
      BY <2>1, <3>1, SendLRCMInv, Zenon
    <3>2. CASE allowed = FALSE
      BY <2>1, <3>2, RefuseInv, Zenon
    <3> QED  BY <3>1, <3>2, Zenon
  <2> QED  BY <1>3, <2>1, ForwardResultInv, SetSelfDestructInv, ExpireHopInv, Zenon DEF HopStep
<1>4. ASSUME NEW m \in msgs, \/ HandleOwnLRSM(m) \/ HandleOwnLatency(m) \/ HandleDecrypted(m)
                             \/ HandleLRSM(m) \/ Relay(m)
      PROVE  IInv'
  BY <1>4, HandleOwnLRSMInv, HandleOwnLatencyInv, HandleDecryptedInv, HandleLRSMInv, RelayInv, Zenon
<1>5. CASE RunConfirm \/ RunFail \/ Stop \/ Clock
  BY <1>5, RunConfirmInv, RunFailInv, StopInv, ClockInv, Zenon
<1>6. ASSUME NEW p \in Ids, SendPathConfirm(p)  PROVE IInv'
  BY <1>6, SendPathConfirmInv, Zenon
<1>7. CASE UNCHANGED vars
  <2>1. /\ builder' = builder /\ path' = path /\ keys' = keys /\ m_Paths' = m_Paths
        /\ logic' = logic /\ hop' = hop /\ msgs' = msgs
    BY <1>7 DEF vars
  <2>2. NothingSent'
    BY <2>1, Zenon DEF IInv, NothingSent
  <2>3. /\ builder' \in BuilderType /\ path' \in Seq(PathType) /\ Len(path') <= MaxBuilds
        /\ keys' \subseteq DOMAIN path' /\ m_Paths' \subseteq DOMAIN path'
        /\ logic' \in Seq(Ids \X {"confirm", "fail"})
        /\ \A i \in 1..Len(logic') : /\ logic'[i][2] = "confirm" => AllPassed(logic'[i][1])
                                     /\ logic'[i][2] = "fail" => Broken(logic'[i][1])
        /\ \A m \in msgs' : m \in MsgType /\ MsgTrue(m)
        /\ \A p \in DOMAIN path' :
             PathTrue(p, path'[p]) /\ (p \in m_Paths' => OldEnough(p, path'[p]))
    BY <2>1, EndpointState, Zenon
  <2> QED  BY <2>1, <2>2, <2>3, EndpointStep, Zenon
<1> QED  BY <1>1, <1>2, <1>3, <1>4, <1>5, <1>6, <1>7, Zenon DEF Next

\* What the invariant says of the paths in the path set.
LEMMA InvImplies ==
  ASSUME IInv
  PROVE  HopsOutlivePath /\ FailuresAreReal
<1>1. TypeOK
  BY DEF IInv
<1>2. ASSUME NEW p \in m_Paths, path[p].tests > 0, path[p].age < Lifetime,
             \A k \in 1..Hops : hop[p][k].forward # "failed", NEW k \in 1..Hops
      PROVE  hop[p][k].state = "put"
  <2>1. p \in DOMAIN path /\ p \in Ids /\ path[p] \in PathType
    BY EndpointState
  <2>2. PathTrue(p, path[p]) /\ OldEnough(p, path[p])
    BY <2>1, EndpointState, Zenon
  <2>3. AllPassed(p)
    BY <1>2, <2>2, Zenon DEF PathTrue
  <2>4. \A j \in 1..Hops : hop[p][j].state \in {"put", "gone"}
    BY <2>3, Zenon DEF AllPassed, Passed
  <2>5. ~Broken(p)
    BY <1>2, <2>4 DEF Broken
  <2>6. ~(path[p].age >= Lifetime)
    BY <1>2, <2>1, PathTypes, Times
  <2>7. hop[p][k].destroy = "no"
    BY <2>1, <2>5, Zenon DEF IInv, HopsInOrder
  <2>8. hop[p][k].state # "gone"
    <3>1. hop[p][k].state = "gone" => path[p].age >= Lifetime \/ hop[p][k].destroy = "yes"
      BY <2>2, Zenon DEF OldEnough
    <3> QED  BY <2>6, <2>7, <3>1
  <2> QED  BY <2>4, <2>8
<1>3. ASSUME NEW p \in m_Paths, path[p].status = "failed"
      PROVE  \E k \in 1..Hops : hop[p][k].forward = "failed" \/ hop[p][k].state = "refused"
  <2>1. p \in DOMAIN path
    BY EndpointState
  <2> QED  BY <1>3, <2>1, EndpointState, Zenon DEF PathTrue, Broken
<1> QED  BY <1>1, <1>2, <1>3, Zenon DEF HopsOutlivePath, FailuresAreReal

----------------------------------------------------------------------------
(* The statistics.  A path that is still building is one whose hook is set *)
(* and that no counter has been raised for; a hook that is still set may   *)
(* yet count a success.                                                    *)
Building == {p \in m_Paths : path[p].status = "building"}
Hooked == {p \in m_Paths : path[p].hook}

StatsInv ==
  /\ \A p \in keys : path[p].status = "building"
  /\ \A p \in m_Paths \cup keys : path[p].status = "building" => path[p].hook
  /\ builder.attempts
       <= builder.success + builder.timeouts + builder.fails + Cardinality(Building)
  /\ builder.success + Cardinality(Hooked) <= builder.attempts

\* c has counted a more attempts than b, s successes, t timeouts and f failures.
Counts(c, b, a, s, t, f) ==
  /\ c.attempts = b.attempts + a /\ c.success = b.success + s
  /\ c.timeouts = b.timeouts + t /\ c.fails = b.fails + f

\* What the builder's operations count
LEMMA Counters ==
  ASSUME NEW b \in BuilderType
  PROVE  /\ Counts(b, b, 0, 0, 0, 0)
         /\ Counts([b EXCEPT !.attempts = @ + 1], b, 1, 0, 0, 0)
         /\ Counts(HandlePathBuilt(b), b, 0, 1, 0, 0)
         /\ Counts(HandlePathBuildFailed(b), b, 0, 0, 0, 1)
         /\ Counts([b EXCEPT !.run = FALSE], b, 0, 0, 0, 0)
         /\ Counts([b EXCEPT !.lastBuild = Older(@, MaxInterval)], b, 0, 0, 0, 0)
<1>1. b.attempts \in Nat /\ b.success \in Nat /\ b.timeouts \in Nat /\ b.fails \in Nat
  BY DEF BuilderType
<1> QED
  BY <1>1 DEF Counts, BuilderType, HandlePathBuilt, HandlePathBuildFailed, DoPathBuildBackoff

LEMMA TimeoutCounters ==
  ASSUME NEW b \in BuilderType, NEW n \in Nat
  PROVE  /\ Counts(HandlePathBuildTimeouts(b, n), b, 0, 0, n, 0)
         /\ Counts(HandlePathBuildTimeouts(Build(b), n), b, 0, 0, n, 0)
<1>1. b.attempts \in Nat /\ b.success \in Nat /\ b.timeouts \in Nat /\ b.fails \in Nat
  BY DEF BuilderType
<1> QED  BY <1>1 DEF Counts, BuilderType, HandlePathBuildTimeouts, DoPathBuildBackoff, Build

\* Sets of paths are finite.
LEMMA PathsFinite ==
  ASSUME NEW n \in Nat, NEW S, S \subseteq 1..n
  PROVE  IsFiniteSet(S) /\ Cardinality(S) \in Nat
<1>1. IsFiniteSet(1..n)
  BY FS_Interval
<1> QED  BY <1>1, FS_Subset, FS_CardinalityType, Zenon

LEMMA StatsFinite ==
  ASSUME IInv
  PROVE  /\ IsFiniteSet(Building) /\ Cardinality(Building) \in Nat
         /\ IsFiniteSet(Hooked) /\ Cardinality(Hooked) \in Nat
<1>1. Len(path) \in Nat /\ Building \subseteq 1..Len(path) /\ Hooked \subseteq 1..Len(path)
  BY EndpointState DEF Building, Hooked
<1> QED  BY <1>1, PathsFinite, Zenon

\* A step is accounted for if what leaves Building is counted, and what is counted
\* as a success leaves Hooked.
LEMMA StatsStep ==
  ASSUME IInv, StatsInv,
         NEW a \in Nat, NEW s \in Nat, NEW t \in Nat, NEW f \in Nat,
         Counts(builder', builder, a, s, t, f),
         \A p \in keys' : path'[p].status = "building",
         \A p \in m_Paths' \cup keys' : path'[p].status = "building" => path'[p].hook,
         Cardinality(Building') \in Nat, Cardinality(Hooked') \in Nat,
         Cardinality(Building) + a <= Cardinality(Building') + s + t + f,
         Cardinality(Hooked') + s <= Cardinality(Hooked) + a
  PROVE  StatsInv'
<1>1. builder.attempts \in Nat /\ builder.success \in Nat /\ builder.timeouts \in Nat
      /\ builder.fails \in Nat
  BY EndpointState DEF BuilderType
<1>2. Cardinality(Building) \in Nat /\ Cardinality(Hooked) \in Nat
  BY StatsFinite
<1>3. /\ builder.attempts
           <= builder.success + builder.timeouts + builder.fails + Cardinality(Building)
      /\ builder.success + Cardinality(Hooked) <= builder.attempts
  BY Zenon DEF StatsInv
<1> DEFINE c == builder'
<1>4. /\ c.attempts = builder.attempts + a /\ c.success = builder.success + s
      /\ c.timeouts = builder.timeouts + t /\ c.fails = builder.fails + f
  BY Zenon DEF Counts
<1> HIDE DEF c
<1>5. c.attempts <= c.success + c.timeouts + c.fails + Cardinality(Building')
  BY <1>1, <1>2, <1>3, <1>4
<1>6. c.success + Cardinality(Hooked') <= c.attempts
  BY <1>1, <1>2, <1>3, <1>4
<1> QED  BY <1>5, <1>6, Zenon DEF StatsInv, c

\* A step that changes neither the counters nor what they count.
LEMMA StatsKept ==
  ASSUME IInv, StatsInv, m_Paths' = m_Paths, keys' \subseteq keys,
         Counts(builder', builder, 0, 0, 0, 0),
         \A p \in m_Paths \cup keys' : /\ path'[p].status = path[p].status
                                       /\ path'[p].hook = path[p].hook
  PROVE  StatsInv'
<1>1. Building' = Building /\ Hooked' = Hooked
  BY DEF Building, Hooked
<1>2. /\ \A p \in keys' : path'[p].status = "building"
      /\ \A p \in m_Paths' \cup keys' : path'[p].status = "building" => path'[p].hook
  BY Zenon DEF StatsInv
<1>3. Cardinality(Building) \in Nat /\ Cardinality(Hooked) \in Nat
  BY StatsFinite
<1>4. /\ 0 \in Nat
      /\ Cardinality(Building') \in Nat /\ Cardinality(Hooked') \in Nat
      /\ Cardinality(Building) + 0 <= Cardinality(Building') + 0 + 0 + 0
      /\ Cardinality(Hooked') + 0 <= Cardinality(Hooked) + 0
  BY <1>1, <1>3
<1> QED  BY <1>2, <1>4, StatsStep, Zenon

\* PathBuilderKeysGenerated counts an attempt for a path that is building.
LEMMA KeysStats ==
  ASSUME IInv, StatsInv, NEW p \in Ids, NEW sent \in BOOLEAN, KeysGenerated(p, sent)
  PROVE  StatsInv'
<1>1. p \in keys /\ keys' = keys \ {p} /\ p \in DOMAIN path /\ p \notin m_Paths
  BY EndpointState, Zenon DEF KeysGenerated, IInv, NothingSent
<1>2. builder \in BuilderType /\ path \in Seq(PathType) /\ m_Paths \subseteq DOMAIN path
      /\ keys \subseteq DOMAIN path
  BY EndpointState, Zenon
<1>3. CASE builder.run /\ sent
  <2>1. m_Paths' = m_Paths \cup {p} /\ path' = path
        /\ builder' = [builder EXCEPT !.attempts = @ + 1]
    BY <1>3, Zenon DEF KeysGenerated
  <2>2. Counts(builder', builder, 1, 0, 0, 0)
    BY <1>2, <2>1, Counters, Zenon
  <2>3. path[p].status = "building" /\ path[p].hook
    BY <1>1, Zenon DEF StatsInv
  <2>4. /\ \A r \in keys' : path'[r].status = "building"
        /\ \A r \in m_Paths' \cup keys' : path'[r].status = "building" => path'[r].hook
    BY <1>1, <2>1, <2>3, Zenon DEF StatsInv
  <2>5. /\ Building' = Building \cup {p} /\ p \notin Building
        /\ Hooked' = Hooked \cup {p} /\ p \notin Hooked
    BY <1>1, <2>1, <2>3 DEF Building, Hooked
  <2>6. /\ IsFiniteSet(Building) /\ Cardinality(Building) \in Nat
        /\ IsFiniteSet(Hooked) /\ Cardinality(Hooked) \in Nat
    BY StatsFinite, Zenon
  <2>7. /\ Cardinality(Building') = Cardinality(Building) + 1
        /\ Cardinality(Hooked') = Cardinality(Hooked) + 1
    <3>1. /\ Cardinality(Building \cup {p}) =
                IF p \in Building THEN Cardinality(Building) ELSE Cardinality(Building) + 1
          /\ Cardinality(Hooked \cup {p}) =
                IF p \in Hooked THEN Cardinality(Hooked) ELSE Cardinality(Hooked) + 1
      BY <2>6, FS_AddElement, Zenon
    <3> QED  BY <2>5, <3>1, Zenon
  <2>8. /\ 0 \in Nat /\ 1 \in Nat
        /\ Cardinality(Building') \in Nat /\ Cardinality(Hooked') \in Nat
        /\ Cardinality(Building) + 1 <= Cardinality(Building') + 0 + 0 + 0
        /\ Cardinality(Hooked') + 0 <= Cardinality(Hooked) + 1
    BY <2>6, <2>7
  <2> QED  BY <2>2, <2>4, <2>8, StatsStep, Zenon
<1>4. CASE ~(builder.run /\ sent)
  <2>1. path' = [path EXCEPT ![p] = Freed] /\ m_Paths' = m_Paths /\ builder' = builder
    BY <1>4, Zenon DEF KeysGenerated
  <2>2. Counts(builder', builder, 0, 0, 0, 0)
    BY <1>2, <2>1, Counters, Zenon
  <2>3. \A r \in m_Paths \cup keys' : path'[r] = path[r]
    BY <1>1, <1>2, <2>1
  <2> QED  BY <1>1, <2>1, <2>2, <2>3, StatsKept, Zenon
<1> QED  BY <1>3, <1>4

\* A path that was building and leaves that status, or is no longer hooked.
LEMMA OnePathChanges ==
  ASSUME IInv, NEW p \in DOMAIN path, NEW q, p \notin keys,
         path' = [path EXCEPT ![p] = q], m_Paths' = m_Paths, q.status # "building"
  PROVE  /\ Building' = Building \ {p}
         /\ q.hook => Hooked' \subseteq Hooked \cup {p}
         /\ ~q.hook => Hooked' = Hooked \ {p}
         /\ StatsInv => /\ \A r \in keys : path'[r].status = "building"
                        /\ \A r \in m_Paths \cup keys :
                             path'[r].status = "building" => path'[r].hook
<1>1. m_Paths \subseteq DOMAIN path /\ keys \subseteq DOMAIN path
  BY EndpointState, Zenon
<1>2. path'[p] = q /\ \A r \in DOMAIN path : r # p => path'[r] = path[r]
  OBVIOUS
<1>3. Building' = Building \ {p}
  BY <1>1, <1>2 DEF Building
<1>4. ~q.hook => Hooked' = Hooked \ {p}
  BY <1>1, <1>2 DEF Hooked
<1>5. Hooked' \subseteq Hooked \cup {p}
  BY <1>1, <1>2 DEF Hooked
<1>6. StatsInv => /\ \A r \in keys : path'[r].status = "building"
                  /\ \A r \in m_Paths \cup keys :
                       path'[r].status = "building" => path'[r].hook
  BY <1>1, <1>2, Zenon DEF StatsInv
<1> QED  BY <1>3, <1>4, <1>5, <1>6, Zenon

\* A failure is counted for whatever path it is of.
LEMMA FailStats ==
  ASSUME IInv, StatsInv, RunFail
  PROVE  StatsInv'
<1> DEFINE p == Head(logic)[1]
<1>1. /\ path' = IF p \in m_Paths THEN [path EXCEPT ![p] = EnterState(@, "failed")] ELSE path
      /\ builder' = HandlePathBuildFailed(builder) /\ keys' = keys /\ m_Paths' = m_Paths
  BY Zenon DEF RunFail
<1>2. p \in DOMAIN path /\ p \notin keys
  BY FirstClosure, Zenon DEF RunFail
<1>3. builder \in BuilderType /\ path \in Seq(PathType) /\ m_Paths \subseteq DOMAIN path
      /\ \A r \in DOMAIN path : path[r] \in PathType
  BY EndpointState, Zenon
<1>4. Counts(builder', builder, 0, 0, 0, 1)
  BY <1>1, <1>3, Counters, Zenon
<1> HIDE DEF p
<1>5. /\ IsFiniteSet(Building) /\ Cardinality(Building) \in Nat
      /\ IsFiniteSet(Hooked) /\ Cardinality(Hooked) \in Nat
  BY StatsFinite, Zenon
<1>6. /\ \A r \in keys' : path'[r].status = "building"
      /\ \A r \in m_Paths' \cup keys' : path'[r].status = "building" => path'[r].hook
      /\ Building' = Building \ {p} \/ Building' = Building
      /\ Hooked' = Hooked
  <2>1. CASE p \in m_Paths
    <3> DEFINE q == EnterState(path[p], "failed")
    <3>1. path' = [path EXCEPT ![p] = q]
      BY <1>1, <2>1
    <3>2. q.status = "failed" /\ q.hook = path[p].hook
      BY <1>2, <1>3 DEF EnterState, PathType
    <3>3. q.status # "building"
      BY <3>2
    <3> HIDE DEF q
    <3>4. path'[p] = q /\ \A r \in DOMAIN path : r # p => path'[r] = path[r]
      BY <1>2, <3>1
    <3>5. Hooked' = Hooked
      BY <1>1, <1>3, <3>2, <3>4 DEF Hooked
    <3> QED  BY <1>1, <1>2, <3>1, <3>3, <3>5, OnePathChanges, Zenon
  <2>2. CASE p \notin m_Paths
    <3>1. path' = path
      BY <1>1, <2>2, Zenon
    <3> QED  BY <1>1, <3>1, Zenon DEF Building, Hooked, StatsInv
  <2> QED  BY <2>1, <2>2
<1>7. /\ Cardinality(Building') \in Nat
      /\ Cardinality(Building) <= Cardinality(Building') + 1
  <2>1. Cardinality(Building \ {p}) = IF p \in Building THEN Cardinality(Building) - 1
                                      ELSE Cardinality(Building)
    BY <1>5, FS_RemoveElement
  <2>2. Cardinality(Building \ {p}) \in Nat
    BY <1>5, FS_RemoveElement, FS_CardinalityType
  <2> QED  BY <1>5, <1>6, <2>1, <2>2
<1>8. /\ 0 \in Nat /\ 1 \in Nat
      /\ Cardinality(Building') \in Nat /\ Cardinality(Hooked') \in Nat
      /\ Cardinality(Building) + 0 <= Cardinality(Building') + 0 + 0 + 1
      /\ Cardinality(Hooked') + 0 <= Cardinality(Hooked) + 0
  BY <1>5, <1>6, <1>7
<1> QED  BY <1>4, <1>6, <1>8, StatsStep, Zenon

\* The answer to the pending test is counted as a success while the hook is set,
\* and takes the hook away.
LEMMA LatencyStats ==
  ASSUME IInv, StatsInv, NEW m \in msgs, HandleOwnLatency(m)
  PROVE  StatsInv'
<1>1. keys' = keys /\ m_Paths' = m_Paths
  BY Zenon DEF HandleOwnLatency
<1>2. builder \in BuilderType /\ path \in Seq(PathType) /\ m_Paths \subseteq DOMAIN path
      /\ keys \subseteq DOMAIN path /\ \A r \in DOMAIN path : path[r] \in PathType
  BY EndpointState, Zenon
<1> DEFINE r == m.path
           q == HandlePathLatencyMessage(path[r], m.id)
<1>3. CASE r \notin m_Paths
  <2>1. path' = path /\ builder' = builder
    BY <1>3, Zenon DEF HandleOwnLatency
  <2>2. Counts(builder', builder, 0, 0, 0, 0)
    BY <1>2, <2>1, Counters, Zenon
  <2> QED  BY <1>1, <2>1, <2>2, StatsKept, Zenon
<1>4. ASSUME r \in m_Paths  PROVE StatsInv'
  <2>1. /\ path' = [path EXCEPT ![r] = q]
        /\ builder' = IF AnswersTest(path[r], m.id) /\ path[r].hook THEN HandlePathBuilt(builder)
                      ELSE builder
    BY <1>4, Zenon DEF HandleOwnLatency
  <2>2. r \in DOMAIN path /\ path[r] \in PathType
    BY <1>2, <1>4, Zenon
  <2>3. r \notin keys
    <3>1. r \in Ids
      BY <2>2, EndpointState, Zenon
    <3> QED  BY <1>4, <3>1, Zenon DEF IInv, NothingSent
  <2>4. /\ AnswersTest(path[r], m.id) => q.status = "established" /\ ~q.hook
        /\ ~AnswersTest(path[r], m.id) => q.status = path[r].status /\ q.hook = path[r].hook
    <3>1. m \in MsgType /\ MsgTrue(m) /\ PathTrue(r, path[r])
      BY <2>2, EndpointState, Zenon
    <3>2. m.id \in Nat /\ m.id > 0
      BY <3>1, MsgFields DEF MsgTrue, HandleOwnLatency
    <3> QED  BY <2>2, <3>1, <3>2, LatencyTrue, Zenon DEF AnswersTest
  <2> HIDE DEF q, r
  <2>5. path'[r] = q /\ \A s \in DOMAIN path : s # r => path'[s] = path[s]
    BY <2>1, <2>2
  <2>6. CASE ~AnswersTest(path[r], m.id)
    <3>1. Counts(builder', builder, 0, 0, 0, 0)
      BY <1>2, <2>1, <2>6, Counters, Zenon
    <3>2. \A s \in m_Paths \cup keys : path'[s].status = path[s].status /\ path'[s].hook = path[s].hook
      BY <1>2, <2>4, <2>5, <2>6, Zenon
    <3> QED  BY <1>1, <3>1, <3>2, StatsKept, Zenon
  <2>7. CASE AnswersTest(path[r], m.id)
    <3>1. q.status # "building" /\ ~q.hook
      BY <2>4, <2>7
    <3>2. /\ Building' = Building \ {r} /\ Hooked' = Hooked \ {r}
          /\ \A s \in keys' : path'[s].status = "building"
          /\ \A s \in m_Paths' \cup keys' : path'[s].status = "building" => path'[s].hook
      BY <1>1, <2>1, <2>2, <2>3, <3>1, OnePathChanges, Zenon
    <3>3. /\ IsFiniteSet(Building) /\ Cardinality(Building) \in Nat
          /\ IsFiniteSet(Hooked) /\ Cardinality(Hooked) \in Nat
      BY StatsFinite, Zenon
    <3>4. /\ Cardinality(Building \ {r}) =
                IF r \in Building THEN Cardinality(Building) - 1 ELSE Cardinality(Building)
          /\ Cardinality(Hooked \ {r}) =
                IF r \in Hooked THEN Cardinality(Hooked) - 1 ELSE Cardinality(Hooked)
          /\ Cardinality(Building \ {r}) \in Nat /\ Cardinality(Hooked \ {r}) \in Nat
      BY <3>3, FS_RemoveElement, FS_CardinalityType, Zenon
    <3>5. /\ r \in Hooked <=> path[r].hook
          /\ r \in Building => r \in Hooked
      BY <1>4, Zenon DEF Building, Hooked, StatsInv
    <3>6. CASE path[r].hook
      <4>1. Counts(builder', builder, 0, 1, 0, 0)
        BY <1>2, <2>1, <2>7, <3>6, Counters, Zenon
      <4>2. /\ 0 \in Nat /\ 1 \in Nat
            /\ Cardinality(Building') \in Nat /\ Cardinality(Hooked') \in Nat
            /\ Cardinality(Building) + 0 <= Cardinality(Building') + 1 + 0 + 0
            /\ Cardinality(Hooked') + 1 <= Cardinality(Hooked) + 0
        BY <3>2, <3>3, <3>4, <3>5, <3>6
      <4> QED  BY <3>2, <4>1, <4>2, StatsStep, Zenon
    <3>7. CASE ~path[r].hook
      <4>1. Counts(builder', builder, 0, 0, 0, 0)
        BY <1>2, <2>1, <3>7, Counters, Zenon
      <4>2. /\ 0 \in Nat
            /\ Cardinality(Building') \in Nat /\ Cardinality(Hooked') \in Nat
            /\ Cardinality(Building) + 0 <= Cardinality(Building') + 0 + 0 + 0
            /\ Cardinality(Hooked') + 0 <= Cardinality(Hooked) + 0
        BY <3>2, <3>3, <3>4, <3>5, <3>7
      <4> QED  BY <3>2, <4>1, <4>2, StatsStep, Zenon
    <3> QED  BY <3>6, <3>7
  <2> QED  BY <2>6, <2>7
<1> QED  BY <1>3, <1>4

\* What Path::Tick makes of the status and the hook
LEMMA TickStatus ==
  ASSUME NEW q \in PathType
  PROVE  /\ TickPath(q).hook = q.hook
         /\ TickPath(q).status = "building" <=> q.status = "building" /\ ~BuildTimedOut(q)
<1>1. /\ EnterState(q, "expired").hook = q.hook /\ EnterState(q, "expired").status = "expired"
      /\ EnterState(q, "timeout").hook = q.hook /\ EnterState(q, "timeout").status = "timeout"
      /\ SendLatencyTest(q).hook = q.hook /\ SendLatencyTest(q).status = q.status
  BY DEF EnterState, SendLatencyTest, PathType
<1>2. CASE BuildTimedOut(q)
  <2>1. TickPath(q) = EnterState(q, "expired")
    BY <1>2, Zenon DEF TickPath
  <2>2. "expired" # "building"
    OBVIOUS
  <2> QED  BY <1>1, <1>2, <2>1, <2>2, Zenon
<1>3. CASE ~BuildTimedOut(q) /\ TestDue(q)
  <2>1. TickPath(q) = SendLatencyTest(q)
    BY <1>3, Zenon DEF TickPath
  <2> QED  BY <1>1, <1>3, <2>1, Zenon
<1>4. CASE ~BuildTimedOut(q) /\ ~TestDue(q) /\ Dead(q)
  <2>1. TickPath(q) = EnterState(q, "timeout")
    BY <1>4, Zenon DEF TickPath
  <2>2. q.status # "building" /\ "timeout" # "building"
    BY <1>4 DEF Dead
  <2> QED  BY <1>1, <2>1, <2>2, Zenon
<1>5. CASE ~BuildTimedOut(q) /\ ~TestDue(q) /\ ~Dead(q)
  <2>1. TickPath(q) = q
    BY <1>5, Zenon DEF TickPath
  <2> QED  BY <1>5, <2>1, Zenon
<1> QED  BY <1>2, <1>3, <1>4, <1>5, Zenon

\* Router::Tick counts the builds it gives up; it drops none that is building.
LEMMA TickStats ==
  ASSUME IInv, StatsInv, NEW build \in BOOLEAN, RouterTick(build)
  PROVE  StatsInv'
<1> DEFINE timedOut == {p \in Staying : BuildTimedOut(path[p])}
           n == Cardinality(timedOut)
<1>1. /\ m_Paths' = Staying
      /\ builder' = HandlePathBuildTimeouts(IF build THEN Build(builder) ELSE builder, n)
  BY Zenon DEF RouterTick, Staying
<1>2. builder \in BuilderType /\ m_Paths \subseteq DOMAIN path /\ keys \subseteq DOMAIN path
      /\ DOMAIN path \subseteq Ids /\ Len(path) \in Nat /\ DOMAIN path = 1..Len(path)
      /\ \A p \in DOMAIN path : path[p] \in PathType
  BY EndpointState, Zenon
<1>3. Staying \subseteq m_Paths
  BY Zenon DEF Staying
<1>4. Building \subseteq Staying
  BY DEF Building, Staying, Expired
<1>5. timedOut \subseteq Building
  BY <1>3 DEF Building, BuildTimedOut
<1>6. \A p \in Staying : /\ path'[p].hook = path[p].hook
                         /\ path'[p].status = "building" <=>
                              path[p].status = "building" /\ ~BuildTimedOut(path[p])
  <2> SUFFICES ASSUME NEW p \in Staying
               PROVE  /\ path'[p].hook = path[p].hook
                      /\ path'[p].status = "building" <=>
                           path[p].status = "building" /\ ~BuildTimedOut(path[p])
    BY Zenon
  <2>1. p \in DOMAIN path /\ path[p] \in PathType
    BY <1>2, <1>3, Zenon
  <2>2. Ticked[p] = TickPath(path[p])
    BY <2>1, Zenon DEF Ticked
  <2>3. path'[p] = TickPath(path[p])
    BY <2>1, <2>2, TickState, Zenon
  <2> QED  BY <2>1, <2>3, TickStatus, Zenon
<1>7. ASSUME NEW p \in keys'
      PROVE  path'[p].status = "building" /\ path'[p].hook
  <2>1. CASE p \in keys
    <3>1. p \in DOMAIN path /\ p \notin m_Paths
      BY <1>2, <2>1, Zenon DEF IInv, NothingSent
    <3>2. Ticked[p] = path[p]
      BY <1>3, <3>1, Zenon DEF Ticked
    <3>3. path'[p] = path[p]
      BY <3>1, <3>2, TickState, Zenon
    <3> QED  BY <2>1, <3>3, Zenon DEF StatsInv
  <2>2. CASE p \notin keys
    <3>1. p \in DOMAIN path' \ DOMAIN path
      BY <1>7, <2>2, TickState, Zenon
    <3>2. path'[p] = NewPath
      BY <3>1, TickState, Zenon
    <3> QED  BY <3>2 DEF NewPath
  <2> QED  BY <2>1, <2>2
<1>8. /\ \A p \in keys' : path'[p].status = "building"
      /\ \A p \in m_Paths' \cup keys' : path'[p].status = "building" => path'[p].hook
  BY <1>1, <1>3, <1>6, <1>7, Zenon DEF StatsInv
<1>9. Building' = Building \ timedOut
  BY <1>1, <1>3, <1>4, <1>6 DEF Building
<1>10. Hooked' \subseteq Hooked
  BY <1>1, <1>3, <1>6 DEF Hooked
<1> HIDE DEF timedOut
<1>11. /\ IsFiniteSet(Building) /\ Cardinality(Building) \in Nat
       /\ IsFiniteSet(Hooked) /\ Cardinality(Hooked) \in Nat
  BY StatsFinite, Zenon
<1>12. n \in Nat
  BY <1>5, <1>11, FS_Subset, FS_CardinalityType, Zenon
<1>13. Cardinality(Building') = Cardinality(Building) - n /\ Cardinality(Building') \in Nat
  <2>1. Building \cap timedOut = timedOut
    BY <1>5
  <2>2. /\ Cardinality(Building \ timedOut) = Cardinality(Building) - Cardinality(Building \cap timedOut)
        /\ Cardinality(Building \ timedOut) \in Nat
    BY <1>11, FS_Difference, FS_CardinalityType, Zenon
  <2> QED  BY <1>9, <2>1, <2>2, Zenon
<1>14. Cardinality(Hooked') \in Nat /\ Cardinality(Hooked') <= Cardinality(Hooked)
  BY <1>10, <1>11, FS_Subset, FS_CardinalityType, Zenon
<1> HIDE DEF n
<1>15. Counts(builder', builder, 0, 0, n, 0)
  <2>1. CASE build
    BY <1>1, <1>2, <1>12, <2>1, TimeoutCounters, Zenon
  <2>2. CASE ~build
    BY <1>1, <1>2, <1>12, <2>2, TimeoutCounters, Zenon
  <2> QED  BY <2>1, <2>2
<1>16. /\ 0 \in Nat
       /\ Cardinality(Building) + 0 <= Cardinality(Building') + 0 + n + 0
       /\ Cardinality(Hooked') + 0 <= Cardinality(Hooked) + 0
  BY <1>11, <1>12, <1>13, <1>14
<1> QED  BY <1>8, <1>12, <1>13, <1>14, <1>15, <1>16, StatsStep, Zenon

\* HandlePathConfirmMessage and the clock leave the status and the hook alone.
LEMMA SameStatus ==
  ASSUME NEW q \in PathType
  PROVE  /\ Confirm(q).status = q.status /\ Confirm(q).hook = q.hook
         /\ PathOlder(q).status = q.status /\ PathOlder(q).hook = q.hook
<1>1. Confirm(q).status = q.status /\ Confirm(q).hook = q.hook
  BY DEF Confirm, SendLatencyTest, PathType
<1>2. PathOlder(q).status = q.status /\ PathOlder(q).hook = q.hook
  BY DEF PathOlder, PathType
<1> QED  BY <1>1, <1>2

LEMMA ConfirmStats ==
  ASSUME IInv, StatsInv, RunConfirm
  PROVE  StatsInv'
<1> DEFINE p == Head(logic)[1]
<1>1. /\ \/ path' = [path EXCEPT ![p] = Confirm(path[p])]
         \/ path' = path
      /\ builder' = builder /\ keys' = keys /\ m_Paths' = m_Paths
  BY Zenon DEF RunConfirm
<1>2. p \in DOMAIN path
  BY FirstClosure, Zenon DEF RunConfirm
<1>3. builder \in BuilderType /\ m_Paths \subseteq DOMAIN path /\ keys \subseteq DOMAIN path
      /\ \A r \in DOMAIN path : path[r] \in PathType
  BY EndpointState, Zenon
<1> HIDE DEF p
<1>4. \A r \in DOMAIN path : path'[r] = path[r] \/ path'[r] = Confirm(path[r])
  BY <1>1
<1>5. \A r \in m_Paths \cup keys : path'[r].status = path[r].status /\ path'[r].hook = path[r].hook
  BY <1>3, <1>4, SameStatus, Zenon
<1>6. Counts(builder', builder, 0, 0, 0, 0)
  BY <1>1, <1>3, Counters, Zenon
<1> QED  BY <1>1, <1>5, <1>6, StatsKept, Zenon

LEMMA ClockStats ==
  ASSUME IInv, StatsInv, Clock
  PROVE  StatsInv'
<1>1. /\ builder' = [builder EXCEPT !.lastBuild = Older(@, MaxInterval)]
      /\ path' = [p \in DOMAIN path |->
                    IF p \in keys \cup m_Paths THEN PathOlder(path[p]) ELSE path[p]]
      /\ keys' = keys /\ m_Paths' = m_Paths
  BY Zenon DEF Clock
<1>2. builder \in BuilderType /\ m_Paths \subseteq DOMAIN path /\ keys \subseteq DOMAIN path
      /\ \A r \in DOMAIN path : path[r] \in PathType
  BY EndpointState, Zenon
<1>3. \A r \in DOMAIN path : path'[r] = path[r] \/ path'[r] = PathOlder(path[r])
  BY <1>1, Zenon
<1>4. \A r \in m_Paths \cup keys : path'[r].status = path[r].status /\ path'[r].hook = path[r].hook
  BY <1>2, <1>3, SameStatus, Zenon
<1>5. Counts(builder', builder, 0, 0, 0, 0)
  BY <1>1, <1>2, Counters, Zenon
<1> QED  BY <1>1, <1>4, <1>5, StatsKept, Zenon

\* The builder's counters and the paths do not change, but for Builder::Stop.
LEMMA RestStats ==
  ASSUME IInv, StatsInv, path' = path, keys' = keys, m_Paths' = m_Paths,
         builder' = builder \/ builder' = [builder EXCEPT !.run = FALSE]
  PROVE  StatsInv'
<1>1. builder \in BuilderType
  BY EndpointState, Zenon
<1>2. Counts(builder', builder, 0, 0, 0, 0)
  BY <1>1, Counters, Zenon
<1> QED  BY <1>2, StatsKept, Zenon

LEMMA StatsNext ==
  ASSUME IInv, StatsInv, [Next]_vars
  PROVE  StatsInv'
<1>1. ASSUME NEW m \in msgs, \/ HandleOwnLRSM(m) \/ HandleOwnLatency(m) \/ HandleDecrypted(m)
                             \/ HandleLRSM(m) \/ Relay(m)
      PROVE  StatsInv'
  <2>1. HandleOwnLatency(m) \/ UNCHANGED <<builder, path, keys, m_Paths>>
    BY <1>1, Zenon DEF HandleOwnLRSM, HandleDecrypted, HandleLRSM, Relay
  <2> QED  BY <2>1, LatencyStats, RestStats, Zenon
<1>2. ASSUME NEW p \in Ids, NEW k \in 1..Hops, HopStep(p, k)  PROVE StatsInv'
  <2>1. UNCHANGED <<builder, path, keys, m_Paths>>
    BY <1>2, Zenon DEF HopStep, SendLRCM, OnForwardLRCMResult, SetSelfDestruct, ExpireHop
  <2> QED  BY <2>1, RestStats, Zenon
<1>3. ASSUME NEW p \in Ids, SendPathConfirm(p)  PROVE StatsInv'
  BY <1>3, RestStats, Zenon DEF SendPathConfirm
<1>4. CASE Stop
  BY <1>4, RestStats, Zenon DEF Stop
<1>5. CASE UNCHANGED vars
  <2>1. builder' = builder /\ path' = path /\ keys' = keys /\ m_Paths' = m_Paths
    BY <1>5 DEF vars
  <2> QED  BY <2>1, RestStats, Zenon
<1> QED
  BY <1>1, <1>2, <1>3, <1>4, <1>5, TickStats, KeysStats, ConfirmStats, FailStats, ClockStats,
     Zenon DEF Next

LEMMA StatsInit ==
  ASSUME Init
  PROVE  StatsInv
<1>1. builder = NewBuilder /\ keys = {} /\ m_Paths = {}
  BY DEF Init
<1>2. Cardinality(Building) = 0 /\ Cardinality(Hooked) = 0
  <2>1. Building = {} /\ Hooked = {}
    BY <1>1 DEF Building, Hooked
  <2> QED  BY <2>1, FS_EmptySet, Zenon
<1>3. /\ builder.attempts = 0 /\ builder.success = 0 /\ builder.timeouts = 0
      /\ builder.fails = 0
  BY <1>1 DEF NewBuilder
<1> QED  BY <1>1, <1>2, <1>3 DEF StatsInv

\* A confirmed path keeps all its hops until it expires, unless a router was
\* told that its forwarding of the build had failed (HandleLRSM, ExpirePaths,
\* OnForwardLRCMResult); the back-off stays within its limits.
THEOREM HopsKept == Spec => []HopsOutlivePath
<1>1. Init => IInv
  BY InitInv
<1>2. IInv /\ [Next]_vars => IInv'
  BY NextInv
<1>3. IInv => HopsOutlivePath
  BY InvImplies
<1> QED  BY <1>1, <1>2, <1>3, PTL DEF Spec

\* A build fails only if a hop could not extend it or was told so: the records
\* of the hops on the way back neither hide nor fake a result (HandleLRSM).
THEOREM FailuresTrue == Spec => []FailuresAreReal
<1>1. Init => IInv
  BY InitInv
<1>2. IInv /\ [Next]_vars => IInv'
  BY NextInv
<1>3. IInv => FailuresAreReal
  BY InvImplies
<1> QED  BY <1>1, <1>2, <1>3, PTL DEF Spec

\* The build statistics account for every attempt: each one that is no longer
\* building was counted as a success (HandlePathBuilt), a failure or a timeout, and
\* as a success at most once, whatever late answers it got.
THEOREM StatsAccounted == Spec => []StatsAddUp
<1>1. Init => IInv /\ StatsInv
  BY InitInv, StatsInit
<1>2. IInv /\ StatsInv /\ [Next]_vars => IInv' /\ StatsInv'
  BY NextInv, StatsNext
<1>3. IInv /\ StatsInv => StatsAddUp
  <2> SUFFICES ASSUME IInv, StatsInv  PROVE StatsAddUp
    OBVIOUS
  <2>1. builder.attempts \in Nat /\ builder.success \in Nat /\ builder.timeouts \in Nat
        /\ builder.fails \in Nat
    BY EndpointState DEF BuilderType
  <2>2. Cardinality(Building) \in Nat /\ Cardinality(Hooked) \in Nat
    BY StatsFinite
  <2>3. InStatus(m_Paths, "building") = Cardinality(Building)
    BY Zenon DEF InStatus, Building
  <2>4. /\ builder.attempts
             <= builder.success + builder.timeouts + builder.fails + Cardinality(Building)
        /\ builder.success + Cardinality(Hooked) <= builder.attempts
    BY Zenon DEF StatsInv
  <2> QED  BY <2>1, <2>2, <2>3, <2>4 DEF StatsAddUp
<1> QED  BY <1>1, <1>2, <1>3, PTL DEF Spec
=============================================================================
