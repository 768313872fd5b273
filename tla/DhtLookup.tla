------------------------------ MODULE DhtLookup -----------------------------
(***************************************************************************)
(* Router lookups and network exploration in the DHT (llarp/dht): every    *)
(* router keeps its pending router lookups and explore jobs in two         *)
(* TXHolders, forwards the lookups it cannot answer to a closer peer, and  *)
(* is cleaned up by a timer.  Messages between routers are delivered in    *)
(* any order, late or never (a lost message is one that stays in msgs);    *)
(* the peers run this code: an answer holds one contact or none.           *)
(*                                                                         *)
(* An element of Asks is one request made of a router by its own node: by  *)
(* RCLookupHandler::GetRC (via "handler") or by a client at the far end of *)
(* a path (via "path").  A contact is represented by its key; a reply's    *)
(* list of contacts by a set with at most one element.                     *)
(***************************************************************************)
EXTENDS TXHolder, FiniteSets

CONSTANTS Routers,      \* the routers that run this code
          Keys,         \* router ids, those of routers that are gone included
          Dist(_, _),   \* XOR of two keys, as a number
          Transit,      \* routers with AllowTransit
          Allowed,      \* keys ConnectionToRouterAllowed accepts
          Asks,
          InitNodes, FirstId,
          InitDbs,      \* what the nodedbs may hold at the start
          Churn,        \* pairs <<r, p>>: sessions of r that come and go
          Explorers,    \* bound: the routers that explore,
          MaxExplores,  \* and how many rounds they make in all
          EmptyRC,      \* a default-constructed RouterContact
          NoPath        \* in place of contacts: not sent, the path is gone

ASSUME KeysAssumption ==
  /\ Routers \subseteq Keys /\ IsFiniteSet(Routers)
  /\ \A a, b \in Keys : Dist(a, b) \in Nat
  /\ \A a, b \in Keys : Dist(a, b) = 0 <=> a = b
  /\ EmptyRC \notin Keys /\ NoPath \notin Keys /\ NoPath # EmptyRC

ASSUME InitAssumption ==
  /\ InitNodes \in [Routers -> SUBSET Routers]
  /\ \A r \in Routers : r \notin InitNodes[r]
  /\ InitDbs \subseteq [Routers -> SUBSET Keys]
  /\ FirstId \in [Routers -> Nat]
  /\ Churn \subseteq {c \in Routers \X Routers : c[1] # c[2]}
  /\ Explorers \subseteq Routers
  /\ MaxExplores \in Nat

ASSUME AsksAssumption ==
  \A a \in Asks : a.at \in Routers /\ a.key \in Keys /\ a.via \in {"handler", "path"}

VARIABLES nodes,      \* routers to ask, by router (Bucket _nodes)
          db,         \* keys in the nodedb, by router
          inserting,  \* contacts handed to the disk thread: pairs <<r, key>>
          ids,        \* last transaction id used, by router
          lookups,    \* pendingRouterLookups, by router
          explores,   \* pendingExploreLookups, by router
          msgs,       \* messages in flight
          issued,     \* the asks made so far
          answers,    \* for each ask, the lists of contacts it was answered with,
                      \* {NoPath} for an answer that was not sent
          explored    \* explore rounds so far

vars == <<nodes, db, inserting, ids, lookups, explores, msgs, issued, answers, explored>>

----------------------------------------------------------------------------
\* FindClosest; FindCloseExcluding, when S leaves out what it excludes.
Closest(S, k) == CHOOSE p \in S : \A q \in S : Dist(p, k) <= Dist(q, k)

NoHandler == [via |-> "none"]
ExploreHandler == [via |-> "explore"]

Find(r, o, k) == [type |-> "find", from |-> r, to |-> o.node, txid |-> o.txid, key |-> k]
ExploreMsg(r, o) == [type |-> "explore", from |-> r, to |-> o.node, txid |-> o.txid]
Got(r, to, txid, R) == [type |-> "got", from |-> r, to |-> to, txid |-> txid, R |-> R, N |-> {}]
GotNear(r, to, txid, N) == [type |-> "got", from |-> r, to |-> to, txid |-> txid, R |-> {}, N |-> N]

\* A request: the peer to ask and the transaction that waits for its answer.
Request(r, peer, target, whoasked, handler) ==
  [peer |-> peer,
   tx   |-> [target |-> target, asked |-> {r}, whoasked |-> whoasked, handler |-> handler]]

\* Request i of the sequence s takes the i-th next id.
Transactions(r, s) ==
  [o \in {[node |-> s[i].peer, txid |-> ids[r] + i] : i \in DOMAIN s} |->
     s[o.txid - ids[r]].tx]

Enumerations(S) ==
  {s \in [1..Cardinality(S) -> S] : \A i, j \in DOMAIN s : i # j => s[i] # s[j]}

Init ==
  /\ nodes = InitNodes
  /\ db \in InitDbs
  /\ inserting = {}
  /\ ids = FirstId
  /\ lookups = [r \in Routers |-> EmptyHolder]
  /\ explores = [r \in Routers |-> EmptyHolder]
  /\ msgs = {}
  /\ issued = {}
  /\ answers = [a \in Asks |-> {}]
  /\ explored = 0

----------------------------------------------------------------------------
(* Context::LookupRouterRecursive and LookupRouterForPath for the requests *)
(* of s, with h the holder they are added to; the started ones send a      *)
(* FindRouterMessage.                                                      *)
LookupRouters(r, h, s) ==
  LET new == Transactions(r, s)
  IN /\ lookups' = [lookups EXCEPT ![r] = NewTX(h, new)]
     /\ ids' = [ids EXCEPT ![r] = @ + Cardinality(DOMAIN s)]

Requests(r, h, s) ==
  LET new == Transactions(r, s)
  IN {Find(r, o, new[o].target) : o \in Started(h, new)}

\* LocalRouterLookup::SendReply sends nothing when the path is gone, and keeps the
\* default contact it starts from: no contact found is older than that one.
PathResult(values, gone) ==
  IF gone THEN {NoPath} ELSE IF values = {} THEN {} ELSE {EmptyRC}

Result(handler, values, gone) ==
  IF handler.via = "path" THEN PathResult(values, gone) ELSE values

\* Replies of the informed transactions of h that go to other routers.
RemoteReplies(r, h, informed, values) ==
  {Got(r, h.tx[o].whoasked.node, h.tx[o].whoasked.txid, values) :
     o \in {p \in informed : h.tx[p].handler = NoHandler /\ h.tx[p].whoasked.node # r}}

\* Results handed to the asks that the informed transactions of h serve; gone are
\* the asks whose path is gone.
Answered(h, informed, values, gone) ==
  [a \in Asks |->
     answers[a] \cup
       {Result(a, values, a \in gone) : o \in {p \in informed : h.tx[p].handler = a}}]

\* RecursiveRouterLookup::SendReply caches what was found.
StoreRC(r, h, informed, values) ==
  IF \E o \in informed : h.tx[o].handler.via # "path"
    THEN {<<r, k>> : k \in values} ELSE {}

(* TXHolder::Inform on r's router lookups, for each of keys; rest are the  *)
(* messages the handler leaves in flight.                                  *)
InformLookups(r, keys, values, rest) ==
  LET h == lookups[r]
      informed == Informed(h, keys)
  IN /\ lookups' = [lookups EXCEPT ![r] = Inform(h, keys)]
     /\ msgs' = rest \cup RemoteReplies(r, h, informed, values)
     /\ \E gone \in SUBSET {a \in Asks : a.via = "path"} :
          answers' = Answered(h, informed, values, gone)
     /\ inserting' = inserting \cup StoreRC(r, h, informed, values)

----------------------------------------------------------------------------
\* A node's own request: Context::LookupRouter.
AskHandler(a) ==
  LET r == a.at
      s == <<Request(r, Closest(nodes[r], a.key), a.key, [node |-> r, txid |-> 0], a)>>
  IN /\ a.via = "handler"
     /\ IF nodes[r] = {}
          THEN /\ answers' = [answers EXCEPT ![a] = @ \cup {{}}]
               /\ UNCHANGED <<ids, lookups, msgs>>
          ELSE /\ LookupRouters(r, lookups[r], s)
               /\ msgs' = msgs \cup Requests(r, lookups[r], s)
               /\ UNCHANGED answers

\* A request that came over a path: RelayedFindRouterMessage::HandleMessage.
AskPath(a) ==
  LET r == a.at
      peer == Closest(nodes[r], a.key)
      s == <<Request(r, peer, a.key, [node |-> r, txid |-> 0], a)>>
      Reply(R) == /\ answers' = [answers EXCEPT ![a] = @ \cup {R}]
                  /\ UNCHANGED <<ids, lookups, msgs>>
  IN /\ a.via = "path"
     /\ IF a.key = r THEN Reply({r}) \/ Reply({NoPath})
        ELSE IF a.key \notin Allowed THEN Reply({})
        ELSE IF a.key \in db[r] THEN Reply({a.key})
        ELSE IF nodes[r] = {} THEN Reply({})
        ELSE /\ LookupRouters(r, lookups[r], s)
             /\ msgs' = msgs \cup Requests(r, lookups[r], s)
             /\ UNCHANGED answers

Ask(a) ==
  /\ a \notin issued
  /\ issued' = issued \cup {a}
  /\ AskHandler(a) \/ AskPath(a)
  /\ UNCHANGED <<nodes, db, inserting, explores, explored>>

----------------------------------------------------------------------------
Receive(m) == m \in msgs /\ msgs' = msgs \ {m}

\* Mutant: the next peer need not be closer to the target.
Forward_NoDistance(r, m) ==
  LET candidates == nodes[r] \ {m.from, r}
  IN IF candidates # {}
       THEN <<Request(r, Closest(candidates, m.key), m.key,
                      [node |-> m.from, txid |-> m.txid], NoHandler)>>
       ELSE <<>>

\* The sequence of requests, at most one, with which LookupRouterRelayed asks on.
Forward(r, m) ==
  LET candidates == nodes[r] \ {m.from, r}
      next == Closest(candidates, m.key)
  IN IF /\ candidates # {}
        /\ next = m.key \/ Dist(next, m.key) < Dist(r, m.key)
       THEN <<Request(r, next, m.key, [node |-> m.from, txid |-> m.txid], NoHandler)>>
       ELSE <<>>

\* FindRouterMessage::HandleMessage, not exploritory, with LookupRouterRelayed.
HandleFindRouter(m) ==
  LET r == m.to
      s == Forward(r, m)
      Reply(R) == /\ msgs' = (msgs \ {m}) \cup {Got(r, m.from, m.txid, R)}
                  /\ UNCHANGED <<ids, lookups>>
  IN /\ m \in msgs
     /\ m.type = "find"
     /\ IF r \notin Transit \/ HasPendingLookupFrom(lookups[r], [node |-> m.from, txid |-> m.txid])
          THEN Receive(m) /\ UNCHANGED <<ids, lookups>>
        ELSE IF m.key \notin Allowed THEN Reply({})
        ELSE IF m.key \in db[r] \cup {r} THEN Reply({m.key})
        ELSE IF s = <<>> THEN Reply({})
        ELSE /\ LookupRouters(r, lookups[r], s)
             /\ msgs' = (msgs \ {m}) \cup Requests(r, lookups[r], s)
     /\ UNCHANGED <<nodes, db, inserting, explores, issued, answers, explored>>

\* GetManyNearExcluding for a random target: the sets of routers it may return.
NearSets(r, requester) ==
  LET N == IF Cardinality(nodes[r]) < 4 THEN Cardinality(nodes[r]) ELSE 4
  IN {S \in SUBSET (nodes[r] \ {r, requester}) : Cardinality(S) = N /\ N > 0}

\* FindRouterMessage::HandleMessage, exploritory.
HandleExplore(m) ==
  LET r == m.to
      near == NearSets(r, m.from)
  IN /\ m \in msgs
     /\ m.type = "explore"
     /\ IF \/ r \notin Transit
           \/ HasPendingLookupFrom(lookups[r], [node |-> m.from, txid |-> m.txid])
           \/ near = {}
          THEN Receive(m)
          ELSE \E N \in near : msgs' = (msgs \ {m}) \cup {GotNear(r, m.from, m.txid, N)}
     /\ UNCHANGED <<nodes, db, inserting, ids, lookups, explores, issued, answers, explored>>

\* The lookups of the routers found by an explore job; an element of s is a pair of
\* the job and a router's key.
FoundLookups(r, s) ==
  [i \in DOMAIN s |->
     Request(r, Closest(nodes[r], s[i][2]), s[i][2], [node |-> r, txid |-> 0], ExploreHandler)]

\* GotRouterMessage::HandleMessage for an explore job: every router found is
\* looked up, once for every job that was waiting for this peer.
GotExplore(m) ==
  LET r == m.to
      h == explores[r]
      found == IF nodes[r] = {} THEN {} ELSE Informed(h, {m.from}) \X m.N
  IN \E s \in Enumerations(found) :
       LET t == FoundLookups(r, s)
       IN /\ explores' = [explores EXCEPT ![r] = Inform(h, {m.from})]
          /\ LookupRouters(r, lookups[r], t)
          /\ msgs' = (msgs \ {m}) \cup Requests(r, lookups[r], t)
          /\ UNCHANGED <<inserting, answers>>

\* The contacts that RecursiveRouterLookup::Validate accepts: a contact may
\* have expired on its way.
Validated(R) == {R, {}}

\* TXHolder::NotFound and TX::AskNextPeer: the answer was empty.
GotNothing(m) ==
  LET r == m.to
      o == [node |-> m.from, txid |-> m.txid]
      h == lookups[r]
      t == h.tx[o]
      asked == t.asked \cup {m.from}
      candidates == nodes[r] \ asked
      peer == Closest(candidates, t.target)
      h2 == [h EXCEPT !.tx[o].asked = asked \cup {peer}]
      s == <<Request(r, peer, t.target, t.whoasked,
                     IF t.handler.via = "path" THEN NoHandler ELSE t.handler)>>
  IN IF candidates = {} \/ Dist(m.from, t.target) < Dist(peer, t.target)
       THEN InformLookups(r, {t.target}, {}, msgs \ {m}) /\ UNCHANGED ids
       ELSE /\ LookupRouters(r, h2, s)
            /\ msgs' = (msgs \ {m}) \cup Requests(r, h2, s)
            /\ UNCHANGED <<inserting, answers>>

\* GotRouterMessage::HandleMessage.
HandleGotRouter(m) ==
  LET r == m.to
      o == [node |-> m.from, txid |-> m.txid]
  IN /\ m \in msgs
     /\ m.type = "got"
     /\ IF HasPendingLookupFrom(explores[r], o)
          THEN GotExplore(m)
        ELSE /\ IF HasPendingLookupFrom(lookups[r], o)
                  THEN IF m.R = {}
                         THEN GotNothing(m)
                         ELSE /\ \E values \in Validated(m.R) :
                                   InformLookups(r, m.R, values, msgs \ {m})
                              /\ UNCHANGED ids
                  ELSE Receive(m) /\ UNCHANGED <<inserting, ids, lookups, answers>>
             /\ UNCHANGED explores
     /\ UNCHANGED <<nodes, db, issued, explored>>

----------------------------------------------------------------------------
\* The explore jobs that ask the peers of s.
ExploreJobs(r, s) ==
  [i \in DOMAIN s |->
     [peer |-> s[i],
      tx   |-> [target |-> s[i], asked |-> {}, whoasked |-> [node |-> r, txid |-> 0],
                handler |-> NoHandler]]]

(* handle_explore_timer: Context::Explore and ExploreNetworkVia for the    *)
(* peers in S, as many as there are connected routers, at most four; those *)
(* are not the routers of nodes, and GetManyRandom refuses when nodes has  *)
(* fewer.                                                                  *)
Explore(r, S) ==
  /\ explored < MaxExplores
  /\ explored' = explored + 1
  /\ Cardinality(S) \in 1..4
  /\ \E s \in Enumerations(S) :
       LET new == Transactions(r, ExploreJobs(r, s))
       IN /\ explores' = [explores EXCEPT ![r] = NewTX(@, new)]
          /\ ids' = [ids EXCEPT ![r] = @ + Cardinality(S)]
          /\ msgs' = msgs \cup {ExploreMsg(r, o) : o \in Started(explores[r], new)}
  /\ UNCHANGED <<nodes, db, inserting, lookups, issued, answers>>

\* Mutant: the explore jobs are not expired.
CleanupTX_NoExplores(r) ==
  /\ ExpiredKeys(lookups[r]) # {}
  /\ InformLookups(r, ExpiredKeys(lookups[r]), {}, msgs)
  /\ UNCHANGED <<nodes, db, ids, explores, issued, explored>>

\* Context::CleanupTX, from handle_cleaner_timer (the firings that find nothing
\* expired change nothing).
CleanupTX(r) ==
  /\ ExpiredKeys(lookups[r]) # {} \/ ExpiredKeys(explores[r]) # {}
  /\ InformLookups(r, ExpiredKeys(lookups[r]), {}, msgs)
  /\ explores' = [explores EXCEPT ![r] = Inform(@, ExpiredKeys(@))]
  /\ UNCHANGED <<nodes, db, ids, issued, explored>>

\* The disk thread has stored a contact (NodeDB::InsertAsync).
Inserted(r, k) ==
  /\ <<r, k>> \in inserting
  /\ inserting' = inserting \ {<<r, k>>}
  /\ db' = [db EXCEPT ![r] = @ \cup {k}]
  /\ UNCHANGED <<nodes, ids, lookups, explores, msgs, issued, answers, explored>>

\* A session of r comes up (PutRCNodeAsync, PutNode) ...
PutNode(r, p) ==
  /\ <<r, p>> \in Churn
  /\ p \notin nodes[r]
  /\ nodes' = [nodes EXCEPT ![r] = @ \cup {p}]
  /\ UNCHANGED <<db, inserting, ids, lookups, explores, msgs, issued, answers, explored>>

\* ... or is closed (Router::SessionClosed).
DelNode(r, p) ==
  /\ <<r, p>> \in Churn
  /\ p \in nodes[r]
  /\ nodes' = [nodes EXCEPT ![r] = @ \ {p}]
  /\ UNCHANGED <<db, inserting, ids, lookups, explores, msgs, issued, answers, explored>>

\* The clock moves on, while that makes a difference to a timeout.
Tick ==
  /\ \E r \in Routers : Age(lookups[r]) # lookups[r] \/ Age(explores[r]) # explores[r]
  /\ lookups' = [r \in Routers |-> Age(lookups[r])]
  /\ explores' = [r \in Routers |-> Age(explores[r])]
  /\ UNCHANGED <<nodes, db, inserting, ids, msgs, issued, answers, explored>>

Timers == Tick \/ \E r \in Routers : CleanupTX(r)

Next ==
  \/ \E a \in Asks : Ask(a)
  \/ \E m \in msgs : HandleFindRouter(m) \/ HandleExplore(m) \/ HandleGotRouter(m)
  \/ \E r \in Explorers : \E S \in SUBSET nodes[r] : Explore(r, S)
  \/ \E r \in Routers, k \in Keys : Inserted(r, k)
  \/ \E r, p \in Routers : PutNode(r, p) \/ DelNode(r, p)
  \/ Timers

Spec == Init /\ [][Next]_vars

\* The clock and the cleanup timers do not stop; nothing else has to happen.
FairSpec == Spec /\ WF_vars(Timers)

----------------------------------------------------------------------------
Owners == [node : Routers, txid : Nat]

Handlers == Asks \cup {NoHandler, ExploreHandler}

Transaction ==
  [target : Keys, asked : SUBSET Routers, whoasked : [node : Routers, txid : Nat],
   handler : Handlers]

HolderOK(h) ==
  /\ h = [tx |-> h.tx, waiting |-> h.waiting, timeouts |-> h.timeouts]
  /\ h.tx \in [DOMAIN h.tx -> Transaction]
  /\ DOMAIN h.tx \subseteq Owners /\ IsFiniteSet(DOMAIN h.tx)
  /\ h.waiting \subseteq Keys \X Owners
  /\ h.timeouts \in [DOMAIN h.timeouts -> -RequestTimeout..RequestTimeout]
  /\ DOMAIN h.timeouts \subseteq Keys

Messages ==
  [type : {"find"}, from : Routers, to : Routers, txid : Nat, key : Keys]
    \cup [type : {"explore"}, from : Routers, to : Routers, txid : Nat]
    \cup [type : {"got"}, from : Routers, to : Routers, txid : Nat,
          R : SUBSET Keys, N : SUBSET Routers]

\* Type invariant: the holders of dht::Context and the messages in flight.
TypeOK ==
  /\ nodes \in [Routers -> SUBSET Routers]
  /\ \A r \in Routers : r \notin nodes[r]
  /\ db \in [Routers -> SUBSET Keys]
  /\ inserting \subseteq Routers \X Keys
  /\ ids \in [Routers -> Nat]
  /\ lookups = [r \in Routers |-> lookups[r]]
  /\ explores = [r \in Routers |-> explores[r]]
  /\ \A r \in Routers : HolderOK(lookups[r]) /\ HolderOK(explores[r])
  /\ msgs \subseteq Messages
  /\ issued \subseteq Asks
  /\ answers \in [Asks -> SUBSET SUBSET (Keys \cup {EmptyRC, NoPath})]
  /\ explored \in 0..MaxExplores

Tracked(h) ==
  /\ \A o \in DOMAIN h.tx : <<h.tx[o].target, o>> \in h.waiting
  /\ \A w \in h.waiting : w[2] \in DOMAIN h.tx /\ h.tx[w[2]].target = w[1]
  /\ DOMAIN h.timeouts = {w[1] : w \in h.waiting}

\* No transaction is forgotten: the three tables of a TXHolder agree, so that
\* Inform and Expire reach every pending transaction, never one that is gone,
\* and HasLookupFor says yes exactly while somebody waits for the key.
NoLookupForgotten ==
  \A r \in Routers : Tracked(lookups[r]) /\ Tracked(explores[r])

\* A lookup made for another router is only ever passed on to the target or to
\* a router strictly closer to it than this one (LookupRouterRelayed, and
\* AskNextPeer afterwards): a lookup cannot be handed round in a circle.
RelaysGetCloser ==
  \A r \in Routers : \A o \in DOMAIN lookups[r].tx :
    LET t == lookups[r].tx[o]
    IN t.handler = NoHandler /\ t.whoasked.node # r
         => o.node = t.target \/ Dist(o.node, t.target) < Dist(r, t.target)

\* Whatever is late, lost, relayed or asked twice, whoever asked for a router, over
\* a path or through LookupRouter, is given that router's contact or none: never
\* one that another transaction found.  An ask that came over a path may also get
\* the default contact, or nothing when its path is gone (SendReply).
AnswersMatch ==
  \A a \in Asks : \A R \in answers[a] :
    \/ R \subseteq {a.key}
    \/ a.via = "path" /\ R \in {{EmptyRC}, {NoPath}}

\* "R is a list containing a single RC if found or is an empty list if not found".
SingleRCIfFound ==
  \A a \in Asks : \A R \in answers[a] : R \subseteq {a.key} \/ R = {NoPath}

\* Every request is answered in the end, or its path is gone by then, and no
\* transaction stays pending, although any message may be lost and the next peer
\* may never be asked: the cleanup timer ends what nobody answers.
EveryAskAnswered ==
  <>[](/\ \A a \in issued : answers[a] # {}
       /\ \A r \in Routers : DOMAIN lookups[r].tx = {} /\ DOMAIN explores[r].tx = {})
=============================================================================
