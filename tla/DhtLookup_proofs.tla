-------------------------- MODULE DhtLookup_proofs --------------------------
(***************************************************************************)
(* For any routers, distances, requests and bounds: the tables of pending  *)
(* transactions agree, relayed lookups only get closer to their target,    *)
(* and a node is given the contact it asked for.                           *)
(***************************************************************************)
EXTENDS DhtLookup, FiniteSetTheorems, WellFoundedInduction, TLAPS

\* A transaction that serves an ask looks for its key, and one made for
\* another router asks a closer one.
GoodTX(r, node, t) ==
  /\ t.handler \in Asks => t.target = t.handler.key /\ t.whoasked.node = r
  /\ t.handler = NoHandler /\ t.whoasked.node # r
       => node = t.target \/ Dist(node, t.target) < Dist(r, t.target)

\* The ids up to n are used: a new transaction never meets an old owner.
HolderInv(r, h, n) ==
  /\ HolderOK(h)
  /\ Tracked(h)
  /\ \A o \in DOMAIN h.tx : o.txid <= n /\ GoodTX(r, o.node, h.tx[o])

\* What the holders of all routers satisfy.
Holders == \A r \in Routers :
             HolderInv(r, lookups[r], ids[r]) /\ HolderInv(r, explores[r], ids[r])

\* An answer holds one contact at most.
OneContact == \A m \in msgs : m.type = "got" => \A x, y \in m.R : x = y

\* What an ask may be answered with.
Fits(a, R) ==
  \/ R \subseteq {a.key}
  \/ a.via = "path" /\ R \in {{EmptyRC}, {NoPath}}

\* The inductive invariant
IInv ==
  /\ TypeOK
  /\ Holders
  /\ OneContact
  /\ AnswersMatch

-----------------------------------------------------------------------------
\* What the fields of a holder are.
LEMMA HolderFields ==
  ASSUME NEW h, HolderOK(h)
  PROVE  /\ h = [tx |-> h.tx, waiting |-> h.waiting, timeouts |-> h.timeouts]
         /\ h.tx \in [DOMAIN h.tx -> Transaction]
         /\ h.timeouts \in [DOMAIN h.timeouts -> -RequestTimeout..RequestTimeout]
  BY DEF HolderOK

\* Holders do not depend on how many more ids are used.
LEMMA MoreIds ==
  ASSUME NEW r, NEW h, NEW n \in Nat, NEW k \in Nat, HolderInv(r, h, n)
  PROVE  HolderInv(r, h, n + k)
  <1>1. \A o \in DOMAIN h.tx : o.txid \in Nat
    BY DEF HolderInv, HolderOK, Owners
  <1> QED
    BY <1>1 DEF HolderInv

\* TXHolder::Inform removes a key from all three tables.
LEMMA InformInv ==
  ASSUME NEW r, NEW h, NEW n, NEW keys, HolderInv(r, h, n)
  PROVE  HolderInv(r, Inform(h, keys), n)
  <1> DEFINE g == Inform(h, keys)
  <1>1. /\ g.tx = [o \in DOMAIN h.tx \ Informed(h, keys) |-> h.tx[o]]
        /\ g.waiting = {w \in h.waiting : w[1] \notin keys}
        /\ g.timeouts = [k \in DOMAIN h.timeouts \ keys |-> h.timeouts[k]]
        /\ g = [tx |-> g.tx, waiting |-> g.waiting, timeouts |-> g.timeouts]
    BY DEF Inform, Without
  <1>2. HolderOK(h) /\ Tracked(h)
    BY DEF HolderInv
  <1>3. IsFiniteSet(DOMAIN g.tx)
    BY <1>1, <1>2, FS_Subset DEF HolderOK
  <1>4. HolderOK(g)
    BY <1>1, <1>2, <1>3 DEF HolderOK
  <1>5. Tracked(g)
    <2>1. \A o \in DOMAIN g.tx : <<g.tx[o].target, o>> \in g.waiting
      BY <1>1, <1>2 DEF Tracked, Informed
    <2>2. ASSUME NEW w \in g.waiting
          PROVE  w[2] \in DOMAIN g.tx /\ g.tx[w[2]].target = w[1]
      <3>1. w \in h.waiting /\ w[1] \notin keys
        BY <1>1
      <3>2. w[2] \in DOMAIN h.tx /\ h.tx[w[2]].target = w[1]
        BY <1>2, <3>1 DEF Tracked
      <3>3. \A k \in keys : <<k, w[2]>> \in h.waiting => h.tx[w[2]].target = k
        <4> SUFFICES ASSUME NEW k \in keys, <<k, w[2]>> \in h.waiting
                     PROVE  h.tx[w[2]].target = k
          OBVIOUS
        <4> DEFINE v == <<k, w[2]>>
        <4>1. h.tx[v[2]].target = v[1]
          BY <1>2 DEF Tracked
        <4> QED
          BY <4>1
      <3>4. ~\E k \in keys : <<k, w[2]>> \in h.waiting
        BY <3>1, <3>2, <3>3, Zenon
      <3>5. w[2] \notin Informed(h, keys)
        BY <3>4, Zenon DEF Informed
      <3> QED
        BY <1>1, <3>2, <3>5
    <2>3. DOMAIN g.timeouts = {w[1] : w \in g.waiting}
      BY <1>1, <1>2 DEF Tracked
    <2> QED
      BY <2>1, <2>2, <2>3 DEF Tracked
  <1> QED
    BY <1>1, <1>4, <1>5 DEF HolderInv

\* The clock only changes the values of timeouts.
LEMMA AgeInv ==
  ASSUME NEW r, NEW h, NEW n, HolderInv(r, h, n)
  PROVE  HolderInv(r, Age(h), n)
  <1> DEFINE g == Age(h)
  <1>2. HolderOK(h) /\ Tracked(h)
    BY DEF HolderInv
  <1>1. /\ g.tx = h.tx /\ g.waiting = h.waiting
        /\ g.timeouts = [k \in DOMAIN h.timeouts |->
             IF h.timeouts[k] < RequestTimeout THEN h.timeouts[k] + 1 ELSE h.timeouts[k]]
        /\ g = [tx |-> g.tx, waiting |-> g.waiting, timeouts |-> g.timeouts]
    BY <1>2, HolderFields DEF Age
  <1>3. g.timeouts \in [DOMAIN g.timeouts -> -RequestTimeout..RequestTimeout]
    BY <1>1, <1>2, RequestTimeoutAssumption DEF HolderOK
  <1>4. HolderOK(g)
    BY <1>1, <1>2, <1>3 DEF HolderOK
  <1>5. Tracked(g)
    BY <1>1, <1>2 DEF Tracked
  <1> QED
    BY <1>1, <1>4, <1>5 DEF HolderInv

\* AskNextPeer's change of peersAsked.
LEMMA AskedInv ==
  ASSUME NEW r, NEW h, NEW n, NEW o \in DOMAIN h.tx, NEW S \in SUBSET Routers,
         HolderInv(r, h, n)
  PROVE  HolderInv(r, [h EXCEPT !.tx[o].asked = S], n)
  <1> DEFINE g == [h EXCEPT !.tx[o].asked = S]
  <1>2. HolderOK(h) /\ Tracked(h)
    BY DEF HolderInv
  <1>1. /\ g.tx = [h.tx EXCEPT ![o].asked = S] /\ g.waiting = h.waiting /\ g.timeouts = h.timeouts
        /\ g = [tx |-> g.tx, waiting |-> g.waiting, timeouts |-> g.timeouts]
    BY <1>2, HolderFields
  <1>3. \A p \in DOMAIN h.tx : h.tx[p] \in Transaction
    BY <1>2 DEF HolderOK
  <1>4. \A p \in DOMAIN h.tx :
          /\ g.tx[p] \in Transaction
          /\ g.tx[p].target = h.tx[p].target
          /\ g.tx[p].handler = h.tx[p].handler
          /\ g.tx[p].whoasked = h.tx[p].whoasked
    BY <1>1, <1>3 DEF Transaction
  <1>5. DOMAIN g.tx = DOMAIN h.tx /\ g.tx \in [DOMAIN h.tx -> Transaction]
    BY <1>1, <1>2, <1>4 DEF HolderOK
  <1>6. HolderOK(g)
    BY <1>1, <1>2, <1>5 DEF HolderOK
  <1>7. Tracked(g)
    BY <1>1, <1>2, <1>4, <1>5 DEF Tracked
  <1>8. \A p \in DOMAIN g.tx : p.txid <= n /\ GoodTX(r, p.node, g.tx[p])
    BY <1>4, <1>5 DEF HolderInv, GoodTX
  <1> QED
    BY <1>6, <1>7, <1>8 DEF HolderInv

\* emplace adds values of the type of those that are there.
LEMMA EmplaceType ==
  ASSUME NEW T, NEW f, NEW g, f \in [DOMAIN f -> T], g \in [DOMAIN g -> T],
         NEW e, e = Emplace(f, g)
  PROVE  e \in [DOMAIN e -> T]
  BY DEF Emplace

\* TXHolder::NewTX with transactions whose ids were not used before.
LEMMA NewTXInv ==
  ASSUME NEW r, NEW h, NEW n \in Nat, NEW k \in Nat, NEW new,
         HolderInv(r, h, n),
         IsFiniteSet(DOMAIN new), DOMAIN new \subseteq Owners,
         new \in [DOMAIN new -> Transaction],
         \A o \in DOMAIN new : n < o.txid /\ o.txid <= n + k /\ GoodTX(r, o.node, new[o])
  PROVE  HolderInv(r, NewTX(h, new), n + k)
  <1> DEFINE g == NewTX(h, new)
             targets == {new[o].target : o \in DOMAIN new}
             first == [key \in targets |-> -RequestTimeout]
             pairs == {<<new[o].target, o>> : o \in DOMAIN new}
  <1>1. /\ g.tx = Emplace(h.tx, new)
        /\ g.waiting = h.waiting \cup pairs
        /\ g.timeouts = Emplace(h.timeouts, first)
        /\ g = [tx |-> g.tx, waiting |-> g.waiting, timeouts |-> g.timeouts]
    BY DEF NewTX
  <1>2. /\ targets \subseteq Keys
        /\ pairs \subseteq Keys \X Owners
        /\ DOMAIN first = targets
        /\ \A x \in targets : first[x] = -RequestTimeout
        /\ \A o \in DOMAIN new : <<new[o].target, o>> \in pairs
        /\ \A w \in pairs : w[2] \in DOMAIN new /\ w[1] = new[w[2]].target
        /\ \A w \in pairs : w[1] \in targets
        /\ \A x \in targets : \E w \in pairs : w[1] = x
        /\ first \in [targets -> -RequestTimeout..RequestTimeout]
    <2>1. \A o \in DOMAIN new : new[o].target \in Keys
      BY DEF Transaction
    <2>2. -RequestTimeout \in -RequestTimeout..RequestTimeout
      BY RequestTimeoutAssumption
    <2>3. \A x \in targets : \E w \in pairs : w[1] = x
      <3> SUFFICES ASSUME NEW o \in DOMAIN new
                   PROVE  \E w \in pairs : w[1] = new[o].target
        OBVIOUS
      <3> DEFINE v == <<new[o].target, o>>
      <3>1. v \in pairs /\ v[1] = new[o].target
        OBVIOUS
      <3> QED
        BY <3>1, Zenon
    <2>4. \A w \in pairs : w[2] \in DOMAIN new /\ w[1] = new[w[2]].target /\ w[1] \in targets
      OBVIOUS
    <2>5. /\ targets \subseteq Keys
          /\ pairs \subseteq Keys \X Owners
          /\ \A o \in DOMAIN new : <<new[o].target, o>> \in pairs
      BY <2>1
    <2> HIDE DEF targets
    <2>6. DOMAIN first = targets /\ \A x \in targets : first[x] = -RequestTimeout
      OBVIOUS
    <2>7. first \in [targets -> -RequestTimeout..RequestTimeout]
      BY <2>2
    <2> HIDE DEF pairs, first
    <2> QED
      BY <2>3, <2>4, <2>5, <2>6, <2>7
  <1>3. HolderOK(h) /\ Tracked(h)
    BY DEF HolderInv
  <1>4. DOMAIN h.tx \cap DOMAIN new = {}
    <2>1. \A o \in DOMAIN h.tx : o.txid \in Nat /\ o.txid <= n
      BY <1>3 DEF HolderInv, HolderOK, Owners
    <2>2. \A o \in DOMAIN new : o.txid \in Nat /\ n < o.txid
      BY DEF Owners
    <2> QED
      BY <2>1, <2>2
  <1> HIDE DEF g, targets, first, pairs
  <1>5. /\ DOMAIN g.tx = DOMAIN h.tx \cup DOMAIN new
        /\ \A o \in DOMAIN h.tx : g.tx[o] = h.tx[o]
        /\ \A o \in DOMAIN new : g.tx[o] = new[o]
    <2>1. g.tx = Emplace(h.tx, new)
      BY <1>1
    <2>2. /\ DOMAIN g.tx = DOMAIN h.tx \cup DOMAIN new
          /\ \A o \in DOMAIN h.tx : g.tx[o] = h.tx[o]
          /\ \A o \in DOMAIN new : o \notin DOMAIN h.tx => g.tx[o] = new[o]
      BY <2>1 DEF Emplace
    <2> QED
      BY <1>4, <2>2
  <1>6. /\ DOMAIN g.timeouts = DOMAIN h.timeouts \cup targets
        /\ \A x \in DOMAIN h.timeouts : g.timeouts[x] = h.timeouts[x]
        /\ \A x \in targets : x \notin DOMAIN h.timeouts => g.timeouts[x] = -RequestTimeout
    <2>1. g.timeouts = Emplace(h.timeouts, first) /\ DOMAIN first = targets
      BY <1>1, <1>2
    <2>2. /\ DOMAIN g.timeouts = DOMAIN h.timeouts \cup DOMAIN first
          /\ \A x \in DOMAIN h.timeouts : g.timeouts[x] = h.timeouts[x]
          /\ \A x \in DOMAIN first : x \notin DOMAIN h.timeouts => g.timeouts[x] = first[x]
      BY <2>1 DEF Emplace
    <2> QED
      BY <1>2, <2>2
  <1>7. HolderOK(g)
    <2>1. IsFiniteSet(DOMAIN g.tx)
      <3> DEFINE old == DOMAIN h.tx
                 more == DOMAIN new
      <3>1. IsFiniteSet(old) /\ IsFiniteSet(more)
        BY <1>3 DEF HolderOK
      <3> HIDE DEF old, more
      <3>2. IsFiniteSet(old \cup more)
        BY <3>1, FS_Union, Zenon
      <3> QED
        BY <1>5, <3>2 DEF old, more
    <2>2. \A o \in DOMAIN g.tx : g.tx[o] \in Transaction /\ o \in Owners
      BY <1>3, <1>5 DEF HolderOK
    <2>3. g.tx \in [DOMAIN g.tx -> Transaction]
      BY <1>1, <1>3, EmplaceType DEF HolderOK
    <2>4. g.waiting \subseteq Keys \X Owners
      BY <1>1, <1>2, <1>3 DEF HolderOK
    <2>5. g.timeouts \in [DOMAIN g.timeouts -> -RequestTimeout..RequestTimeout]
      <3> DEFINE T == -RequestTimeout..RequestTimeout
      <3>1. h.timeouts \in [DOMAIN h.timeouts -> T] /\ first \in [DOMAIN first -> T]
        BY <1>2, <1>3 DEF HolderOK
      <3>2. g.timeouts = Emplace(h.timeouts, first)
        BY <1>1
      <3> HIDE DEF T
      <3>3. g.timeouts \in [DOMAIN g.timeouts -> T]
        BY <3>1, <3>2, EmplaceType, Zenon
      <3> QED
        BY <3>3 DEF T
    <2>6. DOMAIN g.timeouts \subseteq Keys
      BY <1>2, <1>3, <1>6 DEF HolderOK
    <2> QED
      BY <1>1, <2>1, <2>2, <2>3, <2>4, <2>5, <2>6 DEF HolderOK
  <1>8. Tracked(g)
    <2>1. \A o \in DOMAIN g.tx : <<g.tx[o].target, o>> \in g.waiting
      BY <1>1, <1>2, <1>3, <1>5 DEF Tracked
    <2>2. \A w \in g.waiting : w[2] \in DOMAIN g.tx /\ g.tx[w[2]].target = w[1]
      BY <1>1, <1>2, <1>3, <1>5 DEF Tracked
    <2>3. \A x : x \in DOMAIN g.timeouts <=> \E w \in g.waiting : w[1] = x
      BY <1>1, <1>2, <1>3, <1>6 DEF Tracked
    <2>4. DOMAIN g.timeouts = {w[1] : w \in g.waiting}
      BY <2>3
    <2> QED
      BY <2>1, <2>2, <2>4 DEF Tracked
  <1>9. \A o \in DOMAIN g.tx : o.txid <= n + k /\ GoodTX(r, o.node, g.tx[o])
    <2>1. \A o \in DOMAIN h.tx : o.txid \in Nat /\ o.txid <= n
      BY <1>3 DEF HolderInv, HolderOK, Owners
    <2> QED
      BY <1>5, <2>1 DEF HolderInv
  <1> QED
    BY <1>7, <1>8, <1>9 DEF HolderInv, g

\* Transactions gives every request of a sequence an id of its own.
LEMMA NewOwners ==
  ASSUME NEW r \in Routers, NEW k \in Nat, NEW s, ids \in [Routers -> Nat], DOMAIN s = 1..k,
         \A i \in 1..k : /\ s[i].peer \in Routers
                         /\ s[i].tx \in Transaction
                         /\ GoodTX(r, s[i].peer, s[i].tx)
  PROVE  LET new == Transactions(r, s)
         IN  /\ IsFiniteSet(DOMAIN new) /\ DOMAIN new \subseteq Owners
             /\ new \in [DOMAIN new -> Transaction]
             /\ \A o \in DOMAIN new : /\ ids[r] < o.txid /\ o.txid <= ids[r] + k
                                      /\ GoodTX(r, o.node, new[o])
  <1> DEFINE new == Transactions(r, s)
             owner == [i \in 1..k |-> [node |-> s[i].peer, txid |-> ids[r] + i]]
  <1>1. ids[r] \in Nat
    OBVIOUS
  <1>2. DOMAIN new = {owner[i] : i \in 1..k}
    <2>1. DOMAIN new = {[node |-> s[i].peer, txid |-> ids[r] + i] : i \in DOMAIN s}
      BY DEF Transactions
    <2>2. \A i \in 1..k : owner[i] = [node |-> s[i].peer, txid |-> ids[r] + i]
      OBVIOUS
    <2> HIDE DEF owner, new
    <2> QED
      BY <2>1, <2>2, Zenon
  <1>3. IsFiniteSet(DOMAIN new)
    <2>1. IsFiniteSet(1..k)
      BY FS_Interval
    <2>2. /\ owner = [i \in 1..k |-> owner[i]]
          /\ \A i \in 1..k : owner[i] \in DOMAIN new
      <3>1. owner = [i \in 1..k |-> owner[i]]
        OBVIOUS
      <3> HIDE DEF owner, new
      <3> QED
        BY <1>2, <3>1
    <2> HIDE DEF owner, new
    <2>3. owner \in [1..k -> DOMAIN new]
      BY <2>2, Zenon
    <2>4. \A o \in DOMAIN new : \E i \in 1..k : owner[i] = o
      BY <1>2
    <2>5. owner \in Surjection(1..k, DOMAIN new)
      BY <2>3, <2>4, Zenon DEF Surjection
    <2> QED
      BY <2>1, <2>5, FS_Surjection
  <1>4. ASSUME NEW o \in DOMAIN new
        PROVE  /\ o \in Owners /\ ids[r] < o.txid /\ o.txid <= ids[r] + k
               /\ new[o] \in Transaction /\ GoodTX(r, o.node, new[o])
    <2>1. PICK i \in 1..k : o = owner[i]
      BY <1>2
    <2>2. o = [node |-> s[i].peer, txid |-> ids[r] + i]
      BY <2>1
    <2>3. o.txid - ids[r] = i /\ o.node = s[i].peer
      BY <1>1, <2>2
    <2>4. new[o] = s[i].tx
      BY <2>3 DEF Transactions
    <2>5. o \in Owners /\ ids[r] < o.txid /\ o.txid <= ids[r] + k
      BY <1>1, <2>2 DEF Owners
    <2> QED
      BY <2>3, <2>4, <2>5
  <1>5. new = [o \in DOMAIN new |-> new[o]]
    BY DEF Transactions
  <1> QED
    BY <1>3, <1>4, <1>5

-----------------------------------------------------------------------------
\* Bucket::FindCloseExcluding and the like: a closest router exists.
LEMMA ClosestIn ==
  ASSUME NEW S \in SUBSET Keys, S # {}, NEW k \in Keys
  PROVE  /\ Closest(S, k) \in S
         /\ \A q \in S : Dist(Closest(S, k), k) <= Dist(q, k)
  <1> DEFINE T == {Dist(q, k) : q \in S}
             Less == {w \in Nat \X Nat : w[1] < w[2]}
  <1>1. T \subseteq Nat /\ T # {}
    BY KeysAssumption
  <1>2. IsWellFoundedOn(Less, Nat)
    BY NatLessThanWellFounded DEF OpToRel
  <1>3. \A x, y \in Nat : <<y, x>> \notin Less => x <= y
    OBVIOUS
  <1> HIDE DEF T, Less
  <1>4. PICK x \in T : \A y \in T : ~(<<y, x>> \in Less)
    BY <1>1, <1>2, WFMin, Zenon
  <1>5. \A y \in T : x <= y
    <2> SUFFICES ASSUME NEW y \in T PROVE x <= y
      OBVIOUS
    <2>1. x \in Nat /\ y \in Nat /\ <<y, x>> \notin Less
      BY <1>1, <1>4
    <2> QED
      BY <1>3, <2>1
  <1>6. \E p \in S : \A q \in S : Dist(p, k) <= Dist(q, k)
    BY <1>5 DEF T
  <1> QED
    BY <1>6 DEF Closest

-----------------------------------------------------------------------------
\* A request that may be added to the lookups of r.
GoodRequest(r, q) ==
  q.peer \in Routers /\ q.tx \in Transaction /\ GoodTX(r, q.peer, q.tx)

\* LookupRouterRecursive and LookupRouterForPath: what starting lookups preserves.
LEMMA LookupStep ==
  ASSUME TypeOK, Holders, NEW r \in Routers, NEW h, NEW k \in Nat, NEW s,
         HolderInv(r, h, ids[r]), DOMAIN s = 1..k, \A i \in 1..k : GoodRequest(r, s[i]),
         LookupRouters(r, h, s)
  PROVE  /\ ids' \in [Routers -> Nat]
         /\ lookups' = [q \in Routers |-> lookups'[q]]
         /\ \A q \in Routers : /\ HolderInv(q, lookups'[q], ids'[q])
                               /\ HolderInv(q, explores[q], ids'[q])
         /\ \A m \in Requests(r, h, s) : m \in Messages /\ m.type = "find"
  <1> DEFINE new == Transactions(r, s)
  <1>1. /\ ids \in [Routers -> Nat] /\ ids[r] \in Nat
        /\ lookups = [q \in Routers |-> lookups[q]]
    BY DEF TypeOK
  <1>2. \A i \in 1..k : /\ s[i].peer \in Routers
                        /\ s[i].tx \in Transaction
                        /\ GoodTX(r, s[i].peer, s[i].tx)
    BY DEF GoodRequest
  <1>3. /\ IsFiniteSet(DOMAIN new) /\ DOMAIN new \subseteq Owners
        /\ new \in [DOMAIN new -> Transaction]
        /\ \A o \in DOMAIN new : /\ ids[r] < o.txid /\ o.txid <= ids[r] + k
                                 /\ GoodTX(r, o.node, new[o])
    BY <1>1, <1>2, NewOwners
  <1> HIDE DEF new
  <1>4. HolderInv(r, NewTX(h, new), ids[r] + k)
    BY <1>1, <1>3, NewTXInv
  <1>5. Cardinality(DOMAIN s) = k
    BY FS_Interval
  <1>6. /\ lookups' = [lookups EXCEPT ![r] = NewTX(h, new)]
        /\ ids' = [ids EXCEPT ![r] = @ + k]
    <2>1. /\ lookups' = [lookups EXCEPT ![r] = NewTX(h, new)]
          /\ ids' = [ids EXCEPT ![r] = @ + Cardinality(DOMAIN s)]
      BY DEF LookupRouters, new
    <2> QED
      BY <1>5, <2>1, Zenon
  <1>7. ids' \in [Routers -> Nat]
    BY <1>1, <1>6
  <1>8. lookups' = [q \in Routers |-> lookups'[q]]
    <2> DEFINE g == NewTX(h, new)
    <2>1. lookups' = [lookups EXCEPT ![r] = g]
      BY <1>6
    <2>2. lookups = [q \in Routers |-> lookups[q]]
      BY <1>1
    <2> HIDE DEF g
    <2> QED
      BY <2>1, <2>2, Zenon
  <1>9. ASSUME NEW q \in Routers
        PROVE  HolderInv(q, lookups'[q], ids'[q]) /\ HolderInv(q, explores[q], ids'[q])
    <2>1. CASE q = r
      <3>1. lookups'[q] = NewTX(h, new) /\ ids'[q] = ids[r] + k
        BY <1>1, <1>6, <2>1
      <3>2. HolderInv(r, explores[r], ids[r])
        BY DEF Holders
      <3>3. HolderInv(r, explores[r], ids[r] + k)
        BY <1>1, <3>2, MoreIds
      <3> QED
        BY <1>4, <2>1, <3>1, <3>3
    <2>2. CASE q # r
      <3>1. lookups'[q] = lookups[q] /\ ids'[q] = ids[q]
        BY <1>1, <1>6, <2>2
      <3> QED
        BY <3>1 DEF Holders
    <2> QED
      BY <2>1, <2>2
  <1>10. \A m \in Requests(r, h, s) : m \in Messages /\ m.type = "find"
    <2> SUFFICES ASSUME NEW o \in Started(h, new)
                 PROVE  LET m == Find(r, o, new[o].target) IN m \in Messages /\ m.type = "find"
      BY DEF Requests, new
    <2>1. o \in Owners /\ new[o].target \in Keys
      BY <1>3 DEF Started, Transaction
    <2> QED
      BY <2>1 DEF Find, Messages, Owners
  <1> QED
    BY <1>7, <1>8, <1>9, <1>10

\* The parts of the invariant make the whole.
LEMMA Assemble ==
  ASSUME TypeOK, UNCHANGED <<nodes, db>>,
         inserting' \subseteq Routers \X Keys, ids' \in [Routers -> Nat],
         lookups' = [r \in Routers |-> lookups'[r]],
         explores' = [r \in Routers |-> explores'[r]],
         \A r \in Routers : /\ HolderInv(r, lookups'[r], ids'[r])
                            /\ HolderInv(r, explores'[r], ids'[r]),
         msgs' \subseteq Messages, issued' \subseteq Asks,
         answers' \in [Asks -> SUBSET SUBSET (Keys \cup {EmptyRC, NoPath})],
         explored' \in 0..MaxExplores,
         OneContact', AnswersMatch'
  PROVE  IInv'
  <1>1. Holders'
    BY DEF Holders
  <1>2. \A r \in Routers : HolderOK(lookups'[r]) /\ HolderOK(explores'[r])
    BY DEF HolderInv
  <1>3. TypeOK'
    BY <1>2 DEF TypeOK
  <1> QED
    BY <1>1, <1>3 DEF IInv

\* TXHolder::Inform with the replies it sends: values are contacts of every key
\* that is informed about.
LEMMA InformStep ==
  ASSUME IInv, NEW r \in Routers, NEW keys, NEW values \in SUBSET Keys, NEW rest \in SUBSET msgs,
         \A v \in values, k \in keys : v = k, \A v, w \in values : v = w,
         InformLookups(r, keys, values, rest),
         explores' = [q \in Routers |-> explores'[q]],
         \A q \in Routers : HolderInv(q, explores'[q], ids[q]),
         UNCHANGED <<nodes, db, ids, issued, explored>>
  PROVE  IInv'
  <1> DEFINE h == lookups[r]
             informed == Informed(h, keys)
  <1>0. PICK gone \in SUBSET {a \in Asks : a.via = "path"} :
          answers' = Answered(h, informed, values, gone)
    BY DEF InformLookups
  <1>1. /\ lookups' = [lookups EXCEPT ![r] = Inform(h, keys)]
        /\ msgs' = rest \cup RemoteReplies(r, h, informed, values)
        /\ answers' = Answered(h, informed, values, gone)
        /\ inserting' = inserting \cup StoreRC(r, h, informed, values)
    BY <1>0 DEF InformLookups
  <1>2. /\ TypeOK /\ OneContact /\ AnswersMatch
        /\ \A q \in Routers : HolderInv(q, lookups[q], ids[q])
    BY DEF IInv, Holders
  <1>3. /\ HolderInv(r, h, ids[r]) /\ HolderOK(h) /\ Tracked(h)
        /\ lookups = [q \in Routers |-> lookups[q]]
    BY <1>2 DEF HolderInv, TypeOK
  <1>4. \A o \in informed :
          /\ o \in DOMAIN h.tx /\ h.tx[o] \in Transaction /\ GoodTX(r, o.node, h.tx[o])
          /\ \A v \in values : v = h.tx[o].target
    <2> SUFFICES ASSUME NEW o \in informed
                 PROVE  /\ o \in DOMAIN h.tx /\ h.tx[o] \in Transaction
                        /\ GoodTX(r, o.node, h.tx[o])
                        /\ \A v \in values : v = h.tx[o].target
      OBVIOUS
    <2>1. o \in DOMAIN h.tx /\ \E k \in keys : <<k, o>> \in h.waiting
      BY DEF Informed
    <2>2. PICK k \in keys : <<k, o>> \in h.waiting
      BY <2>1
    <2> DEFINE w == <<k, o>>
    <2>3. h.tx[w[2]].target = w[1]
      BY <1>3, <2>2 DEF Tracked
    <2>4. h.tx[o].target = k
      BY <2>3
    <2> QED
      BY <1>3, <2>1, <2>4 DEF HolderInv, HolderOK
  <1>5. HolderInv(r, Inform(h, keys), ids[r])
    BY <1>3, InformInv
  <1> HIDE DEF h, informed
  <1>6. lookups' = [q \in Routers |-> lookups'[q]]
    BY <1>1, <1>3
  <1>7. \A q \in Routers : HolderInv(q, lookups'[q], ids[q])
    BY <1>1, <1>2, <1>3, <1>5
  <1>8. \A m \in RemoteReplies(r, h, informed, values) :
          m \in Messages /\ m.type = "got" /\ m.R = values
    <2> SUFFICES ASSUME NEW o \in informed
                 PROVE  LET m == Got(r, h.tx[o].whoasked.node, h.tx[o].whoasked.txid, values)
                        IN  m \in Messages /\ m.type = "got" /\ m.R = values
      BY DEF RemoteReplies
    <2>1. h.tx[o].whoasked.node \in Routers /\ h.tx[o].whoasked.txid \in Nat
      BY <1>4 DEF Transaction
    <2> QED
      BY <2>1 DEF Got, Messages
  <1>9. msgs' \subseteq Messages
    BY <1>1, <1>2, <1>8 DEF TypeOK
  <1>10. OneContact'
    BY <1>1, <1>2, <1>8 DEF OneContact
  <1>11. ASSUME NEW a \in Asks
         PROVE  /\ answers'[a] \in SUBSET SUBSET (Keys \cup {EmptyRC, NoPath})
                /\ \A R \in answers'[a] : Fits(a, R)
    <2> DEFINE result == Result(a, values, a \in gone)
    <2>1. answers'[a] = answers[a] \cup
            {result : o \in {p \in informed : h.tx[p].handler = a}}
      BY <1>1 DEF Answered
    <2>2. answers[a] \in SUBSET SUBSET (Keys \cup {EmptyRC, NoPath})
      BY <1>2 DEF TypeOK
    <2>3. result \in SUBSET (Keys \cup {EmptyRC, NoPath})
      BY DEF Result, PathResult
    <2>4. result = values \/ Fits(a, result)
      BY DEF Result, PathResult, Fits
    <2> HIDE DEF result
    <2>5. answers'[a] \in SUBSET SUBSET (Keys \cup {EmptyRC, NoPath})
      BY <2>1, <2>2, <2>3
    <2>6. ASSUME NEW R \in answers'[a]
          PROVE  Fits(a, R)
      <3>1. CASE R \in answers[a]
        BY <1>2, <3>1 DEF AnswersMatch, Fits
      <3>2. CASE R \notin answers[a]
        <4>1. R = result /\ \E p \in informed : h.tx[p].handler = a
          BY <2>1, <2>6, <3>2
        <4>2. PICK o \in informed : h.tx[o].handler = a
          BY <4>1
        <4>3. h.tx[o].target = a.key
          BY <1>4, <4>2 DEF GoodTX
        <4>4. values \subseteq {a.key}
          BY <1>4, <4>3
        <4> QED
          BY <2>4, <4>1, <4>4 DEF Fits
      <3> QED
        BY <3>1, <3>2
    <2> QED
      BY <2>5, <2>6
  <1>12. answers' \in [Asks -> SUBSET SUBSET (Keys \cup {EmptyRC, NoPath})]
    BY <1>1, <1>11 DEF Answered
  <1>13. AnswersMatch'
    BY <1>11 DEF AnswersMatch, Fits
  <1>14. inserting' \subseteq Routers \X Keys
    BY <1>1, <1>2 DEF StoreRC, TypeOK
  <1>15. ids' \in [Routers -> Nat] /\ issued' \subseteq Asks /\ explored' \in 0..MaxExplores
    BY <1>2 DEF TypeOK
  <1>16. \A q \in Routers : HolderInv(q, lookups'[q], ids'[q]) /\ HolderInv(q, explores'[q], ids'[q])
    BY <1>7
  <1> QED
    BY <1>2, <1>6, <1>9, <1>10, <1>12, <1>13, <1>14, <1>15, <1>16, Assemble

-----------------------------------------------------------------------------
\* The markers of transactions without a handler are no requests of a node.
LEMMA NoSuchAsk == NoHandler \notin Asks /\ ExploreHandler \notin Asks /\ NoHandler # ExploreHandler
  BY AsksAssumption DEF NoHandler, ExploreHandler

\* What LookupRouterForPath, LookupRouterRelayed and LookupRouter each start.
LEMMA MakeRequest ==
  ASSUME NEW r \in Routers, NEW peer \in Routers, NEW target \in Keys, NEW w \in Owners,
         NEW handler \in Handlers,
         handler \in Asks => target = handler.key /\ w.node = r,
         handler = NoHandler /\ w.node # r
           => peer = target \/ Dist(peer, target) < Dist(r, target)
  PROVE  GoodRequest(r, Request(r, peer, target, w, handler))
  BY DEF GoodRequest, Request, GoodTX, Transaction, Owners

\* One lookup is started.
LEMMA OneLookup ==
  ASSUME TypeOK, Holders, NEW r \in Routers, NEW h, NEW q,
         HolderInv(r, h, ids[r]), GoodRequest(r, q), LookupRouters(r, h, <<q>>)
  PROVE  /\ ids' \in [Routers -> Nat]
         /\ lookups' = [x \in Routers |-> lookups'[x]]
         /\ \A x \in Routers : /\ HolderInv(x, lookups'[x], ids'[x])
                               /\ HolderInv(x, explores[x], ids'[x])
         /\ \A m \in Requests(r, h, <<q>>) : m \in Messages /\ m.type = "find"
  <1> DEFINE s == <<q>>
             k == 1
  <1>1. k \in Nat /\ DOMAIN s = 1..k /\ \A i \in 1..k : GoodRequest(r, s[i])
    OBVIOUS
  <1>2. LookupRouters(r, h, s)
    OBVIOUS
  <1> HIDE DEF s, k
  <1>3. /\ ids' \in [Routers -> Nat]
        /\ lookups' = [x \in Routers |-> lookups'[x]]
        /\ \A x \in Routers : /\ HolderInv(x, lookups'[x], ids'[x])
                              /\ HolderInv(x, explores[x], ids'[x])
        /\ \A m \in Requests(r, h, s) : m \in Messages /\ m.type = "find"
    BY <1>1, <1>2, LookupStep
  <1> QED
    BY <1>3 DEF s

\* One lookup is started, and nothing else happens but that messages go.
LEMMA LookupMore ==
  ASSUME IInv, NEW r \in Routers, NEW h, NEW q,
         HolderInv(r, h, ids[r]), GoodRequest(r, q), LookupRouters(r, h, <<q>>),
         NEW rest \in SUBSET msgs, msgs' = rest \cup Requests(r, h, <<q>>),
         issued' \subseteq Asks, UNCHANGED <<nodes, db, inserting, explores, answers, explored>>
  PROVE  IInv'
  <1>1. TypeOK /\ Holders /\ OneContact /\ AnswersMatch
    BY DEF IInv
  <1>2. /\ ids' \in [Routers -> Nat]
        /\ lookups' = [x \in Routers |-> lookups'[x]]
        /\ \A x \in Routers : /\ HolderInv(x, lookups'[x], ids'[x])
                              /\ HolderInv(x, explores[x], ids'[x])
        /\ \A m \in Requests(r, h, <<q>>) : m \in Messages /\ m.type = "find"
    BY <1>1, OneLookup
  <1>3. msgs \subseteq Messages
    BY <1>1 DEF TypeOK
  <1>4. msgs' \subseteq Messages
    BY <1>2, <1>3
  <1>5. OneContact'
    BY <1>1, <1>2 DEF OneContact
  <1>6. /\ answers' \in [Asks -> SUBSET SUBSET (Keys \cup {EmptyRC, NoPath})]
        /\ inserting' \subseteq Routers \X Keys
        /\ explores' = [x \in Routers |-> explores'[x]] /\ explored' \in 0..MaxExplores
    BY <1>1 DEF TypeOK
  <1>7. AnswersMatch'
    BY <1>1 DEF AnswersMatch
  <1> QED
    BY <1>1, <1>2, <1>4, <1>5, <1>6, <1>7, Assemble
-----------------------------------------------------------------------------

\* A node's own request.
LEMMA AskInv ==
  ASSUME IInv, NEW a \in Asks, Ask(a)
  PROVE  IInv'
  <1> DEFINE r == a.at
             q == Request(r, Closest(nodes[r], a.key), a.key, [node |-> r, txid |-> 0], a)
  <1>1. r \in Routers /\ a.key \in Keys
    BY AsksAssumption
  <1>2. TypeOK /\ Holders /\ OneContact /\ AnswersMatch /\ HolderInv(r, lookups[r], ids[r])
    BY <1>1 DEF IInv, Holders
  <1>3. /\ UNCHANGED <<nodes, db, inserting, explores, explored>>
        /\ issued' \subseteq Asks /\ inserting' \subseteq Routers \X Keys
        /\ explores' = [x \in Routers |-> explores'[x]] /\ explored' \in 0..MaxExplores
    BY <1>2 DEF Ask, TypeOK
  <1>4. ASSUME NEW R \in SUBSET (Keys \cup {NoPath}), Fits(a, R),
               answers' = [answers EXCEPT ![a] = @ \cup {R}], UNCHANGED <<ids, lookups, msgs>>
        PROVE  IInv'
    <2>1. answers' \in [Asks -> SUBSET SUBSET (Keys \cup {EmptyRC, NoPath})]
      BY <1>2, <1>4 DEF TypeOK
    <2>2. AnswersMatch'
      BY <1>2, <1>4 DEF AnswersMatch, Fits, TypeOK
    <2>3. OneContact'
      BY <1>2, <1>4 DEF OneContact
    <2> QED
      BY <1>2, <1>3, <1>4, <2>1, <2>2, <2>3, Assemble DEF TypeOK, Holders
  <1>5. ASSUME nodes[r] # {}, LookupRouters(r, lookups[r], <<q>>),
               msgs' = msgs \cup Requests(r, lookups[r], <<q>>), UNCHANGED answers
        PROVE  IInv'
    <2>1. nodes[r] \in SUBSET Keys /\ nodes[r] \in SUBSET Routers
      BY <1>1, <1>2, KeysAssumption DEF TypeOK
    <2>2. Closest(nodes[r], a.key) \in Routers
      BY <1>1, <1>5, <2>1, ClosestIn, Zenon
    <2>3. [node |-> r, txid |-> 0] \in Owners /\ a \in Handlers /\ a # NoHandler
      BY <1>1, NoSuchAsk DEF Owners, Handlers
    <2>4. GoodRequest(r, q)
      BY <1>1, <2>2, <2>3, MakeRequest
    <2> HIDE DEF q
    <2> QED
      BY <1>1, <1>2, <1>3, <1>5, <2>4, LookupMore
  <1>6. CASE AskHandler(a)
    <2>1. CASE nodes[r] = {}
      <3> DEFINE reply == {}
      <3>1. /\ reply \in SUBSET (Keys \cup {NoPath}) /\ Fits(a, reply)
            /\ answers' = [answers EXCEPT ![a] = @ \cup {reply}]
            /\ UNCHANGED <<ids, lookups, msgs>>
        BY <1>6, <2>1 DEF AskHandler, Fits
      <3> HIDE DEF reply
      <3> QED
        BY <1>4, <3>1, Zenon
    <2>2. CASE nodes[r] # {}
      <3>1. /\ LookupRouters(r, lookups[r], <<q>>)
            /\ msgs' = msgs \cup Requests(r, lookups[r], <<q>>)
            /\ UNCHANGED answers
        BY <1>6, <2>2, Zenon DEF AskHandler
      <3> QED
        BY <1>5, <2>2, <3>1, Zenon
    <2> QED
      BY <2>1, <2>2
  <1>7. CASE AskPath(a)
    <2> DEFINE reply == CASE a.key = r -> {r}
                          [] a.key # r /\ a.key \notin Allowed -> {}
                          [] a.key # r /\ a.key \in Allowed /\ a.key \in db[r] -> {a.key}
                          [] OTHER -> {}
               asksOn == a.key # r /\ a.key \in Allowed /\ a.key \notin db[r] /\ nodes[r] # {}
    <2>1. CASE asksOn
      <3>1. /\ nodes[r] # {} /\ LookupRouters(r, lookups[r], <<q>>)
            /\ msgs' = msgs \cup Requests(r, lookups[r], <<q>>)
            /\ UNCHANGED answers
        BY <1>7, <2>1, Zenon DEF AskPath
      <3> QED
        BY <1>5, <3>1, Zenon
    <2>2. CASE ~asksOn
      <3> DEFINE lost == {NoPath}
      <3>1. /\ a.via = "path"
            /\ \/ answers' = [answers EXCEPT ![a] = @ \cup {reply}]
               \/ answers' = [answers EXCEPT ![a] = @ \cup {lost}]
            /\ UNCHANGED <<ids, lookups, msgs>>
        BY <1>7, <2>2 DEF AskPath
      <3>2. reply \subseteq {a.key} /\ reply \in SUBSET (Keys \cup {NoPath})
        BY <1>1, KeysAssumption
      <3>3. lost \in SUBSET (Keys \cup {NoPath}) /\ Fits(a, lost) /\ Fits(a, reply)
        BY <3>1, <3>2 DEF Fits
      <3> HIDE DEF reply, lost
      <3> QED
        BY <1>4, <3>1, <3>2, <3>3, Zenon
    <2> QED
      BY <2>1, <2>2
  <1> QED
    BY <1>6, <1>7 DEF Ask

\* The handlers of messages: what a message in flight is.
LEMMA MessageFields ==
  ASSUME TypeOK, NEW m \in msgs
  PROVE  /\ m.from \in Routers /\ m.to \in Routers /\ m.txid \in Nat
         /\ [node |-> m.from, txid |-> m.txid] \in Owners
         /\ m.type = "find" => m.key \in Keys
         /\ m.type = "got" => m.R \in SUBSET Keys /\ m.N \in SUBSET Routers
  BY DEF TypeOK, Messages, Owners

\* A message is answered with at most one contact, or dropped.
LEMMA ReplyInv ==
  ASSUME IInv, NEW m \in msgs, NEW replies, msgs' = (msgs \ {m}) \cup replies,
         \A p \in replies : p \in Messages /\ \A x, y \in p.R : x = y,
         UNCHANGED <<nodes, db, inserting, ids, lookups, explores, issued, answers, explored>>
  PROVE  IInv'
  <1>1. TypeOK /\ Holders /\ OneContact /\ AnswersMatch
    BY DEF IInv
  <1>2. msgs' \subseteq Messages
    BY <1>1 DEF TypeOK
  <1>3. OneContact'
    BY <1>1 DEF OneContact
  <1>4. TypeOK'
    BY <1>1, <1>2 DEF TypeOK
  <1>5. Holders' /\ AnswersMatch'
    BY <1>1 DEF Holders, AnswersMatch
  <1> QED
    BY <1>3, <1>4, <1>5 DEF IInv

\* FindRouterMessage, not exploritory.
LEMMA FindInv ==
  ASSUME IInv, NEW m \in msgs, HandleFindRouter(m)
  PROVE  IInv'
  <1> DEFINE r == m.to
             s == Forward(r, m)
             w == [node |-> m.from, txid |-> m.txid]
  <1>1. /\ TypeOK /\ Holders /\ r \in Routers /\ m.from \in Routers /\ m.txid \in Nat
        /\ m.key \in Keys /\ w \in Owners /\ m.type = "find"
    BY MessageFields DEF IInv, HandleFindRouter
  <1>2. UNCHANGED <<nodes, db, inserting, explores, issued, answers, explored>>
    BY DEF HandleFindRouter
  <1>3. CASE Receive(m) /\ UNCHANGED <<ids, lookups>>
    <2> DEFINE replies == {}
    <2>1. /\ msgs' = (msgs \ {m}) \cup replies
          /\ \A x \in replies : x \in Messages /\ \A y, z \in x.R : y = z
      BY <1>3 DEF Receive
    <2> HIDE DEF replies
    <2>2. UNCHANGED <<nodes, db, inserting, ids, lookups, explores, issued, answers, explored>>
      BY <1>2, <1>3
    <2> QED
      BY <2>1, <2>2, ReplyInv, Zenon
  <1>4. ASSUME NEW R \in SUBSET Keys, \A x, y \in R : x = y,
               msgs' = (msgs \ {m}) \cup {Got(r, m.from, m.txid, R)}, UNCHANGED <<ids, lookups>>
        PROVE  IInv'
    <2> DEFINE p == Got(r, m.from, m.txid, R)
    <2>1. p \in Messages /\ \A x, y \in p.R : x = y
      BY <1>1, <1>4 DEF Got, Messages
    <2> HIDE DEF p
    <2> DEFINE replies == {p}
    <2>2. /\ msgs' = (msgs \ {m}) \cup replies
          /\ \A x \in replies : x \in Messages /\ \A y, z \in x.R : y = z
      BY <1>4, <2>1 DEF p
    <2> HIDE DEF replies
    <2> QED
      BY <1>2, <1>4, <2>2, ReplyInv
  <1>5. CASE /\ s # <<>> /\ LookupRouters(r, lookups[r], s)
             /\ msgs' = (msgs \ {m}) \cup Requests(r, lookups[r], s)
    <2> DEFINE candidates == nodes[r] \ {m.from, r}
               next == Closest(candidates, m.key)
               q == Request(r, next, m.key, w, NoHandler)
               closer == candidates # {} /\ (next = m.key \/ Dist(next, m.key) < Dist(r, m.key))
    <2>0. s = IF closer THEN <<q>> ELSE <<>>
      BY Zenon DEF Forward
    <2>1. closer /\ s = <<q>>
      BY <1>5, <2>0, Zenon
    <2>2. candidates \in SUBSET Keys /\ candidates \in SUBSET Routers
      BY <1>1, KeysAssumption DEF TypeOK
    <2> HIDE DEF candidates
    <2>3. next \in Routers
      BY <1>1, <2>1, <2>2, ClosestIn, Zenon
    <2> HIDE DEF next
    <2>4. NoHandler \in Handlers /\ NoHandler \notin Asks
      BY NoSuchAsk DEF Handlers
    <2>5. GoodRequest(r, q)
      BY <1>1, <2>1, <2>3, <2>4, MakeRequest
    <2>6. HolderInv(r, lookups[r], ids[r]) /\ issued' \subseteq Asks
      BY <1>1, <1>2 DEF Holders, TypeOK
    <2> DEFINE rest == msgs \ {m}
    <2>7. rest \in SUBSET msgs
      OBVIOUS
    <2>8. /\ LookupRouters(r, lookups[r], <<q>>)
          /\ msgs' = rest \cup Requests(r, lookups[r], <<q>>)
      <3> HIDE DEF q, s
      <3> QED
        BY <1>5, <2>1, Zenon
    <2> HIDE DEF q, rest
    <2> QED
      BY <1>1, <1>2, <2>5, <2>6, <2>7, <2>8, LookupMore
  <1> QED
    <2> DEFINE dropped == r \notin Transit \/ HasPendingLookupFrom(lookups[r], w)
               R == IF m.key \in Allowed /\ m.key \in db[r] \cup {r} THEN {m.key} ELSE {}
    <2>1. CASE dropped
      BY <1>3, <2>1 DEF HandleFindRouter
    <2>2. CASE ~dropped /\ (m.key \notin Allowed \/ m.key \in db[r] \cup {r} \/ s = <<>>)
      <3>1. R \in SUBSET Keys /\ \A x, y \in R : x = y
        BY <1>1
      <3>2. msgs' = (msgs \ {m}) \cup {Got(r, m.from, m.txid, R)} /\ UNCHANGED <<ids, lookups>>
        <4>1. CASE m.key \in Allowed /\ m.key \in db[r] \cup {r}
          <5>1. R = {m.key}
            BY <4>1
          <5> QED
            BY <2>2, <4>1, <5>1, Zenon DEF HandleFindRouter
        <4>2. CASE ~(m.key \in Allowed /\ m.key \in db[r] \cup {r})
          <5>1. R = {}
            BY <4>2
          <5> QED
            BY <2>2, <4>2, <5>1, Zenon DEF HandleFindRouter
        <4> QED
          BY <4>1, <4>2
      <3> HIDE DEF R
      <3> QED
        BY <1>4, <3>1, <3>2, Zenon
    <2>3. CASE ~dropped /\ m.key \in Allowed /\ m.key \notin db[r] \cup {r} /\ s # <<>>
      <3>1. /\ s # <<>> /\ LookupRouters(r, lookups[r], s)
            /\ msgs' = (msgs \ {m}) \cup Requests(r, lookups[r], s)
        BY <2>3, Zenon DEF HandleFindRouter
      <3> QED
        BY <1>5, <3>1, Zenon
    <2> QED
      BY <2>1, <2>2, <2>3

\* FindRouterMessage, exploritory.
LEMMA ExploreMsgInv ==
  ASSUME IInv, NEW m \in msgs, HandleExplore(m)
  PROVE  IInv'
  <1> DEFINE r == m.to
  <1>1. TypeOK /\ r \in Routers /\ m.from \in Routers /\ m.txid \in Nat
    <2>1. TypeOK
      BY DEF IInv
    <2> QED
      BY <2>1, MessageFields, Zenon
  <1>2. UNCHANGED <<nodes, db, inserting, ids, lookups, explores, issued, answers, explored>>
    BY DEF HandleExplore
  <1>3. CASE Receive(m)
    <2> DEFINE replies == {}
    <2>1. /\ msgs' = (msgs \ {m}) \cup replies
          /\ \A x \in replies : x \in Messages /\ \A y, z \in x.R : y = z
      BY <1>3 DEF Receive
    <2> HIDE DEF replies
    <2> QED
      BY <1>2, <2>1, ReplyInv, Zenon
  <1>4. ASSUME NEW N \in NearSets(r, m.from),
               msgs' = (msgs \ {m}) \cup {GotNear(r, m.from, m.txid, N)}
        PROVE  IInv'
    <2> DEFINE p == GotNear(r, m.from, m.txid, N)
    <2>1. N \in SUBSET Routers
      BY <1>1 DEF NearSets, TypeOK
    <2>2. p \in Messages /\ \A x, y \in p.R : x = y
      BY <1>1, <2>1 DEF GotNear, Messages
    <2> HIDE DEF p
    <2> DEFINE replies == {p}
    <2>3. /\ msgs' = (msgs \ {m}) \cup replies
          /\ \A x \in replies : x \in Messages /\ \A y, z \in x.R : y = z
      BY <1>4, <2>2 DEF p
    <2> HIDE DEF replies
    <2> QED
      BY <1>2, <2>3, ReplyInv
  <1> QED
    BY <1>3, <1>4 DEF HandleExplore

\* TXHolder::NotFound and AskNextPeer.
LEMMA GotNothingInv ==
  ASSUME IInv, NEW m \in msgs, m.type = "got",
         HasPendingLookupFrom(lookups[m.to], [node |-> m.from, txid |-> m.txid]),
         GotNothing(m), UNCHANGED <<nodes, db, explores, issued, explored>>
  PROVE  IInv'
  <1> DEFINE r == m.to
             o == [node |-> m.from, txid |-> m.txid]
             h == lookups[r]
             t == h.tx[o]
             asked == t.asked \cup {m.from}
             candidates == nodes[r] \ asked
             peer == Closest(candidates, t.target)
             h2 == [h EXCEPT !.tx[o].asked = asked \cup {peer}]
             handler == IF t.handler.via = "path" THEN NoHandler ELSE t.handler
             q == Request(r, peer, t.target, t.whoasked, handler)
             rest == msgs \ {m}
             far == candidates = {} \/ Dist(m.from, t.target) < Dist(peer, t.target)
  <1>1. TypeOK /\ Holders
    BY DEF IInv
  <1>2. r \in Routers /\ m.from \in Routers /\ o \in Owners /\ o.node = m.from
    BY <1>1, MessageFields
  <1>3. /\ HolderInv(r, h, ids[r]) /\ HolderOK(h) /\ o \in DOMAIN h.tx
        /\ GoodTX(r, m.from, t)
    <2>1. HolderInv(r, h, ids[r])
      BY <1>1, <1>2, Zenon DEF Holders
    <2>2. o \in DOMAIN h.tx
      BY Zenon DEF HasPendingLookupFrom
    <2> HIDE DEF h, o
    <2> QED
      BY <1>2, <2>1, <2>2, Zenon DEF HolderInv
  <1>4. t \in Transaction
    <2>1. h.tx \in [DOMAIN h.tx -> Transaction]
      BY <1>3, Zenon DEF HolderOK
    <2> HIDE DEF h, o
    <2> QED
      BY <1>3, <2>1, Zenon
  <1>5. /\ t.target \in Keys /\ t.asked \in SUBSET Routers /\ t.whoasked \in Owners
        /\ t.handler \in Handlers
    <2> HIDE DEF t
    <2> QED
      BY <1>4 DEF Transaction, Owners
  <1>6. rest \in SUBSET msgs
    OBVIOUS
  <1>7. CASE far
    <2> DEFINE keys == {t.target}
               values == {}
    <2>1. InformLookups(r, keys, values, rest) /\ UNCHANGED ids
      BY <1>7, Zenon DEF GotNothing
    <2>2. /\ values \in SUBSET Keys
          /\ \A v \in values, k \in keys : v = k
          /\ \A v, w \in values : v = w
      OBVIOUS
    <2>3. /\ explores' = [x \in Routers |-> explores'[x]]
          /\ \A x \in Routers : HolderInv(x, explores'[x], ids[x])
      BY <1>1 DEF TypeOK, Holders
    <2> HIDE DEF keys, values, rest, r
    <2> QED
      BY <1>2, <1>6, <2>1, <2>2, <2>3, InformStep
  <1>8. CASE ~far
    <2>1. /\ LookupRouters(r, h2, <<q>>)
          /\ msgs' = rest \cup Requests(r, h2, <<q>>)
          /\ UNCHANGED <<inserting, answers>>
      BY <1>8, Zenon DEF GotNothing
    <2>2. candidates \in SUBSET Keys /\ candidates \in SUBSET Routers /\ candidates # {}
      <3>1. candidates # {}
        BY <1>8, Zenon
      <3> HIDE DEF asked, r
      <3>2. nodes[r] \in SUBSET Routers
        BY <1>1, <1>2 DEF TypeOK
      <3>3. candidates \subseteq Routers /\ Routers \subseteq Keys
        BY <3>2, KeysAssumption
      <3> HIDE DEF candidates
      <3>4. candidates \subseteq Keys
        BY <3>3, Zenon
      <3> QED
        BY <3>1, <3>3, <3>4, Zenon
    <2>3. peer \in Routers /\ peer \in Keys
      <3> HIDE DEF candidates, t
      <3>1. peer \in candidates
        BY <1>5, <2>2, ClosestIn, Zenon
      <3> QED
        BY <2>2, <3>1
    <2>4. asked \cup {peer} \in SUBSET Routers
      <3> HIDE DEF t, peer
      <3> QED
        BY <1>2, <1>5, <2>3
    <2>5. HolderInv(r, h2, ids[r])
      <3> DEFINE S == asked \cup {peer}
      <3>1. S \in SUBSET Routers
        BY <2>4, Zenon
      <3> HIDE DEF S, h, o, r
      <3>2. HolderInv(r, [h EXCEPT !.tx[o].asked = S], ids[r])
        BY <1>3, <3>1, AskedInv, Zenon
      <3> QED
        BY <3>2, Zenon DEF S
    <2>6. /\ handler \in Handlers
          /\ handler \in Asks => t.target = handler.key /\ t.whoasked.node = r
      <3> HIDE DEF t, r
      <3> QED
        BY <1>3, <1>5, NoSuchAsk DEF Handlers, GoodTX
    <2>7. handler = NoHandler /\ t.whoasked.node # r
            => peer = t.target \/ Dist(peer, t.target) < Dist(r, t.target)
      <3> HIDE DEF t, r, peer
      <3> SUFFICES ASSUME handler = NoHandler, t.whoasked.node # r
                   PROVE  peer = t.target \/ Dist(peer, t.target) < Dist(r, t.target)
        OBVIOUS
      <3>1. t.handler = NoHandler
        BY <1>3, <1>5 DEF Handlers, GoodTX, NoHandler, ExploreHandler
      <3>2. m.from = t.target \/ Dist(m.from, t.target) < Dist(r, t.target)
        BY <1>3, <3>1 DEF GoodTX
      <3>3. ~(Dist(m.from, t.target) < Dist(peer, t.target))
        BY <1>8, Zenon DEF far
      <3>4. m.from \in Keys /\ r \in Keys
        BY <1>2, KeysAssumption
      <3> QED
        BY <1>5, <2>3, <3>2, <3>3, <3>4, KeysAssumption
    <2>8. GoodRequest(r, q)
      <3> HIDE DEF r, peer, t, handler
      <3> QED
        BY <1>2, <1>5, <2>3, <2>6, <2>7, MakeRequest
    <2>9. issued' \subseteq Asks
      BY <1>1 DEF TypeOK
    <2> HIDE DEF r, h2, q, rest
    <2> QED
      BY <1>2, <1>6, <2>1, <2>5, <2>8, <2>9, LookupMore
  <1> QED
    BY <1>7, <1>8, Zenon

\* GotRouterMessage for an explore job.
LEMMA GotExploreInv ==
  ASSUME IInv, NEW m \in msgs, m.type = "got", GotExplore(m),
         UNCHANGED <<nodes, db, issued, explored>>
  PROVE  IInv'
  <1> DEFINE r == m.to
             h == explores[r]
             g == lookups[r]
             informed == Informed(h, {m.from})
             found == IF nodes[r] = {} THEN {} ELSE informed \X m.N
             k == Cardinality(found)
  <1>1. TypeOK /\ Holders /\ OneContact /\ AnswersMatch
    BY DEF IInv
  <1>2. r \in Routers /\ m.N \in SUBSET Routers
    BY <1>1, MessageFields, Zenon
  <1>3. PICK s \in Enumerations(found) :
          /\ explores' = [explores EXCEPT ![r] = Inform(h, {m.from})]
          /\ LookupRouters(r, g, FoundLookups(r, s))
          /\ msgs' = (msgs \ {m}) \cup Requests(r, g, FoundLookups(r, s))
          /\ UNCHANGED <<inserting, answers>>
    BY Zenon DEF GotExplore
  <1> DEFINE t == FoundLookups(r, s)
  <1>4. /\ explores' = [explores EXCEPT ![r] = Inform(h, {m.from})]
        /\ LookupRouters(r, g, t)
        /\ msgs' = (msgs \ {m}) \cup Requests(r, g, t)
        /\ UNCHANGED <<inserting, answers>>
    BY <1>3, Zenon
  <1>5. k \in Nat
    <2>1. IsFiniteSet(m.N)
      BY <1>2, KeysAssumption, FS_Subset
    <2>2. IsFiniteSet(informed)
      <3>1. HolderOK(h)
        BY <1>1, <1>2 DEF TypeOK
      <3>2. IsFiniteSet(DOMAIN h.tx) /\ informed \in SUBSET DOMAIN h.tx
        <4>1. IsFiniteSet(DOMAIN h.tx)
          BY <3>1, Zenon DEF HolderOK
        <4>2. informed \in SUBSET DOMAIN h.tx
          BY Zenon DEF Informed
        <4> QED
          BY <4>1, <4>2, Zenon
      <3> HIDE DEF informed
      <3> QED
        BY <3>2, FS_Subset
    <2> DEFINE N == m.N
    <2> HIDE DEF informed, N
    <2>3. IsFiniteSet(informed \X N)
      BY <2>1, <2>2, FS_Product DEF N
    <2>4. IsFiniteSet(found)
      BY <2>3, FS_EmptySet DEF N
    <2> HIDE DEF found
    <2> QED
      BY <2>4, FS_CardinalityType
  <1> HIDE DEF informed
  <1>6. /\ s \in [1..k -> found]
        /\ \A x \in found : x[2] \in m.N /\ nodes[r] # {}
    <2>1. \A x \in found : x[2] \in m.N /\ nodes[r] # {}
      OBVIOUS
    <2> HIDE DEF found
    <2>2. s \in [1..k -> found]
      BY <1>3 DEF Enumerations
    <2> QED
      BY <2>1, <2>2
  <1> HIDE DEF found, k
  <1>7. DOMAIN t = 1..k
    BY <1>6 DEF FoundLookups
  <1>8. ASSUME NEW i \in 1..k
        PROVE  GoodRequest(r, t[i])
    <2> DEFINE pk == s[i][2]
               near == nodes[r]
               w == [node |-> r, txid |-> 0]
    <2>1. s[i] \in found
      BY <1>6
    <2>2. near # {} /\ pk \in m.N
      BY <1>6, <2>1
    <2>3. /\ pk \in Keys /\ near \in SUBSET Keys /\ near \in SUBSET Routers
      BY <1>1, <1>2, <2>2, KeysAssumption DEF TypeOK
    <2>4. w \in Owners /\ w.node = r /\ ExploreHandler \in Handlers
      BY <1>2 DEF Owners, Handlers
    <2>5. t[i] = Request(r, Closest(near, pk), pk, w, ExploreHandler)
      BY <1>6 DEF FoundLookups
    <2> HIDE DEF pk, near, r, w, t
    <2>6. Closest(near, pk) \in Routers
      <3>1. Closest(near, pk) \in near
        BY <2>2, <2>3, ClosestIn, Zenon
      <3> QED
        BY <2>3, <3>1
    <2>7. GoodRequest(r, Request(r, Closest(near, pk), pk, w, ExploreHandler))
      BY <1>2, <2>3, <2>4, <2>6, NoSuchAsk, MakeRequest
    <2> QED
      BY <2>5, <2>7, Zenon
  <1>9. HolderInv(r, g, ids[r])
    BY <1>1, <1>2 DEF Holders
  <1> HIDE DEF t, k, g, r
  <1>10. /\ ids' \in [Routers -> Nat]
         /\ lookups' = [q \in Routers |-> lookups'[q]]
         /\ \A q \in Routers : /\ HolderInv(q, lookups'[q], ids'[q])
                               /\ HolderInv(q, explores[q], ids'[q])
         /\ \A x \in Requests(r, g, t) : x \in Messages /\ x.type = "find"
    BY <1>1, <1>2, <1>4, <1>5, <1>7, <1>8, <1>9, LookupStep
  <1>11. HolderInv(r, Inform(h, {m.from}), ids'[r])
    BY <1>2, <1>10, InformInv
  <1>12. explores = [q \in Routers |-> explores[q]] /\ msgs \subseteq Messages
    BY <1>1 DEF TypeOK
  <1>13. explores' = [q \in Routers |-> explores'[q]]
    BY <1>4, <1>12, Zenon
  <1>14. \A q \in Routers : HolderInv(q, explores'[q], ids'[q])
    BY <1>4, <1>10, <1>11, <1>12
  <1>15. msgs' \subseteq Messages
    BY <1>4, <1>10, <1>12
  <1>16. OneContact'
    BY <1>1, <1>4, <1>10 DEF OneContact
  <1>17. /\ answers' \in [Asks -> SUBSET SUBSET (Keys \cup {EmptyRC, NoPath})]
         /\ inserting' \subseteq Routers \X Keys /\ issued' \subseteq Asks
         /\ explored' \in 0..MaxExplores
    BY <1>1, <1>4 DEF TypeOK
  <1>18. AnswersMatch'
    BY <1>1, <1>4 DEF AnswersMatch
  <1> QED
    BY <1>1, <1>10, <1>13, <1>14, <1>15, <1>16, <1>17, <1>18, Assemble

\* GotRouterMessage.
LEMMA GotRouterInv ==
  ASSUME IInv, NEW m \in msgs, HandleGotRouter(m)
  PROVE  IInv'
  <1> DEFINE r == m.to
             o == [node |-> m.from, txid |-> m.txid]
             rest == msgs \ {m}
  <1>1. TypeOK /\ Holders /\ OneContact
    BY DEF IInv
  <1>2. m.type = "got" /\ UNCHANGED <<nodes, db, issued, explored>>
    BY Zenon DEF HandleGotRouter
  <1>3. r \in Routers /\ m.R \in SUBSET Keys
    BY <1>1, <1>2, MessageFields, Zenon
  <1>4. CASE HasPendingLookupFrom(explores[r], o)
    <2>1. GotExplore(m)
      BY <1>4 DEF HandleGotRouter
    <2> QED
      BY <1>2, <2>1, GotExploreInv
  <1>5. CASE ~HasPendingLookupFrom(explores[r], o) /\ ~HasPendingLookupFrom(lookups[r], o)
    <2> DEFINE replies == {}
    <2>1. /\ msgs' = (msgs \ {m}) \cup replies
          /\ \A x \in replies : x \in Messages /\ \A y, z \in x.R : y = z
      BY <1>5 DEF Receive, HandleGotRouter
    <2>2. UNCHANGED <<inserting, ids, lookups, answers, explores>>
      BY <1>5 DEF HandleGotRouter
    <2>3. UNCHANGED <<nodes, db, inserting, ids, lookups, explores, issued, answers, explored>>
      BY <1>2, <2>2
    <2> HIDE DEF replies
    <2> QED
      BY <2>1, <2>3, ReplyInv, Zenon
  <1>6. CASE /\ ~HasPendingLookupFrom(explores[r], o)
             /\ HasPendingLookupFrom(lookups[r], o) /\ m.R = {}
    <2>1. GotNothing(m) /\ UNCHANGED explores
      BY <1>6 DEF HandleGotRouter
    <2> QED
      BY <1>2, <1>6, <2>1, GotNothingInv
  <1>7. CASE /\ ~HasPendingLookupFrom(explores[r], o)
             /\ HasPendingLookupFrom(lookups[r], o) /\ m.R # {}
    <2>1. /\ UNCHANGED <<explores, ids>>
          /\ \E values \in Validated(m.R) : InformLookups(r, m.R, values, rest)
      BY <1>7 DEF HandleGotRouter
    <2>2. PICK values \in Validated(m.R) : InformLookups(r, m.R, values, rest)
      BY <2>1
    <2> DEFINE keys == m.R
    <2>3. \A x, y \in keys : x = y
      BY <1>1, <1>2 DEF OneContact
    <2>4. values \in SUBSET Keys /\ values \in SUBSET keys
      BY <1>3 DEF Validated
    <2>5. InformLookups(r, keys, values, rest)
      BY <2>2
    <2>6. (\A v \in values, k \in keys : v = k) /\ (\A v, w \in values : v = w)
      BY <2>3, <2>4
    <2>7. /\ explores' = [x \in Routers |-> explores'[x]]
          /\ \A x \in Routers : HolderInv(x, explores'[x], ids[x])
      BY <1>1, <2>1 DEF TypeOK, Holders
    <2>8. rest \in SUBSET msgs
      OBVIOUS
    <2> HIDE DEF keys, rest, r
    <2> QED
      BY <1>2, <1>3, <2>1, <2>4, <2>5, <2>6, <2>7, <2>8, InformStep
  <1> QED
    BY <1>4, <1>5, <1>6, <1>7

\* Context::Explore.
LEMMA ExploreInv ==
  ASSUME IInv, NEW r \in Routers, NEW S \in SUBSET nodes[r], Explore(r, S)
  PROVE  IInv'
  <1> DEFINE h == explores[r]
             k == Cardinality(S)
  <1>1. TypeOK /\ Holders /\ OneContact /\ AnswersMatch
    BY DEF IInv
  <1>2. /\ HolderInv(r, h, ids[r]) /\ ids[r] \in Nat /\ ids \in [Routers -> Nat]
        /\ S \in SUBSET Routers /\ explores = [q \in Routers |-> explores[q]]
        /\ msgs \subseteq Messages
    BY <1>1 DEF Holders, TypeOK
  <1>3. k \in Nat
    <2>1. IsFiniteSet(S)
      BY <1>2, KeysAssumption, FS_Subset
    <2> QED
      BY <2>1, FS_CardinalityType
  <1>4. PICK s \in Enumerations(S) :
          /\ explores' = [explores EXCEPT ![r] = NewTX(@, Transactions(r, ExploreJobs(r, s)))]
          /\ ids' = [ids EXCEPT ![r] = @ + k]
          /\ msgs' = msgs \cup {ExploreMsg(r, o) :
                                  o \in Started(h, Transactions(r, ExploreJobs(r, s)))}
    BY Zenon DEF Explore
  <1> DEFINE t == ExploreJobs(r, s)
             new == Transactions(r, t)
             g == NewTX(h, new)
  <1>5. /\ explores' = [explores EXCEPT ![r] = g]
        /\ ids' = [ids EXCEPT ![r] = @ + k]
        /\ msgs' = msgs \cup {ExploreMsg(r, o) : o \in Started(h, new)}
    BY <1>4
  <1> HIDE DEF k
  <1>6. s \in [1..k -> S]
    BY <1>4 DEF Enumerations, k
  <1>7. DOMAIN t = 1..k
    BY <1>6 DEF ExploreJobs
  <1>8. \A i \in 1..k : /\ t[i].peer \in Routers
                        /\ t[i].tx \in Transaction
                        /\ GoodTX(r, t[i].peer, t[i].tx)
    <2> SUFFICES ASSUME NEW i \in 1..k
                 PROVE  /\ t[i].peer \in Routers
                        /\ t[i].tx \in Transaction
                        /\ GoodTX(r, t[i].peer, t[i].tx)
      OBVIOUS
    <2>1. /\ t[i].peer = s[i]
          /\ t[i].tx = [target |-> s[i], asked |-> {}, whoasked |-> [node |-> r, txid |-> 0],
                        handler |-> NoHandler]
      BY <1>6 DEF ExploreJobs
    <2>2. s[i] \in Routers /\ s[i] \in Keys
      BY <1>2, <1>6, KeysAssumption
    <2> HIDE DEF t
    <2> QED
      BY <2>1, <2>2, NoSuchAsk DEF Transaction, GoodTX, Handlers
  <1> HIDE DEF t
  <1>9. /\ IsFiniteSet(DOMAIN new) /\ DOMAIN new \subseteq Owners
        /\ new \in [DOMAIN new -> Transaction]
        /\ \A o \in DOMAIN new : /\ ids[r] < o.txid /\ o.txid <= ids[r] + k
                                 /\ GoodTX(r, o.node, new[o])
    BY <1>2, <1>3, <1>7, <1>8, NewOwners
  <1> HIDE DEF new
  <1>10. HolderInv(r, g, ids[r] + k)
    BY <1>2, <1>3, <1>9, NewTXInv
  <1> HIDE DEF g
  <1>11. UNCHANGED <<nodes, db, inserting, lookups, issued, answers>>
    BY Zenon DEF Explore
  <1>12. ids' \in [Routers -> Nat]
    BY <1>2, <1>3, <1>5
  <1>13. explores' = [q \in Routers |-> explores'[q]]
    BY <1>2, <1>5, Zenon
  <1>14. ASSUME NEW q \in Routers
         PROVE  HolderInv(q, lookups'[q], ids'[q]) /\ HolderInv(q, explores'[q], ids'[q])
    <2>1. CASE q = r
      <3>1. explores'[q] = g /\ ids'[q] = ids[r] + k
        BY <1>2, <1>5, <2>1
      <3>2. HolderInv(r, lookups[r], ids[r])
        BY <1>1 DEF Holders
      <3>3. HolderInv(r, lookups[r], ids[r] + k)
        BY <1>2, <1>3, <3>2, MoreIds
      <3> QED
        BY <1>10, <1>11, <2>1, <3>1, <3>3
    <2>2. CASE q # r
      <3>1. explores'[q] = explores[q] /\ ids'[q] = ids[q]
        BY <1>2, <1>5, <2>2
      <3> QED
        BY <1>1, <1>11, <3>1 DEF Holders
    <2> QED
      BY <2>1, <2>2
  <1>15. \A o \in Started(h, new) :
           ExploreMsg(r, o) \in Messages /\ ExploreMsg(r, o).type = "explore"
    BY <1>9 DEF Started, ExploreMsg, Messages, Owners
  <1>16. msgs' \subseteq Messages
    BY <1>2, <1>5, <1>15
  <1>17. OneContact'
    <2> DEFINE sent == {ExploreMsg(r, o) : o \in Started(h, new)}
    <2>1. \A m \in sent : m.type # "got"
      BY <1>15
    <2>2. msgs' = msgs \cup sent
      BY <1>5, Zenon
    <2> HIDE DEF sent
    <2> QED
      BY <1>1, <2>1, <2>2, Zenon DEF OneContact
  <1>18. /\ answers' \in [Asks -> SUBSET SUBSET (Keys \cup {EmptyRC, NoPath})]
         /\ inserting' \subseteq Routers \X Keys /\ issued' \subseteq Asks
         /\ lookups' = [q \in Routers |-> lookups'[q]]
    BY <1>1, <1>11 DEF TypeOK
  <1>19. explored' \in 0..MaxExplores
    BY <1>1, InitAssumption DEF TypeOK, Explore
  <1>20. AnswersMatch'
    BY <1>1, <1>11 DEF AnswersMatch
  <1> QED
    BY <1>1, <1>11, <1>12, <1>13, <1>14, <1>16, <1>17, <1>18, <1>19, <1>20, Assemble

\* Context::CleanupTX.
LEMMA CleanupInv ==
  ASSUME IInv, NEW r \in Routers, CleanupTX(r)
  PROVE  IInv'
  <1> DEFINE keys == ExpiredKeys(lookups[r])
             values == {}
             rest == msgs
             g == Inform(explores[r], ExpiredKeys(explores[r]))
  <1>1. TypeOK /\ Holders
    BY DEF IInv
  <1>2. explores' = [explores EXCEPT ![r] = g]
    BY DEF CleanupTX
  <1>3. /\ InformLookups(r, keys, values, rest)
        /\ UNCHANGED <<nodes, db, ids, issued, explored>>
    BY DEF CleanupTX
  <1>4. /\ explores = [q \in Routers |-> explores[q]]
        /\ \A q \in Routers : HolderInv(q, explores[q], ids[q])
    BY <1>1 DEF TypeOK, Holders
  <1>5. HolderInv(r, g, ids[r])
    BY <1>4, InformInv
  <1>6. /\ values \in SUBSET Keys /\ rest \in SUBSET msgs
        /\ \A v \in values, k \in keys : v = k
        /\ \A v, w \in values : v = w
    OBVIOUS
  <1> HIDE DEF g, keys, values, rest
  <1>7. explores' = [q \in Routers |-> explores'[q]]
    BY <1>2, <1>4, Zenon
  <1>8. \A q \in Routers : HolderInv(q, explores'[q], ids[q])
    BY <1>2, <1>4, <1>5
  <1> QED
    BY <1>6, <1>7, <1>8, <1>3, InformStep

\* The clock.
LEMMA TickInv ==
  ASSUME IInv, Tick
  PROVE  IInv'
  <1>1. TypeOK /\ Holders /\ OneContact /\ AnswersMatch
    BY DEF IInv
  <1>2. /\ lookups' = [r \in Routers |-> Age(lookups[r])]
        /\ explores' = [r \in Routers |-> Age(explores[r])]
        /\ UNCHANGED <<nodes, db, inserting, ids, msgs, issued, answers, explored>>
    BY DEF Tick
  <1>3. \A r \in Routers : HolderInv(r, lookups'[r], ids'[r]) /\ HolderInv(r, explores'[r], ids'[r])
    BY <1>1, <1>2, AgeInv DEF Holders
  <1>4. /\ lookups' = [r \in Routers |-> lookups'[r]]
        /\ explores' = [r \in Routers |-> explores'[r]]
    BY <1>2
  <1>5. OneContact' /\ AnswersMatch'
    BY <1>1, <1>2 DEF OneContact, AnswersMatch
  <1>6. /\ inserting' \subseteq Routers \X Keys /\ ids' \in [Routers -> Nat]
        /\ msgs' \subseteq Messages /\ issued' \subseteq Asks
        /\ answers' \in [Asks -> SUBSET SUBSET (Keys \cup {EmptyRC, NoPath})]
        /\ explored' \in 0..MaxExplores
    BY <1>1, <1>2 DEF TypeOK
  <1> QED
    BY <1>1, <1>2, <1>3, <1>4, <1>5, <1>6, Assemble

\* Sessions, the nodedb and steps that change nothing.
LEMMA OtherInv ==
  ASSUME IInv, nodes' \in [Routers -> SUBSET Routers], \A r \in Routers : r \notin nodes'[r],
         db' \in [Routers -> SUBSET Keys], inserting' \subseteq inserting,
         UNCHANGED <<ids, lookups, explores, msgs, issued, answers, explored>>
  PROVE  IInv'
  <1>1. TypeOK /\ Holders /\ OneContact /\ AnswersMatch
    BY DEF IInv
  <1>2. TypeOK'
    BY <1>1 DEF TypeOK
  <1>3. Holders' /\ OneContact' /\ AnswersMatch'
    BY <1>1 DEF Holders, OneContact, AnswersMatch
  <1> QED
    BY <1>2, <1>3 DEF IInv

-----------------------------------------------------------------------------
\* A context starts with empty holders (Context::Init).
LEMMA InitIInv == Init => IInv
  <1> SUFFICES ASSUME Init PROVE IInv
    OBVIOUS
  <1>1. HolderOK(EmptyHolder)
    <2> DEFINE h == EmptyHolder
    <2>1. /\ h = [tx |-> h.tx, waiting |-> h.waiting, timeouts |-> h.timeouts]
          /\ h.waiting = {}
      BY DEF EmptyHolder
    <2>2. DOMAIN h.tx = {} /\ h.tx \in [DOMAIN h.tx -> Transaction]
      BY DEF EmptyHolder
    <2>3. /\ DOMAIN h.timeouts = {}
          /\ h.timeouts \in [DOMAIN h.timeouts -> -RequestTimeout..RequestTimeout]
      BY DEF EmptyHolder
    <2> HIDE DEF h
    <2>4. HolderOK(h)
      BY <2>1, <2>2, <2>3, FS_EmptySet DEF HolderOK
    <2> QED
      BY <2>4 DEF h
  <1>2. \A r, n : HolderInv(r, EmptyHolder, n)
    BY <1>1 DEF HolderInv, Tracked, EmptyHolder
  <1>3. TypeOK
    BY <1>1, InitAssumption DEF Init, TypeOK
  <1>4. Holders
    BY <1>2 DEF Holders, Init
  <1>5. OneContact /\ AnswersMatch
    <2>1. msgs = {} /\ \A a \in Asks : answers[a] = {}
      BY DEF Init
    <2> QED
      BY <2>1, Zenon DEF OneContact, AnswersMatch
  <1> QED
    BY <1>3, <1>4, <1>5 DEF IInv

\* Every handler and timer of dht::Context preserves the invariant.
LEMMA NextIInv == IInv /\ [Next]_vars => IInv'
  <1> SUFFICES ASSUME IInv, [Next]_vars PROVE IInv'
    OBVIOUS
  <1>1. /\ nodes \in [Routers -> SUBSET Routers] /\ \A r \in Routers : r \notin nodes[r]
        /\ db \in [Routers -> SUBSET Keys]
    BY DEF IInv, TypeOK
  <1>2. CASE \E a \in Asks : Ask(a)
    BY <1>2, AskInv
  <1>3. ASSUME NEW m \in msgs, HandleFindRouter(m) \/ HandleExplore(m) \/ HandleGotRouter(m)
        PROVE  IInv'
    BY <1>3, FindInv, ExploreMsgInv, GotRouterInv, Zenon
  <1>4. ASSUME NEW r \in Explorers, NEW S \in SUBSET nodes[r], Explore(r, S)
        PROVE  IInv'
    BY <1>4, ExploreInv, InitAssumption
  <1>5. ASSUME NEW r \in Routers, NEW k \in Keys, Inserted(r, k)
        PROVE  IInv'
    <2>1. /\ db' = [db EXCEPT ![r] = @ \cup {k}] /\ inserting' \subseteq inserting
          /\ UNCHANGED <<nodes, ids, lookups, explores, msgs, issued, answers, explored>>
      BY <1>5 DEF Inserted
    <2>2. db' \in [Routers -> SUBSET Keys]
      BY <1>1, <2>1
    <2> QED
      BY <1>1, <2>1, <2>2, OtherInv
  <1>6. ASSUME NEW r \in Routers, NEW p \in Routers, PutNode(r, p)
        PROVE  IInv'
    <2>1. /\ nodes' = [nodes EXCEPT ![r] = @ \cup {p}] /\ <<r, p>> \in Churn
          /\ UNCHANGED <<db, inserting, ids, lookups, explores, msgs, issued, answers, explored>>
      BY <1>6 DEF PutNode
    <2>2. r # p
      BY <2>1, InitAssumption
    <2>3. nodes' \in [Routers -> SUBSET Routers] /\ \A q \in Routers : q \notin nodes'[q]
      BY <1>1, <2>1, <2>2
    <2> QED
      BY <1>1, <2>1, <2>3, OtherInv
  <1>7. ASSUME NEW r \in Routers, NEW p \in Routers, DelNode(r, p)
        PROVE  IInv'
    <2>1. /\ nodes' = [nodes EXCEPT ![r] = @ \ {p}]
          /\ UNCHANGED <<db, inserting, ids, lookups, explores, msgs, issued, answers, explored>>
      BY <1>7 DEF DelNode
    <2>2. nodes' \in [Routers -> SUBSET Routers] /\ \A q \in Routers : q \notin nodes'[q]
      BY <1>1, <2>1
    <2> QED
      BY <1>1, <2>1, <2>2, OtherInv
  <1>8. CASE Timers
    BY <1>8, TickInv, CleanupInv DEF Timers
  <1>9. CASE UNCHANGED vars
    BY <1>1, <1>9, OtherInv DEF vars
  <1> QED
    BY <1>2, <1>3, <1>4, <1>5, <1>6, <1>7, <1>8, <1>9 DEF Next

\* The invariant implies the properties.
LEMMA IInvImplies == IInv => TypeOK /\ NoLookupForgotten /\ RelaysGetCloser /\ AnswersMatch
  <1> SUFFICES ASSUME IInv
               PROVE  TypeOK /\ NoLookupForgotten /\ RelaysGetCloser /\ AnswersMatch
    OBVIOUS
  <1>1. TypeOK /\ Holders /\ AnswersMatch
    BY DEF IInv
  <1>2. NoLookupForgotten
    BY <1>1 DEF Holders, HolderInv, NoLookupForgotten
  <1>3. \A r \in Routers : \A o \in DOMAIN lookups[r].tx : GoodTX(r, o.node, lookups[r].tx[o])
    BY <1>1 DEF Holders, HolderInv
  <1>4. RelaysGetCloser
    BY <1>3 DEF GoodTX, RelaysGetCloser
  <1> QED
    BY <1>1, <1>2, <1>4

\* The holders of dht::Context and the messages keep their types.
THEOREM TypeCorrect == Spec => []TypeOK
  BY InitIInv, NextIInv, IInvImplies, PTL DEF Spec

\* TXHolder's three tables agree whatever is added, informed and expired: Inform
\* and Expire reach every pending transaction and no other.
THEOREM HoldersConsistent == Spec => []NoLookupForgotten
  BY InitIInv, NextIInv, IInvImplies, PTL DEF Spec

\* LookupRouterRelayed and AskNextPeer only pass a lookup on to its target or to
\* a router strictly closer to it, for every distance with the identity of XOR.
THEOREM LookupsConverge == Spec => []RelaysGetCloser
  BY InitIInv, NextIInv, IInvImplies, PTL DEF Spec

\* LookupRouter hands a node the contact it asked for, or none.
THEOREM RightContact == Spec => []AnswersMatch
  BY InitIInv, NextIInv, IInvImplies, PTL DEF Spec
=============================================================================
