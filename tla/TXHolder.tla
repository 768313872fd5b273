------------------------------ MODULE TXHolder ------------------------------
(***************************************************************************)
(* llarp::dht::TXHolder: the transactions of one kind that a router has    *)
(* pending in the DHT, as operators on a record                            *)
(*                                                                         *)
(*   tx        what to do with the answer, by owner (peer asked, our id)   *)
(*   waiting   pairs <<key, owner>>: the owners to inform about a key      *)
(*   timeouts  by key, how far the clock is past the deadline the code     *)
(*             stores (negative before it), counted up to RequestTimeout   *)
(***************************************************************************)
EXTENDS Integers

CONSTANT RequestTimeout

ASSUME RequestTimeoutAssumption == RequestTimeout \in Nat \ {0}

EmptyHolder == [tx |-> [o \in {} |-> 0], waiting |-> {}, timeouts |-> [k \in {} |-> 0]]

\* std::unordered_map::emplace: what is already in f stays.
Emplace(f, g) == [x \in DOMAIN f \cup DOMAIN g |-> IF x \in DOMAIN f THEN f[x] ELSE g[x]]

Without(f, S) == [x \in DOMAIN f \ S |-> f[x]]

HasPendingLookupFrom(h, owner) == owner \in DOMAIN h.tx

WaitingFor(h, k) == {w \in h.waiting : w[1] = k}

\* Mutant: the deadline is stored with the timeout added twice.
NewTX_LongTimeout(h, new) ==
  LET targets == {new[o].target : o \in DOMAIN new}
  IN [tx       |-> Emplace(h.tx, new),
      waiting  |-> h.waiting \cup {<<new[o].target, o>> : o \in DOMAIN new},
      timeouts |-> Emplace(h.timeouts, [k \in targets |-> -2 * RequestTimeout])]

(* new maps the owners of the transactions that one handler adds, in the   *)
(* order of their ids, to the transactions.                                *)
NewTX(h, new) ==
  LET targets == {new[o].target : o \in DOMAIN new}
  IN [tx       |-> Emplace(h.tx, new),
      waiting  |-> h.waiting \cup {<<new[o].target, o>> : o \in DOMAIN new},
      timeouts |-> Emplace(h.timeouts, [k \in targets |-> -RequestTimeout])]

\* The owners among DOMAIN new that NewTX also starts: the first for its key.
Started(h, new) ==
  {o \in DOMAIN new :
     /\ WaitingFor(h, new[o].target) = {}
     /\ \A p \in DOMAIN new : new[p].target = new[o].target => o.txid <= p.txid}

\* Mutant: whoever waits for anything is told.
Informed_AnyKey(h, keys) ==
  {o \in DOMAIN h.tx : keys # {} /\ \E w \in h.waiting : w[2] = o}

\* The transactions that Inform replies to when called for each of keys.
Informed(h, keys) == {o \in DOMAIN h.tx : \E k \in keys : <<k, o>> \in h.waiting}

\* Mutant: removeTimeouts defaults to false.
Inform_KeepsTimeouts(h, keys) ==
  [tx       |-> Without(h.tx, Informed(h, keys)),
   waiting  |-> {w \in h.waiting : w[1] \notin keys},
   timeouts |-> h.timeouts]

Inform(h, keys) ==
  [tx       |-> Without(h.tx, Informed(h, keys)),
   waiting  |-> {w \in h.waiting : w[1] \notin keys},
   timeouts |-> Without(h.timeouts, keys)]

\* The keys that Expire informs about: now > t and now - t >= RequestTimeout.
ExpiredKeys(h) == {k \in DOMAIN h.timeouts : h.timeouts[k] >= RequestTimeout}

Age(h) ==
  [h EXCEPT !.timeouts = [k \in DOMAIN h.timeouts |->
     IF h.timeouts[k] < RequestTimeout THEN h.timeouts[k] + 1 ELSE h.timeouts[k]]]
=============================================================================
