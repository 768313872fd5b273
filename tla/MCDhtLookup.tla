----------------------------- MODULE MCDhtLookup ----------------------------
EXTENDS DhtLookup, Bitwise

XorTable == [a \in 0..3 |-> [b \in 0..3 |-> a ^^ b]]
XorDist(a, b) == XorTable[a][b]

MCInitNodes == [r \in Routers |-> CASE r = 1 -> {3} [] r = 2 -> {1} [] r = 3 -> {2}]
MCInitDbs == {[r \in Routers |-> {}], [r \in Routers |-> IF r = 1 THEN {0} ELSE {}]}
MCFirstId == [r \in Routers |-> 10 * r]
MCChurn == {<<3, 1>>}
MCAsks == {[at |-> 3, key |-> 0, via |-> "handler"], [at |-> 2, key |-> 0, via |-> "path"]}
=============================================================================
