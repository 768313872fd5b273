---------------------------- MODULE BoundedQueue ----------------------------
(***************************************************************************)
(* What util/thread/queue_manager promises to its users: a first-in        *)
(* first-out queue of at most Capacity elements.                           *)
(***************************************************************************)
EXTENDS Naturals, Sequences

CONSTANTS Capacity, Values

VARIABLE items

\* Taken up at any point of its life
Init == Len(items) <= Capacity

PushBack(v) == Len(items) < Capacity /\ items' = Append(items, v)

PopFront == items # <<>> /\ items' = Tail(items)

\* (the first conjunct only tells TLC early that nothing happened)
Next == items' # items /\ (PopFront \/ \E v \in Values : PushBack(v))

Spec == Init /\ [][Next]_items
=============================================================================
