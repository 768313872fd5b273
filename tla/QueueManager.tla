---------------------------- MODULE QueueManager ----------------------------
(***************************************************************************)
(* The lock-free queue of llarp/util/thread: QueueManager's atomics and    *)
(* tryPushBack, tryPopFront, disable and enable of Queue on top of it.     *)
(* Every atomic load, store and compare-and-swap is a step of its own.  A  *)
(* relaxed load returns the current value: a thread that sleeps between    *)
(* the load and its use has the stale values a relaxed load may return.    *)
(***************************************************************************)
EXTENDS Integers, Sequences, FiniteSets

CONSTANTS
    Threads,         \* threads that push and pop
    Capacity,        \* m_capacity
    NumGenerations,  \* numGenerations(m_capacity), scaled down
    Start,           \* combined index at which the pop index stands initially
    Filled,          \* elements in the queue initially
    MaxPushes,       \* bound: push operations, the initial elements included
    MaxPops,         \* bound: pop operations
    MaxThrows,       \* bound: constructors of an element that throw
    MaxToggles       \* bound: calls of disable and enable that have an effect

ASSUME QueueAssumption ==
    /\ Capacity \in Nat \ {0} /\ NumGenerations \in Nat \ {0, 1, 2}
    /\ Start \in 0 .. NumGenerations * Capacity - 1
    /\ Filled \in 0 .. Capacity
    /\ {MaxPushes, MaxPops, MaxThrows, MaxToggles} \subseteq Nat
    /\ Filled <= MaxPushes /\ IsFiniteSet(Threads)

Cells == 0 .. Capacity - 1
NumCombined == NumGenerations * Capacity   \* m_maxCombinedIndex + 1
Combined == 0 .. NumCombined - 1

\* An index is compared with one that a thread loaded earlier: the encoding takes for
\* granted that it has not moved on by half of its range since.
ASSUME StalenessAssumption == 2 * (MaxPushes + Capacity) <= NumCombined

Generations == 0 .. NumGenerations - 1
Values == 1 .. MaxPushes
None == -1                                 \* no saved index, no value

VARIABLES
    m_pushIndex, disabled,  \* the push index and its disabled bit
    m_popIndex,
    m_states,               \* [Cells -> [gen, st]]
    m_data,                 \* [Cells -> element]
    th,                     \* [Threads -> the locals of the operation it is in]
    pushes, pops, throws, toggles

counters == <<pushes, pops, throws, toggles>>
vars == <<m_pushIndex, disabled, m_popIndex, m_states, m_data, th, counters>>

(***************************************************************************)
(* pc      where the thread is                                             *)
(* loaded  loadedPushIndex, loadedPopIndex or loadedCombinedIndex          *)
(* flag    the disabled bit loaded with it                                 *)
(* saved   savedPushIndex or savedPopIndex                                 *)
(* cell    the combined index reserved for pushing                         *)
(* value   the element to push, or the one moved out                       *)
(* taken   the element that was in the cell when it was reserved           *)
(***************************************************************************)
Idle == [pc |-> "idle", loaded |-> 0, flag |-> FALSE, saved |-> None,
         cell |-> 0, value |-> None, taken |-> None]

Gen(c) == c \div Capacity
Idx(c) == c % Capacity
nextCombinedIndex(c) == IF c = NumCombined - 1 THEN 0 ELSE c + 1
nextGeneration(g) == IF g = NumGenerations - 1 THEN 0 ELSE g + 1

circularDifference(a, b, modulo) ==
    LET d == a - b
    IN  IF d > modulo \div 2 THEN d - modulo
        ELSE IF d < -(modulo \div 2) THEN d + modulo
        ELSE d

\* mutant: the generation before the first is not the last
PreviousGeneration_NoWrap(c) == Gen(c) - m_states[Idx(c)].gen = 1

\* The generation of the cell is the one before that of c
PreviousGeneration(c) ==
    LET difference == Gen(c) - m_states[Idx(c)].gen
    IN  difference = 1 \/ difference = -(NumGenerations - 1)

\* A queue that Start elements went through and that holds Filled elements
Init ==
    LET at(k) == (Start + k) % NumCombined
        place(i) == CHOOSE k \in Cells : Idx(at(k)) = i
    IN  /\ m_pushIndex = at(Filled) /\ m_popIndex = Start /\ disabled = FALSE
        /\ m_states = [i \in Cells |->
                         [gen |-> Gen(at(place(i))),
                          st |-> IF place(i) < Filled THEN "Full" ELSE "Empty"]]
        /\ m_data = [i \in Cells |-> IF place(i) < Filled THEN place(i) + 1 ELSE None]
        /\ th = [t \in Threads |-> Idle]
        /\ pushes = Filled /\ pops = 0 /\ throws = 0 /\ toggles = 0

At(t, label) == th[t].pc = label
Local(t, l) == th' = [th EXCEPT ![t] = l]
Goto(t, label) == th' = [th EXCEPT ![t].pc = label]
Return(t) == Local(t, Idle)

SetState(c, gen, st) ==
    m_states' = [m_states EXCEPT ![Idx(c)] = [gen |-> gen, st |-> st]]
InState(c, st) == m_states[Idx(c)].gen = Gen(c) /\ m_states[Idx(c)].st = st

\* Locals after a load of the push index, or of the pop index
LoadPush(l) == [l EXCEPT !.pc = "pushReserve", !.loaded = m_pushIndex, !.flag = disabled]
LoadPop(l, label) == [l EXCEPT !.pc = label, !.loaded = m_popIndex]

\* compare_exchange_strong of an index; the disabled bit is part of the push index
SwapPushIndex(c) ==
    m_pushIndex' = IF m_pushIndex = c /\ ~disabled THEN nextCombinedIndex(c)
                   ELSE m_pushIndex

SwapPopIndex(c) ==
    m_popIndex' = IF m_popIndex = c THEN nextCombinedIndex(c) ELSE m_popIndex

-----------------------------------------------------------------------------
(* tryPushBack: reservePushIndex, the constructor and commitPushIndex      *)

PushStart(t) ==
    /\ At(t, "idle") /\ pushes < MaxPushes
    /\ pushes' = pushes + 1
    /\ Local(t, LoadPush([Idle EXCEPT !.value = pushes + 1]))
    /\ UNCHANGED <<m_pushIndex, disabled, m_popIndex, m_states, m_data, pops, throws, toggles>>

PushReload(t) ==
    /\ At(t, "pushReload")
    /\ Local(t, LoadPush(th[t]))
    /\ UNCHANGED <<m_pushIndex, disabled, m_popIndex, m_states, m_data, counters>>

\* mutant: a cell whose element is being moved out counts as full
CellFull_EvenReading(c) == PreviousGeneration(c)

\* The cell still holds the element pushed a generation ago, or its push
CellFull(c) == PreviousGeneration(c) /\ m_states[Idx(c)].st # "Reading"

\* mutant: the saved index is not compared
SeenBefore_Never(t, c) == FALSE

\* The thread made its attempt at this very index before
SeenBefore(t, c) == th[t].saved = c

\* The compare-and-swap of the cell's state and what follows from its result
PushReserve(t) ==
    LET c == th[t].loaded
    IN  /\ At(t, "pushReserve") /\ ~th[t].flag
        /\ \/ /\ InState(c, "Empty")
              /\ SetState(c, Gen(c), "Writing")
              /\ Local(t, [th[t] EXCEPT !.pc = "pushAdvance", !.cell = c])
           \/ /\ PreviousGeneration(c) /\ m_states[Idx(c)].st = "Reading"
              /\ Goto(t, "pushReload")
              /\ UNCHANGED m_states
           \/ /\ CellFull(c) /\ ~SeenBefore(t, c)
              /\ Local(t, [th[t] EXCEPT !.pc = "pushReload", !.saved = c])
              /\ UNCHANGED m_states
           \/ /\ CellFull(c) /\ SeenBefore(t, c)
              /\ Return(t)
              /\ UNCHANGED m_states
           \/ /\ ~InState(c, "Empty") /\ ~PreviousGeneration(c)
              /\ Goto(t, "pushSkip")
              /\ UNCHANGED m_states
        /\ UNCHANGED <<m_pushIndex, disabled, m_popIndex, m_data, counters>>

PushDisabled(t) ==
    /\ At(t, "pushReserve") /\ th[t].flag
    /\ Return(t)
    /\ UNCHANGED <<m_pushIndex, disabled, m_popIndex, m_states, m_data, counters>>

PushSkip(t) ==
    /\ At(t, "pushSkip")
    /\ SwapPushIndex(th[t].loaded)
    /\ Local(t, LoadPush(th[t]))
    /\ UNCHANGED <<disabled, m_popIndex, m_states, m_data, counters>>

PushAdvance(t) ==
    /\ At(t, "pushAdvance")
    /\ SwapPushIndex(th[t].cell)
    /\ Goto(t, "construct")
    /\ UNCHANGED <<disabled, m_popIndex, m_states, m_data, counters>>

\* mutant: the element is constructed in the cell at the current push index
Construct_AtPushIndex(t) ==
    /\ At(t, "construct")
    /\ m_data' = [m_data EXCEPT ![Idx(m_pushIndex)] = th[t].value]
    /\ Goto(t, "pushCommit")
    /\ UNCHANGED <<m_pushIndex, disabled, m_popIndex, m_states, counters>>

\* The element is constructed in the reserved cell
Construct(t) ==
    /\ At(t, "construct")
    /\ m_data' = [m_data EXCEPT ![Idx(th[t].cell)] = th[t].value]
    /\ Goto(t, "pushCommit")
    /\ UNCHANGED <<m_pushIndex, disabled, m_popIndex, m_states, counters>>

CommitPush(t) ==
    /\ At(t, "pushCommit")
    /\ SetState(th[t].cell, Gen(th[t].cell), "Full")
    /\ Return(t)
    /\ UNCHANGED <<m_pushIndex, disabled, m_popIndex, m_data, counters>>

-----------------------------------------------------------------------------
(* tryPopFront: reservePopIndex, the move and ~QueuePopGuard               *)

PopStart(t) ==
    /\ At(t, "idle") /\ pops < MaxPops
    /\ pops' = pops + 1
    /\ Local(t, LoadPop(Idle, "popReserve"))
    /\ UNCHANGED <<m_pushIndex, disabled, m_popIndex, m_states, m_data, pushes, throws, toggles>>

PopReload(t) ==
    /\ At(t, "popReload")
    /\ Local(t, LoadPop(th[t], "popReserve"))
    /\ UNCHANGED <<m_pushIndex, disabled, m_popIndex, m_states, m_data, counters>>

\* The compare-and-swap from Full to Reading in the generation of the index succeeds
Poppable(c) == InState(c, "Full")

\* mutant: a cell being written is skipped like one being read
PopTaken_OrWriting(c) == InState(c, "Reading") \/ InState(c, "Writing")

\* Another popper reserved the cell and may not have advanced the index yet
PopTaken(c) == InState(c, "Reading")

PopReserve(t) ==
    LET c == th[t].loaded
        sameGen == m_states[Idx(c)].gen = Gen(c)
    IN  /\ At(t, "popReserve")
        /\ \/ /\ Poppable(c)
              /\ SetState(c, Gen(c), "Reading")
              /\ Local(t, [th[t] EXCEPT !.pc = "popAdvance", !.taken = m_data[Idx(c)]])
           \/ /\ PreviousGeneration(c) \/ (InState(c, "Empty") /\ SeenBefore(t, c))
              /\ Return(t)
              /\ UNCHANGED m_states
           \/ /\ InState(c, "Empty") /\ ~SeenBefore(t, c)
              /\ Local(t, [th[t] EXCEPT !.pc = "popReload", !.saved = c])
              /\ UNCHANGED m_states
           \/ /\ (~sameGen /\ ~PreviousGeneration(c)) \/ InState(c, "Writing")
              /\ Goto(t, "popReload")
              /\ UNCHANGED m_states
           \/ /\ PopTaken(c)
              /\ Goto(t, "popSkip")
              /\ UNCHANGED m_states
        /\ UNCHANGED <<m_pushIndex, disabled, m_popIndex, m_data, counters>>

PopSkip(t) ==
    /\ At(t, "popSkip")
    /\ SwapPopIndex(th[t].loaded)
    /\ Local(t, LoadPop(th[t], "popReserve"))
    /\ UNCHANGED <<m_pushIndex, disabled, m_states, m_data, counters>>

\* loaded keeps the reserved index: the generation and index of the pop guard
PopAdvance(t) ==
    /\ At(t, "popAdvance")
    /\ SwapPopIndex(th[t].loaded)
    /\ Goto(t, "read")
    /\ UNCHANGED <<m_pushIndex, disabled, m_states, m_data, counters>>

\* mutant: the element is moved out of the cell at the current pop index
Read_AtPopIndex(t) ==
    LET i == Idx(m_popIndex)
    IN  /\ At(t, "read")
        /\ Local(t, [th[t] EXCEPT !.pc = "popCommit", !.value = m_data[i]])
        /\ m_data' = [m_data EXCEPT ![i] = None]
        /\ UNCHANGED <<m_pushIndex, disabled, m_popIndex, m_states, counters>>

\* The element is moved out of the array and destroyed there
Read(t) ==
    LET i == Idx(th[t].loaded)
    IN  /\ At(t, "read")
        /\ Local(t, [th[t] EXCEPT !.pc = "popCommit", !.value = m_data[i]])
        /\ m_data' = [m_data EXCEPT ![i] = None]
        /\ UNCHANGED <<m_pushIndex, disabled, m_popIndex, m_states, counters>>

CommitPop(t) ==
    /\ At(t, "popCommit")
    /\ SetState(th[t].loaded, nextGeneration(Gen(th[t].loaded)), "Empty")
    /\ Return(t)
    /\ UNCHANGED <<m_pushIndex, disabled, m_popIndex, m_data, counters>>

-----------------------------------------------------------------------------
(* ~QueuePushGuard after a constructor that throws: reservePopForClear and *)
(* commitPopIndex for every element before the reserved cell, then         *)
(* abortPushIndexReservation                                               *)

ConstructThrows(t) ==
    /\ At(t, "construct") /\ throws < MaxThrows
    /\ throws' = throws + 1
    /\ Goto(t, "clearLoad")
    /\ UNCHANGED <<m_pushIndex, disabled, m_popIndex, m_states, m_data, pushes, pops, toggles>>

ClearLoad(t) ==
    /\ At(t, "clearLoad")
    /\ Local(t, LoadPop(th[t], "clearReserve"))
    /\ UNCHANGED <<m_pushIndex, disabled, m_popIndex, m_states, m_data, counters>>

ClearReserve(t) ==
    LET c == th[t].loaded
        st == m_states[Idx(c)].st
    IN  /\ At(t, "clearReserve") /\ c # th[t].cell
        /\ \/ /\ InState(c, "Full")
              /\ SetState(c, Gen(c), "Reading")
              /\ Goto(t, "clearAdvance")
           \/ /\ ~InState(c, "Full") /\ st \in {"Writing", "Full"}
              /\ Goto(t, "clearLoad")
              /\ UNCHANGED m_states
           \/ /\ st \in {"Reading", "Empty"}
              /\ Goto(t, "clearSkip")
              /\ UNCHANGED m_states
        /\ UNCHANGED <<m_pushIndex, disabled, m_popIndex, m_data, counters>>

ClearSkip(t) ==
    /\ At(t, "clearSkip")
    /\ SwapPopIndex(th[t].loaded)
    /\ Local(t, LoadPop(th[t], "clearReserve"))
    /\ UNCHANGED <<m_pushIndex, disabled, m_states, m_data, counters>>

ClearAdvance(t) ==
    /\ At(t, "clearAdvance")
    /\ SwapPopIndex(th[t].loaded)
    /\ Goto(t, "clearCommit")
    /\ UNCHANGED <<m_pushIndex, disabled, m_states, m_data, counters>>

\* The element of the cleared cell is destroyed before the cell is released
ClearCommit(t) ==
    /\ At(t, "clearCommit")
    /\ m_data' = [m_data EXCEPT ![Idx(th[t].loaded)] = None]
    /\ SetState(th[t].loaded, nextGeneration(Gen(th[t].loaded)), "Empty")
    /\ Goto(t, "clearLoad")
    /\ UNCHANGED <<m_pushIndex, disabled, m_popIndex, counters>>

AbortRead(t) ==
    /\ At(t, "clearReserve") /\ th[t].loaded = th[t].cell
    /\ SetState(th[t].cell, Gen(th[t].cell), "Reading")
    /\ Goto(t, "abortAdvance")
    /\ UNCHANGED <<m_pushIndex, disabled, m_popIndex, m_data, counters>>

AbortAdvance(t) ==
    /\ At(t, "abortAdvance")
    /\ SwapPopIndex(th[t].cell)
    /\ Goto(t, "abortCommit")
    /\ UNCHANGED <<m_pushIndex, disabled, m_states, m_data, counters>>

AbortCommit(t) ==
    /\ At(t, "abortCommit")
    /\ SetState(th[t].cell, nextGeneration(Gen(th[t].cell)), "Empty")
    /\ Return(t)
    /\ UNCHANGED <<m_pushIndex, disabled, m_popIndex, m_data, counters>>

-----------------------------------------------------------------------------
(* size, disable and enable                                                *)

\* mutant: a push index that has wrapped is taken for one that is behind
SizeOf_NoWrap(push, pop) == IF push >= pop /\ push - pop <= Capacity THEN push - pop ELSE 0

\* size() computed from a push index and a pop index loaded after it
SizeOf(push, pop) ==
    LET difference == push - pop
    IN  CASE difference >= 0 /\ difference > Capacity -> 0
          [] difference >= 0 /\ difference <= Capacity -> difference
          [] difference < -((NumCombined - 1) \div 2) ->
               IF difference + NumCombined < Capacity THEN difference + NumCombined
               ELSE Capacity
          [] OTHER -> 0

SizeLoadPush(t) ==
    /\ At(t, "idle")
    /\ Local(t, [Idle EXCEPT !.pc = "size", !.loaded = m_pushIndex])
    /\ UNCHANGED <<m_pushIndex, disabled, m_popIndex, m_states, m_data, counters>>

SizeLoadPop(t) ==
    /\ At(t, "size")
    /\ Return(t)
    /\ UNCHANGED <<m_pushIndex, disabled, m_popIndex, m_states, m_data, counters>>

\* Each retries its compare-and-swap until the bit is as wanted
SetDisabled(b) ==
    /\ disabled # b /\ toggles < MaxToggles
    /\ disabled' = b /\ toggles' = toggles + 1
    /\ UNCHANGED <<m_pushIndex, m_popIndex, m_states, m_data, th, pushes, pops, throws>>
disable == SetDisabled(TRUE)
enable == SetDisabled(FALSE)

\* The steps a thread takes until the operation it is in returns
Step(t) ==
    \/ PushReload(t) \/ PushReserve(t) \/ PushDisabled(t) \/ PushSkip(t)
    \/ PushAdvance(t) \/ Construct(t) \/ ConstructThrows(t) \/ CommitPush(t)
    \/ PopReload(t) \/ PopReserve(t) \/ PopSkip(t) \/ PopAdvance(t)
    \/ Read(t) \/ CommitPop(t)
    \/ ClearLoad(t) \/ ClearReserve(t) \/ ClearSkip(t) \/ ClearAdvance(t)
    \/ ClearCommit(t) \/ AbortRead(t) \/ AbortAdvance(t) \/ AbortCommit(t)
    \/ SizeLoadPop(t)

Next ==
    \/ \E t \in Threads : PushStart(t) \/ PopStart(t) \/ SizeLoadPush(t) \/ Step(t)
    \/ disable \/ enable

Spec == Init /\ [][Next]_vars

\* A thread inside an operation is scheduled again and again
FairSpec == Spec /\ \A t \in Threads : WF_vars(Step(t))

-----------------------------------------------------------------------------
Labels == {"idle", "pushReserve", "pushReload", "pushSkip", "pushAdvance",
           "construct", "pushCommit", "popReserve", "popReload", "popSkip",
           "popAdvance", "read", "popCommit", "clearLoad", "clearReserve",
           "clearSkip", "clearAdvance", "clearCommit", "abortAdvance",
           "abortCommit", "size"}

\* Types: cell states, generations and both indexes stay within the ranges the encoding
\* of queue_manager.cpp has room for, across the wrap.
TypeOK ==
    /\ m_pushIndex \in Combined /\ m_popIndex \in Combined /\ disabled \in BOOLEAN
    /\ m_states \in [Cells -> [gen : Generations,
                               st : {"Empty", "Writing", "Full", "Reading"}]]
    /\ m_data \in [Cells -> Values \cup {None}]
    /\ th \in [Threads -> [pc : Labels, loaded : Combined, flag : BOOLEAN,
                           saved : Combined \cup {None}, cell : Combined,
                           value : Values \cup {None}, taken : Values \cup {None}]]
    /\ pushes \in 0 .. MaxPushes /\ pops \in 0 .. MaxPops
    /\ throws \in 0 .. MaxThrows /\ toggles \in 0 .. MaxToggles

\* Indexes and states stay in range, and the asserts of queue_manager.cpp that depend
\* on other threads hold at the step that evaluates them: a cell of the previous generation is never Empty for a
\* pusher and always Reading for a popper; a cell a pusher finds taken is not
\* older than its index; a cell is committed in the state and generation it was
\* reserved in; the pop index stops at a cell whose push is being undone; size()
\* only sees a difference above the capacity when the pop index is ahead.
AssertionsHold ==
    /\ TypeOK
    /\ \A t \in Threads :
      LET c == th[t].loaded
          elem == m_states[Idx(c)]
          behind == circularDifference(Gen(c), elem.gen, NumGenerations)
      IN  /\ th[t].pc = "pushReserve" /\ ~th[t].flag /\ ~InState(c, "Empty") =>
                IF PreviousGeneration(c) THEN behind = 1 /\ elem.st # "Empty"
                ELSE 0 >= behind
          /\ th[t].pc = "popReserve" /\ PreviousGeneration(c) =>
                elem.st = "Reading" /\ behind = 1
          /\ th[t].pc = "pushCommit" => InState(th[t].cell, "Writing")
          /\ th[t].pc \in {"popCommit", "clearCommit"} => InState(c, "Reading")
          /\ th[t].pc = "clearReserve" /\ c # th[t].cell =>
                0 < circularDifference(th[t].cell, c, NumCombined)
          /\ th[t].pc = "clearReserve" /\ c = th[t].cell =>
                m_popIndex = th[t].cell /\ InState(th[t].cell, "Writing")
          /\ th[t].pc = "size" /\ c - m_popIndex > Capacity =>
                0 > circularDifference(c, m_popIndex, NumCombined)
          /\ th[t].pc = "size" /\ c - m_popIndex < -((NumCombined - 1) \div 2) =>
                0 < circularDifference(c, m_popIndex, NumCombined)

-----------------------------------------------------------------------------
(* The queue of the abstract specification                                 *)

Holding == {"pushAdvance", "construct", "pushCommit", "clearLoad",
            "clearReserve", "clearSkip", "clearAdvance", "clearCommit"}
Holds(t, c) == th[t].cell = c /\ th[t].pc \in Holding

Holder(c) == CHOOSE t \in Threads : Holds(t, c)
ValueAt(c) == IF InState(c, "Full") THEN m_data[Idx(c)] ELSE th[Holder(c)].value

\* The first cell not yet reserved for popping, and the first one not yet reserved
\* for pushing: an index is one behind until the thread that reserved advances it.
First == IF InState(m_popIndex, "Reading") THEN nextCombinedIndex(m_popIndex) ELSE m_popIndex
Beyond == IF InState(m_pushIndex, "Empty") \/ PreviousGeneration(m_pushIndex) THEN m_pushIndex
          ELSE nextCombinedIndex(m_pushIndex)

\* The elements reserved for pushing and not yet reserved for popping, oldest first
Items == [k \in 1 .. (Beyond - First) % NumCombined |-> ValueAt((First + k - 1) % NumCombined)]

Queue == INSTANCE BoundedQueue WITH items <- Items

\* Whatever the interleaving of pushes, pops, undone pushes, disable and
\* enable, reserving a cell for pushing appends to a queue of at most Capacity
\* elements, reserving one for popping removes its head, and nothing else
\* changes that queue.
IsBoundedQueue == Queue!Spec

\* Every cell that is being written or is full is in that queue: neither index
\* moves past a cell and leaves its element behind.
NothingLeftBehind ==
    Cardinality({i \in Cells : m_states[i].st \in {"Writing", "Full"}}) = Len(Items)

\* A popper moves out the element that was at the head when it reserved the
\* cell: no pusher of a later generation writes it under the popper's hands.
PopsWhatItReserved == \A t \in Threads : th[t].pc = "popCommit" => th[t].value = th[t].taken

\* reservePushIndex returns QueueFull only when the queue holds Capacity
\* elements, reservePopIndex returns QueueEmpty only when it holds none.
FullAndEmptyAreTrue ==
    [][\A t \in Threads :
         /\ th[t].pc = "pushReserve" /\ ~th[t].flag /\ th'[t].pc = "idle" => Len(Items) = Capacity
         /\ th[t].pc = "popReserve" /\ th'[t].pc = "idle" => Items = <<>>]_vars

\* The comment of thread_pool.hpp on jobCount(), which returns size(): when no
\* operation is under way it is the current number of queued elements, wherever the
\* indexes stand.  Not so once disable() was called: a push that reserved its cell
\* before it cannot advance the push index any more, and commits nevertheless.
SizeIsCurrent ==
    (\A t \in Threads : th[t].pc = "idle") /\ toggles = 0
        => SizeOf(m_pushIndex, m_popIndex) = Len(Items)

\* Every operation returns: no two threads spin on each other for ever.  The threads
\* are interchangeable, so it is stated of one of them.
OperationsReturn ==
    LET t == CHOOSE u \in Threads : TRUE
    IN  th[t].pc # "idle" ~> th[t].pc = "idle"
=============================================================================
