------------------------- MODULE QueueManager_proofs -------------------------
(***************************************************************************)
(* The lock-free queue implements BoundedQueue, the assertions of the code *)
(* hold, and what push, pop and size report is true. The inductive         *)
(* invariant IInv(H, T) says where every index, cell and reservation is    *)
(* when positions H to T - 1 hold the elements of the queue.               *)
(***************************************************************************)
EXTENDS QueueManager, TLAPS

(***************************************************************************)
(* Positions count the cells of the array from Start on, without wrapping: *)
(* the combined index c is at position Off(c), and cell i is at Pos(i), in *)
(* the generation its state has.                                           *)
(***************************************************************************)
Off(c) == IF c >= Start THEN c - Start ELSE c - Start + NumCombined

CellIndex(i) == m_states[i].gen * Capacity + i
Pos(i) == Off(CellIndex(i))

\* Where a thread has yet to reserve a cell for pushing
PrePush == {"pushReserve", "pushReload", "pushSkip"}

\* The thread reserved cell c for popping and has yet to advance the pop index.
Advances(l, c) ==
    \/ l.pc \in {"popAdvance", "clearAdvance"} /\ l.loaded = c
    \/ l.pc = "abortAdvance" /\ l.cell = c

\* Positions from H to T - 1 are reserved for pushing and not yet for popping.
IndexesOK(H, T) ==
    /\ H <= T /\ T <= H + Capacity /\ T <= MaxPushes
    /\ \/ Off(m_pushIndex) = T
       \/ /\ Off(m_pushIndex) = T - 1
          /\ \/ toggles > 0
             \/ \E t \in Threads : th[t].pc = "pushAdvance" /\ th[t].cell = m_pushIndex
    /\ \/ Off(m_popIndex) = H
       \/ Off(m_popIndex) = H - 1 /\ \E t \in Threads : Advances(th[t], m_popIndex)
    /\ disabled => toggles > 0

CellOK(i, H, T) ==
    /\ m_states[i].st = "Empty" => T <= Pos(i) /\ Pos(i) < H + Capacity
    /\ m_states[i].st \in {"Writing", "Full"} => H <= Pos(i) /\ Pos(i) < T
    /\ m_states[i].st = "Reading" => T <= Pos(i) + Capacity /\ Pos(i) < H
    /\ m_states[i].st = "Writing" => \E t \in Threads : Holds(t, CellIndex(i))

\* The cells a thread has reserved
Reads(l, c) ==
    \/ l.pc \in {"popAdvance", "read", "popCommit", "clearAdvance", "clearCommit"} /\ l.loaded = c
    \/ l.pc \in {"abortAdvance", "abortCommit"} /\ l.cell = c

Writes(l, c) == l.pc \in Holding /\ l.cell = c
Has(l, c) == Reads(l, c) \/ Writes(l, c)

\* An index a thread loaded is not ahead of the one it was loaded from; it is passed
\* over, or its cell released, only after its cell was reserved.
LoadedOK(l, H, T) ==
    /\ l.pc \in PrePush => l.value \in Values
    /\ l.pc \in PrePush \cup {"size"} => Off(l.loaded) <= Off(m_pushIndex)
    /\ l.pc = "pushSkip" => Off(l.loaded) < T
    /\ l.pc \in {"popReserve", "popSkip", "clearReserve", "clearSkip"}
         => Off(l.loaded) <= Off(m_popIndex)
    /\ l.pc \in {"popSkip", "clearSkip"} => Off(l.loaded) < H
    /\ l.pc \in {"read", "popCommit", "clearCommit"} => Off(l.loaded) < Off(m_popIndex)
    /\ l.pc = "abortCommit" => Off(l.cell) < Off(m_popIndex)

\* A cell stays as it is as long as a thread has it reserved.
ReservedOK(l) ==
    /\ \A c \in Combined : Reads(l, c) => InState(c, "Reading")
    /\ \A c \in Combined : Writes(l, c) => InState(c, "Writing")
    /\ l.pc = "pushCommit" => m_data[Idx(l.cell)] = l.value
    /\ l.pc \in {"popAdvance", "read"} => m_data[Idx(l.loaded)] = l.taken
    /\ l.pc = "popCommit" => l.value = l.taken

\* No two threads have reserved the same cell.
OwnersDiffer ==
    \A t, u \in Threads, c \in Combined : Has(th[t], c) /\ Has(th[u], c) => t = u

\* Every cell that was reserved for pushing was asked for, once.
Asking == {t \in Threads : th[t].pc \in PrePush}

Counted(T) == T + Cardinality(Asking) <= pushes
IInv(H, T) ==
    /\ TypeOK
    /\ IndexesOK(H, T)
    /\ \A i \in Cells : CellOK(i, H, T)
    /\ \A t \in Threads : LoadedOK(th[t], H, T) /\ ReservedOK(th[t])
    /\ OwnersDiffer

StatesOK == m_states \in [Cells -> [gen : Generations,
                                    st : {"Empty", "Writing", "Full", "Reading"}]]

WindowKept(H, T) == \A c \in Combined : H <= Off(c) /\ Off(c) < T => ValueAt(c)' = ValueAt(c)
Stays(H, T) == IInv(H, T)' /\ WindowKept(H, T)
Pushes(H, T) ==
    /\ IInv(H, T + 1)' /\ WindowKept(H, T) /\ T < H + Capacity
    /\ \E c \in Combined : Off(c) = T /\ ValueAt(c)' \in Values
    /\ \E t \in Threads : th[t].pc \in PrePush /\ th'[t].pc \notin PrePush

Pops(H, T) == IInv(H + 1, T)' /\ WindowKept(H + 1, T) /\ H < T
-----------------------------------------------------------------------------
(* Positions                                                               *)

\* NumCombined as the provers need it: a product they do not multiply out.
LEMMA Sizes ==
    /\ Capacity \in Nat /\ Capacity >= 1 /\ NumGenerations \in Nat /\ NumGenerations >= 3
    /\ NumCombined \in Nat /\ NumCombined >= 3 * Capacity
    /\ NumCombined = NumGenerations * Capacity
    /\ Start \in Combined /\ MaxPushes \in Nat
    /\ 2 * (MaxPushes + Capacity) <= NumCombined
  <1>1. NumGenerations * Capacity >= 3 * Capacity
    BY QueueAssumption
  <1>2. NumCombined \in Nat
    BY QueueAssumption DEF NumCombined
  <1> QED
    BY <1>1, <1>2, QueueAssumption, StalenessAssumption DEF NumCombined, Combined

\* For the provers that do no arithmetic.
LEMMA Order ==
    /\ \A n \in Nat : n <= n /\ n <= n + 1 /\ n + 1 \in Nat /\ (n + 1) - 1 = n
    /\ \A i \in Int : i <= i /\ \A n \in Nat : n + 1 <= i => n <= i
  OBVIOUS

\* A combined index is a generation and a cell.
LEMMA Split ==
  ASSUME NEW c \in Combined
  PROVE  Idx(c) \in Cells /\ Gen(c) \in Generations /\ c = Gen(c) * Capacity + Idx(c)
  <1>1. c \in Nat /\ c < NumGenerations * Capacity /\ Capacity \in Nat /\ Capacity >= 1
    BY Sizes DEF Combined
  <1>2. c = (c \div Capacity) * Capacity + (c % Capacity) /\ c % Capacity \in 0 .. Capacity - 1
    BY <1>1
  <1>3. c \div Capacity \in Nat
    BY <1>1
  <1>4. c \div Capacity < NumGenerations
    <2> DEFINE g == c \div Capacity
    <2>1. g * Capacity <= c
      BY <1>1, <1>2, <1>3
    <2> HIDE DEF g
    <2>2. SUFFICES ASSUME g >= NumGenerations PROVE FALSE
      BY <1>3, Sizes DEF g
    <2>3. g * Capacity >= NumGenerations * Capacity
      BY <2>2, <1>3, Sizes DEF g
    <2> QED
      BY <2>1, <2>3, <1>1, <1>3, Sizes DEF g
  <1> QED
    BY <1>2, <1>3, <1>4, Sizes DEF Idx, Gen, Cells, Generations

\* A generation and a cell are a combined index.
LEMMA Join ==
  ASSUME NEW g \in Generations, NEW i \in Cells
  PROVE  LET c == g * Capacity + i IN c \in Combined /\ Gen(c) = g /\ Idx(c) = i
  <1> DEFINE c == g * Capacity + i
  <1>1. g \in Nat /\ g <= NumGenerations - 1 /\ i \in Nat /\ i < Capacity
    BY Sizes DEF Generations, Cells
  <1>2. g * Capacity <= (NumGenerations - 1) * Capacity
    BY <1>1, Sizes
  <1>3. (NumGenerations - 1) * Capacity = NumCombined - Capacity
    BY Sizes
  <1>4. c \in Combined
    BY <1>1, <1>2, <1>3, Sizes DEF Combined
  <1>5. c \div Capacity = g /\ c % Capacity = i
    BY <1>1, Sizes
  <1> QED
    BY <1>4, <1>5, Zenon DEF Gen, Idx

\* Two combined indexes are as far apart as their generations and cells.
LEMMA Apart ==
  ASSUME NEW c \in Combined, NEW d \in Combined
  PROVE  /\ Off(c) \in 0 .. NumCombined - 1
         /\ Off(c) = Off(d) => c = d
         /\ \E e \in {-1, 0, 1} :
              Off(c) - Off(d) = (Gen(c) - Gen(d) + e * NumGenerations) * Capacity
                                  + (Idx(c) - Idx(d))
  <1>1. c \in Int /\ d \in Int /\ c >= 0 /\ d >= 0 /\ c < NumCombined /\ d < NumCombined
    BY Sizes DEF Combined
  <1>2. Start \in Int /\ Start >= 0 /\ Start < NumCombined /\ NumCombined \in Int
    BY Sizes DEF Combined
  <1>3. Off(c) \in 0 .. NumCombined - 1 /\ (Off(c) = Off(d) => c = d)
    BY <1>1, <1>2 DEF Off
  <1>4. PICK e \in {-1, 0, 1} : Off(c) - Off(d) = c - d + e * NumCombined
    BY <1>1, <1>2 DEF Off
  <1>5. /\ Gen(c) \in Int /\ Gen(d) \in Int /\ Idx(c) \in Int /\ Idx(d) \in Int
        /\ c = Gen(c) * Capacity + Idx(c) /\ d = Gen(d) * Capacity + Idx(d)
    BY Split, Sizes DEF Generations, Cells
  <1>6. (Gen(c) - Gen(d) + e * NumGenerations) * Capacity
          = Gen(c) * Capacity - Gen(d) * Capacity + e * NumCombined
    BY <1>5, Sizes
  <1> QED
    BY <1>3, <1>4, <1>5, <1>6, Sizes

\* Indexes of one cell that are less than a generation apart are equal.
LEMMA SameGeneration ==
  ASSUME NEW c \in Combined, NEW d \in Combined, Idx(c) = Idx(d),
         Off(c) - Off(d) < Capacity, Off(d) - Off(c) < Capacity
  PROVE  c = d
  <1>1. PICK e \in {-1, 0, 1} :
              Off(c) - Off(d) = (Gen(c) - Gen(d) + e * NumGenerations) * Capacity
                                  + (Idx(c) - Idx(d))
    BY Apart, Zenon
  <1> DEFINE k == Gen(c) - Gen(d) + e * NumGenerations
  <1>2. k \in Int /\ Off(c) - Off(d) = k * Capacity /\ Off(c) \in Int /\ Off(d) \in Int
    BY <1>1, Apart, Split, Sizes DEF Generations, Cells
  <1> HIDE DEF k
  <1>3. k = 0
    <2>1. ~(k >= 1)
      BY <1>2, Sizes
    <2>2. ~(k <= -1)
      BY <1>2, Sizes
    <2> QED
      BY <2>1, <2>2, <1>2
  <1> QED
    BY <1>2, <1>3, Apart, Sizes

\* Indexes a generation apart are of the same cell.
LEMMA NextGenerationIsSameCell ==
  ASSUME NEW c \in Combined, NEW d \in Combined, Off(c) = Off(d) + Capacity
  PROVE  Idx(c) = Idx(d)
  <1>1. PICK e \in {-1, 0, 1} :
              Off(c) - Off(d) = (Gen(c) - Gen(d) + e * NumGenerations) * Capacity
                                  + (Idx(c) - Idx(d))
    BY Apart, Zenon
  <1> DEFINE k == Gen(c) - Gen(d) + e * NumGenerations
             x == Idx(c) - Idx(d)
  <1>2. k \in Int /\ x \in Int /\ x < Capacity /\ x > -Capacity
    BY Split, Sizes DEF Generations, Cells
  <1>3. Capacity = k * Capacity + x
    BY <1>1, Apart, Sizes
  <1> HIDE DEF k, x
  <1>4. ~(k >= 2) /\ ~(k <= 0)
    <2>1. k >= 2 => k * Capacity >= 2 * Capacity
      BY <1>2, Sizes
    <2>2. k <= 0 => k * Capacity <= 0
      BY <1>2, Sizes
    <2> QED
      BY <2>1, <2>2, <1>2, <1>3, Sizes
  <1>5. k = 1
    BY <1>2, <1>4
  <1>6. x = 0
    BY <1>2, <1>3, <1>5, Sizes
  <1> QED
    BY <1>6, Split, Sizes DEF x, Cells

\* Of two indexes of one cell that are at most one generation ahead and less than half
\* of the range behind, the generations tell how far they are apart.
LEMMA GenerationsApart ==
  ASSUME NEW c \in Combined, NEW d \in Combined, Idx(c) = Idx(d),
         Off(c) <= Off(d) + Capacity, Off(d) < Off(c) + MaxPushes + Capacity
  PROVE  LET difference == Gen(c) - Gen(d)
             behind == circularDifference(Gen(c), Gen(d), NumGenerations)
         IN  /\ difference = 1 \/ difference = -(NumGenerations - 1)
                  <=> Off(c) = Off(d) + Capacity
             /\ Off(c) = Off(d) + Capacity => behind = 1
             /\ Off(c) # Off(d) + Capacity => 0 >= behind
  <1> DEFINE N == NumGenerations
             g == Gen(c) - Gen(d)
  <1>1. PICK e \in {-1, 0, 1} :
              Off(c) - Off(d) = (Gen(c) - Gen(d) + e * NumGenerations) * Capacity
                                  + (Idx(c) - Idx(d))
    BY Apart, Zenon
  <1> DEFINE k == g + e * N
  <1>2. /\ k \in Int /\ g \in Int /\ N \in Int /\ N >= 3 /\ g < N /\ g > -N
        /\ Off(c) - Off(d) = k * Capacity /\ Off(c) \in Int /\ Off(d) \in Int
    BY <1>1, Apart, Split, Sizes DEF Generations, Cells
  <1>3. k = g \/ k = g + N \/ k = g - N
    BY <1>2
  <1> HIDE DEF k
  <1>4. k <= 1
    <2>1. k >= 2 => k * Capacity >= 2 * Capacity
      BY <1>2, Sizes
    <2> QED
      BY <2>1, <1>2, Sizes
  <1>5. 2 * k > -N
    <2>1. 2 * k <= -N => (2 * k) * Capacity <= -N * Capacity
      BY <1>2, Sizes
    <2>2. (2 * k) * Capacity = 2 * (k * Capacity) /\ -N * Capacity = -NumCombined
      BY <1>2, Sizes
    <2>3. 2 * (k * Capacity) > -NumCombined
      BY <1>2, Sizes
    <2> QED
      BY <2>1, <2>2, <2>3, <1>2, Sizes
  <1>6. k = 1 <=> Off(c) = Off(d) + Capacity
    <2>1. CASE k = 1
      BY <2>1, <1>2, Sizes
    <2>2. CASE k <= 0
      <3>1. k * Capacity <= 0
        BY <2>2, <1>2, Sizes
      <3> QED
        BY <3>1, <2>2, <1>2, Sizes
    <2> QED
      BY <2>1, <2>2, <1>2, <1>4
  <1>7. (g = 1 \/ g = -(N - 1)) <=> k = 1
    BY <1>2, <1>3, <1>4, <1>5
  <1>8. circularDifference(Gen(c), Gen(d), N) = k
    <2>1. circularDifference(Gen(c), Gen(d), N)
            = IF g > N \div 2 THEN g - N ELSE IF g < -(N \div 2) THEN g + N ELSE g
      BY Zenon DEF circularDifference
    <2>2. N \div 2 \in Int /\ 2 * (N \div 2) <= N /\ N <= 2 * (N \div 2) + 1
      BY <1>2
    <2> QED
      BY <2>1, <2>2, <1>2, <1>3, <1>4, <1>5
  <1> QED
    BY <1>2, <1>4, <1>6, <1>7, <1>8

\* nextCombinedIndex goes on by one position.
LEMMA NextIndex ==
  ASSUME NEW c \in Combined, Off(c) < NumCombined - 1
  PROVE  nextCombinedIndex(c) \in Combined /\ Off(nextCombinedIndex(c)) = Off(c) + 1
  BY Sizes DEF nextCombinedIndex, Off, Combined

\* nextGeneration goes on by as many positions as there are cells.
LEMMA NextGeneration ==
  ASSUME NEW c \in Combined, Off(c) < NumCombined - Capacity
  PROVE  LET g == nextGeneration(Gen(c))
         IN  g \in Generations /\ Off(g * Capacity + Idx(c)) = Off(c) + Capacity
  <1> DEFINE g == nextGeneration(Gen(c))
             d == g * Capacity + Idx(c)
  <1>1. /\ Gen(c) \in Int /\ Gen(c) >= 0 /\ Gen(c) < NumGenerations
        /\ Idx(c) \in Int /\ c = Gen(c) * Capacity + Idx(c)
    BY Split, Sizes DEF Generations, Cells
  <1>2. g \in Generations
    BY <1>1, Sizes DEF nextGeneration, Generations
  <1>3. d = c + Capacity \/ d = c + Capacity - NumCombined
    <2>1. CASE Gen(c) = NumGenerations - 1
      <3>1. g = 0
        BY <2>1, Zenon DEF nextGeneration
      <3>2. (NumGenerations - 1) * Capacity = NumCombined - Capacity
        BY Sizes
      <3> QED
        BY <3>1, <3>2, <2>1, <1>1, Sizes
    <2>2. CASE Gen(c) # NumGenerations - 1
      <3>1. g = Gen(c) + 1
        BY <2>2, Zenon DEF nextGeneration
      <3>2. (Gen(c) + 1) * Capacity = Gen(c) * Capacity + Capacity
        BY <1>1, Sizes
      <3> QED
        BY <3>1, <3>2, <1>1, Sizes
    <2> QED
      BY <2>1, <2>2, Zenon
  <1>4. d \in Combined
    BY <1>2, Split, Join, Zenon
  <1> QED
    BY <1>2, <1>3, <1>4, Sizes DEF Off, Combined

\* The combined index at position k, and the position of cell i in Init
FromStart(k) == (Start + k) % NumCombined

LEMMA Modulo ==
  ASSUME NEW n \in Nat, n > 0, NEW a \in Nat, a < 2 * n
  PROVE  a % n = IF a < n THEN a ELSE a - n
  BY Z3

LEMMA Wraps ==
  ASSUME NEW k \in Nat, k < NumCombined
  PROVE  /\ FromStart(k) = IF Start + k < NumCombined THEN Start + k ELSE Start + k - NumCombined
         /\ FromStart(k) \in Combined /\ Off(FromStart(k)) = k
  <1>1. PICK a \in Nat : a = Start + k /\ a < 2 * NumCombined
    BY Sizes DEF Combined
  <1>2. a % NumCombined = IF a < NumCombined THEN a ELSE a - NumCombined
    BY <1>1, Sizes, Modulo
  <1>3. FromStart(k) = IF a < NumCombined THEN a ELSE a - NumCombined
    BY <1>1, <1>2, Zenon DEF FromStart
  <1> QED
    BY <1>1, <1>3, Sizes DEF Off, Combined

Place(i) == CHOOSE k \in Cells : Idx(FromStart(k)) = i

LEMMA PlaceFacts ==
  ASSUME NEW i \in Cells
  PROVE  Place(i) \in Cells /\ Idx(FromStart(Place(i))) = i
  <1> DEFINE s == Idx(Start)
             g == Gen(Start)
  <1>1. s \in Cells /\ g \in Generations /\ Start = g * Capacity + s
    BY Split, Sizes, Zenon
  <1>2. PICK k \in Cells : k = IF i >= s THEN i - s ELSE i - s + Capacity
    BY <1>1, Sizes DEF Cells
  <1>3. k < NumCombined /\ k \in Nat
    BY Sizes DEF Cells
  <1>4. FromStart(k) = IF Start + k < NumCombined THEN Start + k ELSE Start + k - NumCombined
    BY <1>3, Wraps, Zenon
  <1> HIDE DEF s, g
  <1>5. PICK h \in Generations : FromStart(k) = h * Capacity + i
    <2>1. CASE i >= s
      <3>1. Start + k = g * Capacity + i
        BY <2>1, <1>1, <1>2, Sizes DEF Cells, Generations
      <3>2. g * Capacity + i \in Combined
        BY <1>1, Join, Zenon
      <3>3. FromStart(k) = g * Capacity + i
        BY <3>1, <3>2, <1>4, Sizes DEF Combined
      <3> QED
        BY <3>3, <1>1, Zenon
    <2>2. CASE i < s /\ g < NumGenerations - 1
      <3>1. Start + k = (g + 1) * Capacity + i
        BY <2>2, <1>1, <1>2, Sizes DEF Cells, Generations
      <3>2. g + 1 \in Generations
        BY <2>2, <1>1, Sizes DEF Generations
      <3>3. (g + 1) * Capacity + i \in Combined
        BY <3>2, Join, Zenon
      <3>4. FromStart(k) = (g + 1) * Capacity + i
        BY <3>1, <3>3, <1>4, Sizes DEF Combined
      <3> QED
        BY <3>2, <3>4, Zenon
    <2>3. CASE i < s /\ g = NumGenerations - 1
      <3>1. Start + k = NumCombined + i
        BY <2>3, <1>1, <1>2, Sizes DEF Cells, Generations
      <3>2. i \in Nat /\ NumCombined \in Nat /\ Start \in Nat /\ k \in Nat
        BY Sizes DEF Cells, Combined
      <3>4. FromStart(k) = i
        BY <3>1, <3>2, <1>4
      <3>5. 0 * Capacity + i = i
        BY <3>2, Sizes
      <3>3. 0 \in Generations
        BY Sizes DEF Generations
      <3> QED
        BY <3>3, <3>4, <3>5, Zenon
    <2> QED
      BY <2>1, <2>2, <2>3, <1>1, Sizes DEF Cells, Generations
  <1>6. Idx(FromStart(k)) = i
    BY <1>5, Join, Zenon
  <1> QED
    BY <1>6, Zenon DEF Place

LEMMA Ahead ==
  ASSUME NEW c \in Combined, NEW j \in Nat, Off(c) + j < NumCombined
  PROVE  (c + j) % NumCombined = FromStart(Off(c) + j)
  <1>1. PICK a \in Nat : a = c + j /\ a < 2 * NumCombined
    BY Sizes DEF Combined, Off
  <1>2. a % NumCombined = IF a < NumCombined THEN a ELSE a - NumCombined
    BY <1>1, Sizes, Modulo
  <1>3. PICK k \in Nat : k = Off(c) + j
    BY Sizes DEF Combined, Off
  <1>4. FromStart(k) = IF Start + k < NumCombined THEN Start + k ELSE Start + k - NumCombined
    BY <1>3, Wraps, Zenon
  <1> QED
    BY <1>1, <1>2, <1>3, <1>4, Sizes DEF Combined, Off

LEMMA ModuloNegative ==
  ASSUME NEW n \in Nat, n > 0, NEW a \in Int, -n <= a, a < 0
  PROVE  a % n = a + n
  BY Z3

LEMMA Distance ==
  ASSUME NEW c \in Combined, NEW d \in Combined, Off(c) <= Off(d)
  PROVE  (d - c) % NumCombined = Off(d) - Off(c)
  <1>1. PICK a \in Int : a = d - c
    BY DEF Combined
  <1>2. /\ -NumCombined <= a /\ a < NumCombined
        /\ Off(d) - Off(c) = IF a >= 0 THEN a ELSE a + NumCombined
    BY <1>1, Sizes DEF Combined, Off
  <1>3. CASE a >= 0
    BY <1>1, <1>2, <1>3, Sizes, Modulo
  <1>4. CASE a < 0
    BY <1>1, <1>2, <1>4, Sizes, ModuloNegative
  <1> QED
    BY <1>3, <1>4

\* circularDifference of two indexes less than half of the range apart
LEMMA DifferenceFacts ==
  ASSUME NEW c \in Combined, NEW d \in Combined,
         -NumCombined < 2 * (Off(c) - Off(d)), 2 * (Off(c) - Off(d)) < NumCombined
  PROVE  circularDifference(c, d, NumCombined) = Off(c) - Off(d)
  <1>1. /\ c \in Int /\ d \in Int /\ 0 <= c /\ c < NumCombined /\ 0 <= d /\ d < NumCombined
        /\ Start \in Int /\ 0 <= Start /\ Start < NumCombined
        /\ Off(c) \in Int /\ Off(d) \in Int
    BY Sizes DEF Combined, Off
  <1>2. c - d \in {Off(c) - Off(d), Off(c) - Off(d) + NumCombined, Off(c) - Off(d) - NumCombined}
    BY <1>1, Sizes DEF Off
  <1>3. PICK e \in Int : e = Off(c) - Off(d)
    BY <1>1
  <1>4. PICK f \in Int : f = c - d
    BY <1>1
  <1>5. (IF f > NumCombined \div 2 THEN f - NumCombined
         ELSE IF f < -(NumCombined \div 2) THEN f + NumCombined ELSE f) = e
    BY <1>2, <1>3, <1>4, Sizes
  <1> QED
    BY <1>3, <1>4, <1>5, Zenon DEF circularDifference
-----------------------------------------------------------------------------
(* Locals                                                                  *)

LocalType == [pc : Labels, loaded : Combined, flag : BOOLEAN, saved : Combined \cup {None},
              cell : Combined, value : Values \cup {None}, taken : Values \cup {None}]

SameButPc(k, l) ==
    /\ k.loaded = l.loaded /\ k.flag = l.flag /\ k.saved = l.saved
    /\ k.cell = l.cell /\ k.value = l.value /\ k.taken = l.taken

\* Only thread t has moved.
Moved(t) == th' \in [Threads -> LocalType] /\ \A u \in Threads \ {t} : th'[u] = th[u]

LEMMA IdleType == Idle \in LocalType /\ Idle.pc = "idle"
  BY Sizes DEF Idle, LocalType, Labels, Combined

\* From here on a leaf is for Zenon, unless it names another prover.
USE ZenonT(30)

\* A step of thread t changes its locals only.
LEMMA LocalFacts ==
  ASSUME th \in [Threads -> LocalType], NEW t \in Threads, NEW l \in LocalType, Local(t, l)
  PROVE  Moved(t) /\ th'[t] = l
  BY DEF Local, Moved

LEMMA GotoFacts ==
  ASSUME th \in [Threads -> LocalType], NEW t \in Threads, NEW label \in Labels, Goto(t, label)
  PROVE  Moved(t) /\ th'[t].pc = label /\ SameButPc(th'[t], th[t])
  <1> DEFINE l == [th[t] EXCEPT !.pc = label]
  <1>1. th[t] \in LocalType
    OBVIOUS
  <1>2. l \in LocalType /\ l.pc = label /\ SameButPc(l, th[t])
    BY <1>1 DEF LocalType, SameButPc
  <1>3. th' = [th EXCEPT ![t] = l]
    BY DEF Goto
  <1> HIDE DEF l
  <1> QED
    BY <1>2, <1>3 DEF Moved

LEMMA LoadPushFacts ==
  ASSUME NEW l \in LocalType, m_pushIndex \in Combined, disabled \in BOOLEAN
  PROVE  LET k == LoadPush(l)
         IN  /\ k \in LocalType /\ k.pc = "pushReserve" /\ k.loaded = m_pushIndex
             /\ k.cell = l.cell /\ k.value = l.value /\ k.taken = l.taken
  <1> DEFINE a == [l EXCEPT !.pc = "pushReserve"]
             b == [a EXCEPT !.loaded = m_pushIndex]
             k == [b EXCEPT !.flag = disabled]
  <1>1. /\ a \in LocalType /\ a.pc = "pushReserve"
        /\ a.cell = l.cell /\ a.value = l.value /\ a.taken = l.taken
    BY DEF LocalType, Labels
  <1>2. LoadPush(l) = k
    BY DEF LoadPush
  <1> HIDE DEF a
  <1>3. /\ b \in LocalType /\ b.pc = a.pc /\ b.loaded = m_pushIndex
        /\ b.cell = a.cell /\ b.value = a.value /\ b.taken = a.taken
    BY <1>1 DEF LocalType
  <1> HIDE DEF b
  <1>4. /\ k \in LocalType /\ k.pc = b.pc /\ k.loaded = b.loaded
        /\ k.cell = b.cell /\ k.value = b.value /\ k.taken = b.taken
    BY <1>3 DEF LocalType
  <1> HIDE DEF k
  <1> QED
    BY <1>1, <1>2, <1>3, <1>4

LEMMA LoadPopFacts ==
  ASSUME NEW l \in LocalType, m_popIndex \in Combined, NEW label \in Labels
  PROVE  LET k == LoadPop(l, label)
         IN  /\ k \in LocalType /\ k.pc = label /\ k.loaded = m_popIndex
             /\ k.cell = l.cell /\ k.value = l.value /\ k.taken = l.taken
  <1> DEFINE a == [l EXCEPT !.pc = label]
             k == [a EXCEPT !.loaded = m_popIndex]
  <1>1. /\ a \in LocalType /\ a.pc = label
        /\ a.cell = l.cell /\ a.value = l.value /\ a.taken = l.taken
    BY DEF LocalType
  <1>2. LoadPop(l, label) = k
    BY DEF LoadPop
  <1> HIDE DEF a
  <1>3. /\ k \in LocalType /\ k.pc = a.pc /\ k.loaded = m_popIndex
        /\ k.cell = a.cell /\ k.value = a.value /\ k.taken = a.taken
    BY <1>1 DEF LocalType
  <1> HIDE DEF k
  <1> QED
    BY <1>1, <1>2, <1>3

\* What the thread that reserves a cell for pushing keeps of its locals
LEMMA ReserveFacts ==
  ASSUME NEW l \in LocalType, NEW c \in Combined
  PROVE  LET k == [l EXCEPT !.pc = "pushAdvance", !.cell = c]
         IN  k \in LocalType /\ k.pc = "pushAdvance" /\ k.cell = c /\ k.value = l.value
  <1> DEFINE a == [l EXCEPT !.pc = "pushAdvance"]
             k == [a EXCEPT !.cell = c]
  <1>1. a \in LocalType /\ a.pc = "pushAdvance" /\ a.value = l.value
    BY DEF LocalType, Labels
  <1> HIDE DEF a
  <1>2. k \in LocalType /\ k.pc = a.pc /\ k.cell = c /\ k.value = a.value
    BY <1>1 DEF LocalType
  <1>3. [l EXCEPT !.pc = "pushAdvance", !.cell = c] = k
    BY DEF a
  <1> HIDE DEF k
  <1> QED
    BY <1>1, <1>2, <1>3

\* Of a thread that saves the index it tried
Saved(l, label, c) == [l EXCEPT !.pc = label, !.saved = c]

LEMMA SaveFacts ==
  ASSUME NEW l \in LocalType, NEW label \in Labels, NEW c \in Combined
  PROVE  /\ Saved(l, label, c) \in LocalType /\ Saved(l, label, c).pc = label
         /\ Saved(l, label, c).loaded = l.loaded /\ Saved(l, label, c).value = l.value
  <1> DEFINE a == [l EXCEPT !.pc = label]
             k == [a EXCEPT !.saved = c]
  <1>1. a \in LocalType /\ a.pc = label /\ a.loaded = l.loaded /\ a.value = l.value
    BY DEF LocalType
  <1>2. Saved(l, label, c) = k
    BY DEF Saved
  <1> HIDE DEF a
  <1>3. k \in LocalType /\ k.pc = a.pc /\ k.loaded = a.loaded /\ k.value = a.value
    BY <1>1 DEF LocalType
  <1> HIDE DEF k
  <1> QED
    BY <1>1, <1>2, <1>3

\* Of a thread that reserves a cell for popping
LEMMA TakeFacts ==
  ASSUME NEW l \in LocalType, NEW v \in Values \cup {None}
  PROVE  LET k == [l EXCEPT !.pc = "popAdvance", !.taken = v]
         IN  k \in LocalType /\ k.pc = "popAdvance" /\ k.loaded = l.loaded /\ k.taken = v
  <1> DEFINE a == [l EXCEPT !.pc = "popAdvance"]
             k == [a EXCEPT !.taken = v]
  <1>1. a \in LocalType /\ a.pc = "popAdvance" /\ a.loaded = l.loaded
    BY DEF LocalType, Labels
  <1> HIDE DEF a
  <1>2. k \in LocalType /\ k.pc = a.pc /\ k.loaded = a.loaded /\ k.taken = v
    BY <1>1 DEF LocalType
  <1>3. [l EXCEPT !.pc = "popAdvance", !.taken = v] = k
    BY DEF a
  <1> HIDE DEF k
  <1> QED
    BY <1>1, <1>2, <1>3

\* Of a thread that moves the element out
LEMMA ReadFacts ==
  ASSUME NEW l \in LocalType, NEW v \in Values \cup {None}
  PROVE  LET k == [l EXCEPT !.pc = "popCommit", !.value = v]
         IN  /\ k \in LocalType /\ k.pc = "popCommit" /\ k.value = v
             /\ k.loaded = l.loaded /\ k.taken = l.taken
  <1> DEFINE a == [l EXCEPT !.pc = "popCommit"]
             k == [a EXCEPT !.value = v]
  <1>1. a \in LocalType /\ a.pc = "popCommit" /\ a.loaded = l.loaded /\ a.taken = l.taken
    BY DEF LocalType, Labels
  <1> HIDE DEF a
  <1>2. /\ k \in LocalType /\ k.pc = a.pc /\ k.value = v
        /\ k.loaded = a.loaded /\ k.taken = a.taken
    BY <1>1 DEF LocalType
  <1>3. [l EXCEPT !.pc = "popCommit", !.value = v] = k
    BY DEF a
  <1> HIDE DEF k
  <1> QED
    BY <1>1, <1>2, <1>3

LEMMA TypeFacts ==
  ASSUME TypeOK
  PROVE  /\ StatesOK /\ th \in [Threads -> LocalType]
         /\ m_pushIndex \in Combined /\ m_popIndex \in Combined /\ disabled \in BOOLEAN
         /\ m_data \in [Cells -> Values \cup {None}]
  BY DEF TypeOK, StatesOK, LocalType

\* A thread moves in its own steps only.
LEMMA OthersStay ==
  ASSUME TypeOK, NEW t \in Threads, PushStart(t) \/ PopStart(t) \/ SizeLoadPush(t) \/ Step(t)
  PROVE  \A u \in Threads \ {t} : th'[u] = th[u]
  <1> SUFFICES ASSUME NEW u \in Threads \ {t} PROVE th'[u] = th[u]
    OBVIOUS
  <1>1. th \in [Threads -> LocalType]
    BY TypeFacts
  <1>2. ASSUME NEW l, Local(t, l) PROVE th'[u] = th[u]
    BY <1>1, <1>2 DEF Local
  <1>3. ASSUME NEW label, Goto(t, label) PROVE th'[u] = th[u]
    BY <1>1, <1>3 DEF Goto
  <1>4. (\E l : Local(t, l)) \/ (\E label : Goto(t, label))
    BY DEF Step, PushStart, PopStart, SizeLoadPush, PushReload, PushReserve, PushDisabled,
       PushSkip, PushAdvance, Construct, ConstructThrows, CommitPush, PopReload, PopReserve,
       PopSkip, PopAdvance, Read, CommitPop, ClearLoad, ClearReserve, ClearSkip, ClearAdvance,
       ClearCommit, AbortRead, AbortAdvance, AbortCommit, SizeLoadPop, Return
  <1> QED
    BY <1>2, <1>3, <1>4

\* A thread returns from reserving a cell only because the queue was disabled, full or empty.
LEMMA ReturnFacts ==
  ASSUME TypeOK, [Next]_vars, NEW t \in Threads, th'[t].pc = "idle",
         th[t].pc \in {"pushReserve", "popReserve"}
  PROVE  /\ th[t].pc = "pushReserve" /\ ~th[t].flag => CellFull(th[t].loaded)
         /\ th[t].pc = "popReserve"
              => PreviousGeneration(th[t].loaded) \/ InState(th[t].loaded, "Empty")
  <1>1. th \in [Threads -> LocalType]
    BY TypeFacts
  <1>2. ASSUME NEW u \in Threads, u # t,
               PushStart(u) \/ PopStart(u) \/ SizeLoadPush(u) \/ Step(u)
        PROVE  th'[t] = th[t]
    BY <1>2, OthersStay
  <1>3. th'[t] # th[t]
    OBVIOUS
  <1>4. ~(UNCHANGED vars) /\ ~disable /\ ~enable
    <2>1. th' # th
      BY <1>3
    <2> QED
      BY <2>1 DEF vars, disable, enable, SetDisabled
  <1>5. PushStart(t) \/ PopStart(t) \/ SizeLoadPush(t) \/ Step(t)
    BY <1>2, <1>3, <1>4 DEF Next
  <1>6. PushReserve(t) \/ PushDisabled(t) \/ PopReserve(t)
    BY <1>5 DEF Step, At, PushStart, PopStart, SizeLoadPush, PushReload,
         PushSkip, PushAdvance, Construct, ConstructThrows, CommitPush, PopReload,
         PopSkip, PopAdvance, Read, CommitPop, ClearLoad, ClearReserve, ClearSkip, ClearAdvance,
         ClearCommit, AbortRead, AbortAdvance, AbortCommit, SizeLoadPop
  <1>7. ASSUME NEW label \in Labels \ {"idle"}
        PROVE  ~Goto(t, label)
    BY <1>1, <1>7, GotoFacts
  <1>8. PICK c \in Combined : c = th[t].loaded
    BY <1>1 DEF LocalType
  <1>9. th[t] \in LocalType /\ "pushReload" \in Labels /\ "popReload" \in Labels
    BY <1>1 DEF Labels
  <1>10. CASE PushReserve(t)
    <2> DEFINE l == [th[t] EXCEPT !.pc = "pushAdvance", !.cell = c]
    <2>3. l \in LocalType /\ l.pc = "pushAdvance"
      BY <1>9, ReserveFacts
    <2> HIDE DEF l
    <2>1. ~Local(t, l)
      BY <2>3, <1>1, LocalFacts
    <2>2. ~Local(t, Saved(th[t], "pushReload", c))
      BY <1>1, <1>9, SaveFacts, LocalFacts, SMTT(30)
    <2> QED
      BY <2>1, <2>2, <1>7, <1>8, <1>10 DEF PushReserve, Saved, Labels, At, l
  <1>11. CASE PushDisabled(t)
    BY <1>11 DEF PushDisabled, At
  <1>12. CASE PopReserve(t)
    <2>1. m_data[Idx(c)] \in Values \cup {None}
      BY Split DEF TypeOK
    <2> DEFINE l == [th[t] EXCEPT !.pc = "popAdvance", !.taken = m_data[Idx(c)]]
    <2>4. l \in LocalType /\ l.pc = "popAdvance"
      BY <2>1, <1>9, TakeFacts
    <2> HIDE DEF l
    <2>2. ~Local(t, l)
      BY <2>4, <1>1, LocalFacts
    <2>3. ~Local(t, Saved(th[t], "popReload", c))
      BY <1>1, <1>9, SaveFacts, LocalFacts, SMTT(30)
    <2> QED
      BY <2>2, <2>3, <1>7, <1>8, <1>12 DEF PopReserve, Saved, Labels, At, l
  <1> QED
    BY <1>6, <1>10, <1>11, <1>12

\* A thread starts to ask for a cell in PushStart only.
LEMMA AskingFacts ==
  ASSUME TypeOK, [Next]_vars
  PROVE  \/ pushes' = pushes /\ Asking' \subseteq Asking
         \/ \E t \in Threads : pushes' = pushes + 1 /\ Asking' = Asking \cup {t}
  <1>1. th \in [Threads -> LocalType]
    BY TypeFacts
  <1>2. CASE UNCHANGED vars \/ disable \/ enable
    <2>1. th' = th /\ pushes' = pushes
      BY <1>2 DEF vars, counters, disable, enable, SetDisabled
    <2> QED
      BY <2>1 DEF Asking
  <1>3. ASSUME NEW t \in Threads, PushStart(t)
        PROVE  pushes' = pushes + 1 /\ Asking' = Asking \cup {t}
    <2>1. \A u \in Threads \ {t} : th'[u] = th[u]
      BY <1>3, OthersStay
    <2>2. th'[t].pc = "pushReserve"
      BY <1>1, <1>3 DEF PushStart, Local, LoadPush, Idle
    <2> QED
      BY <2>1, <2>2, <1>3 DEF PushStart, Asking, PrePush
  <1>4. ASSUME NEW t \in Threads, PopStart(t) \/ SizeLoadPush(t) \/ Step(t)
        PROVE  pushes' = pushes /\ Asking' \subseteq Asking
    <2>1. \A u \in Threads \ {t} : th'[u] = th[u]
      BY <1>4, OthersStay
    <2>2. pushes' = pushes
      BY <1>4 DEF counters, Step, PopStart, SizeLoadPush, PushReload, PushReserve,
         PushDisabled,
         PushSkip, PushAdvance, Construct, ConstructThrows, CommitPush, PopReload, PopReserve,
         PopSkip, PopAdvance, Read, CommitPop, ClearLoad, ClearReserve, ClearSkip, ClearAdvance,
         ClearCommit, AbortRead, AbortAdvance, AbortCommit, SizeLoadPop
    <2>3. ASSUME NEW label, Goto(t, label) PROVE th'[t].pc = label
      BY <2>3, <1>1 DEF Goto, LocalType
    <2>4. ASSUME NEW label, Local(t, LoadPop(th[t], label)) PROVE th'[t].pc = label
      BY <2>4, <1>1 DEF Local, LoadPop, LocalType
    <2>5. Return(t) => th'[t].pc = "idle"
      BY <1>1, SMTT(30) DEF Return, Local, Idle
    <2>6. th'[t].pc \in PrePush => th[t].pc \in PrePush
      <3>1. CASE PushReload(t) \/ PushReserve(t) \/ PushDisabled(t) \/ PushSkip(t)
        BY <3>1 DEF PushReload, PushReserve, PushDisabled, PushSkip, At, PrePush
      <3>2. CASE PushAdvance(t) \/ Construct(t) \/ ConstructThrows(t) \/ PopAdvance(t)
                 \/ ClearReserve(t) \/ ClearAdvance(t) \/ ClearCommit(t) \/ AbortRead(t)
                 \/ AbortAdvance(t)
        BY <3>2, <2>3 DEF PushAdvance, Construct, ConstructThrows, PopAdvance, ClearReserve,
           ClearAdvance, ClearCommit, AbortRead, AbortAdvance, PrePush
      <3>3. CASE CommitPush(t) \/ CommitPop(t) \/ AbortCommit(t) \/ SizeLoadPop(t)
        BY <3>3, <2>5 DEF CommitPush, CommitPop, AbortCommit, SizeLoadPop, PrePush
      <3>4. CASE PopReload(t) \/ PopSkip(t) \/ ClearLoad(t) \/ ClearSkip(t)
        BY <3>4, <2>4 DEF PopReload, PopSkip, ClearLoad, ClearSkip, PrePush
      <3>5. CASE PopStart(t)
        BY <3>5, <1>1 DEF PopStart, Local, LoadPop, Idle, LocalType, PrePush
      <3>7. CASE SizeLoadPush(t)
        BY <3>7, <1>1 DEF SizeLoadPush, Local, Idle, LocalType, PrePush
      <3>8. CASE Read(t)
        BY <3>8, <1>1 DEF Read, Local, LocalType, PrePush
      <3>6. CASE PopReserve(t)
        <4>1. ASSUME NEW c, Local(t, [th[t] EXCEPT !.pc = "popReload", !.saved = c])
              PROVE  th'[t].pc = "popReload"
          BY <4>1, <1>1 DEF Local, LocalType
        <4>2. ASSUME NEW v, Local(t, [th[t] EXCEPT !.pc = "popAdvance", !.taken = v])
              PROVE  th'[t].pc = "popAdvance"
          BY <4>2, <1>1 DEF Local, LocalType
        <4>3. \/ \E c : Local(t, [th[t] EXCEPT !.pc = "popReload", !.saved = c])
              \/ \E v : Local(t, [th[t] EXCEPT !.pc = "popAdvance", !.taken = v])
              \/ Goto(t, "popReload") \/ Goto(t, "popSkip") \/ Return(t)
          BY <3>6 DEF PopReserve
        <4>4. th'[t].pc \in {"popAdvance", "popReload", "popSkip", "idle"}
          BY <4>1, <4>2, <4>3, <2>3, <2>5
        <4> QED
          BY <4>4 DEF PrePush
      <3> QED
        BY <1>4, <3>1, <3>2, <3>3, <3>4, <3>5, <3>6, <3>7, <3>8 DEF Step
    <2> QED
      BY <2>1, <2>2, <2>6 DEF Asking
  <1> QED
    BY <1>2, <1>3, <1>4 DEF Next
-----------------------------------------------------------------------------
(* Cells                                                                   *)

\* A cell is in the state asked for if it stands at the index.
LEMMA CellFacts ==
  ASSUME StatesOK, NEW c \in Combined
  PROVE  /\ Idx(c) \in Cells
         /\ Off(c) \in 0 .. NumCombined - 1
         /\ Pos(Idx(c)) \in 0 .. NumCombined - 1
         /\ m_states[Idx(c)].gen = Gen(c) <=> CellIndex(Idx(c)) = c
         /\ m_states[Idx(c)].gen = Gen(c) <=> Pos(Idx(c)) = Off(c)
         /\ Pos(Idx(c)) - Off(c) < Capacity /\ Off(c) - Pos(Idx(c)) < Capacity
              => Pos(Idx(c)) = Off(c)
  <1> DEFINE d == CellIndex(Idx(c))
  <1>1. Idx(c) \in Cells
    BY Split
  <1>2. m_states[Idx(c)].gen \in Generations
    BY <1>1 DEF StatesOK
  <1>3. d \in Combined /\ Gen(d) = m_states[Idx(c)].gen /\ Idx(d) = Idx(c)
    BY <1>1, <1>2, Join DEF CellIndex
  <1>4. c = Gen(c) * Capacity + Idx(c) /\ d = Gen(d) * Capacity + Idx(d)
    BY <1>3, Split
  <1>5. Gen(d) = Gen(c) <=> d = c
    BY <1>3, <1>4
  <1>6. Off(c) \in 0 .. NumCombined - 1 /\ Off(d) \in 0 .. NumCombined - 1
        /\ (Off(d) = Off(c) => d = c)
    BY <1>3, Apart
  <1>7. Off(d) - Off(c) < Capacity /\ Off(c) - Off(d) < Capacity => d = c
    BY <1>3, SameGeneration
  <1> QED
    BY <1>1, <1>3, <1>5, <1>6, <1>7 DEF Pos

\* No two cells are at the same position, or a whole generation apart.
LEMMA CellsApart ==
  ASSUME StatesOK, NEW i \in Cells, NEW j \in Cells, i # j
  PROVE  /\ Pos(i) \in 0 .. NumCombined - 1 /\ Pos(j) \in 0 .. NumCombined - 1
         /\ Pos(i) # Pos(j) /\ Pos(i) # Pos(j) + Capacity
  <1> DEFINE c == CellIndex(i)
             d == CellIndex(j)
  <1>1. m_states[i].gen \in Generations /\ m_states[j].gen \in Generations
    BY DEF StatesOK
  <1>2. c \in Combined /\ Idx(c) = i /\ d \in Combined /\ Idx(d) = j
    BY <1>1, Join DEF CellIndex
  <1>3. Off(c) # Off(d) /\ Off(c) \in 0 .. NumCombined - 1 /\ Off(d) \in 0 .. NumCombined - 1
    BY <1>2, Apart
  <1>4. Off(c) # Off(d) + Capacity
    BY <1>2, NextGenerationIsSameCell
  <1> QED
    BY <1>3, <1>4 DEF Pos

\* The index of a cell
LEMMA IndexOfCell ==
  ASSUME StatesOK, NEW i \in Cells
  PROVE  /\ CellIndex(i) \in Combined /\ Idx(CellIndex(i)) = i
         /\ Off(CellIndex(i)) = Pos(i) /\ Pos(i) \in 0 .. NumCombined - 1
  <1>1. m_states[i].gen \in Generations
    BY DEF StatesOK
  <1>2. CellIndex(i) \in Combined /\ Idx(CellIndex(i)) = i
    BY <1>1, Join DEF CellIndex
  <1> QED
    BY <1>2, Apart DEF Pos

\* A cell of the previous generation is a generation behind.
LEMMA PreviousFacts ==
  ASSUME StatesOK, NEW c \in Combined, Off(c) <= Pos(Idx(c)) + Capacity,
         Pos(Idx(c)) < Off(c) + MaxPushes + Capacity
  PROVE  LET behind == circularDifference(Gen(c), m_states[Idx(c)].gen, NumGenerations)
         IN  /\ PreviousGeneration(c) <=> Off(c) = Pos(Idx(c)) + Capacity
             /\ PreviousGeneration(c) => behind = 1
             /\ ~PreviousGeneration(c) => 0 >= behind
  <1> DEFINE d == CellIndex(Idx(c))
  <1>1. Idx(c) \in Cells
    BY Split
  <1>2. m_states[Idx(c)].gen \in Generations
    BY <1>1 DEF StatesOK
  <1>3. d \in Combined /\ Gen(d) = m_states[Idx(c)].gen /\ Idx(d) = Idx(c)
    BY <1>1, <1>2, Join DEF CellIndex
  <1>4. Off(d) = Pos(Idx(c))
    BY DEF Pos
  <1> HIDE DEF d
  <1>5. LET difference == Gen(c) - Gen(d)
            behind == circularDifference(Gen(c), Gen(d), NumGenerations)
        IN  /\ difference = 1 \/ difference = -(NumGenerations - 1)
                  <=> Off(c) = Off(d) + Capacity
            /\ Off(c) = Off(d) + Capacity => behind = 1
            /\ Off(c) # Off(d) + Capacity => 0 >= behind
    BY <1>3, <1>4, GenerationsApart
  <1> QED
    BY <1>3, <1>4, <1>5 DEF PreviousGeneration

\* A cell marked in its generation stays where it is.
LEMMA MarkFacts ==
  ASSUME StatesOK, StatesOK', NEW c \in Combined, NEW st,
         m_states[Idx(c)].gen = Gen(c), SetState(c, Gen(c), st)
  PROVE  /\ \A i \in Cells : Pos(i)' = Pos(i) /\ CellIndex(i)' = CellIndex(i)
         /\ \A i \in Cells \ {Idx(c)} : m_states'[i] = m_states[i]
         /\ m_states'[Idx(c)].st = st /\ m_states'[Idx(c)].gen = Gen(c)
  <1>1. Idx(c) \in Cells
    BY Split
  <1>2. m_states' = [m_states EXCEPT ![Idx(c)] = [gen |-> Gen(c), st |-> st]]
    BY DEF SetState
  <1>3. m_states'[Idx(c)] = [gen |-> Gen(c), st |-> st]
    BY <1>1, <1>2 DEF StatesOK
  <1>4. \A i \in Cells \ {Idx(c)} : m_states'[i] = m_states[i]
    BY <1>2 DEF StatesOK
  <1>5. \A i \in Cells : m_states'[i].gen = m_states[i].gen
    BY <1>1, <1>3, <1>4, SMTT(30)
  <1> QED
    BY <1>3, <1>4, <1>5, SMTT(30) DEF Pos, CellIndex, Off

\* A cell that is released goes on to the next generation.
LEMMA ReleaseFacts ==
  ASSUME StatesOK, NEW c \in Combined, m_states[Idx(c)].gen = Gen(c),
         Off(c) < NumCombined - Capacity,
         SetState(c, nextGeneration(Gen(c)), "Empty")
  PROVE  /\ \A i \in Cells \ {Idx(c)} : /\ Pos(i)' = Pos(i) /\ CellIndex(i)' = CellIndex(i)
                                        /\ m_states'[i] = m_states[i]
         /\ m_states'[Idx(c)].st = "Empty" /\ Pos(Idx(c))' = Off(c) + Capacity
  <1>1. Idx(c) \in Cells
    BY Split
  <1>2. m_states' = [m_states EXCEPT ![Idx(c)] =
                       [gen |-> nextGeneration(Gen(c)), st |-> "Empty"]]
    BY DEF SetState
  <1>3. m_states'[Idx(c)] = [gen |-> nextGeneration(Gen(c)), st |-> "Empty"]
    BY <1>1, <1>2 DEF StatesOK
  <1>4. \A i \in Cells \ {Idx(c)} : m_states'[i] = m_states[i]
    BY <1>2 DEF StatesOK
  <1>5. Off(nextGeneration(Gen(c)) * Capacity + Idx(c)) = Off(c) + Capacity
    BY NextGeneration
  <1> QED
    BY <1>3, <1>4, <1>5, SMTT(30) DEF Pos, CellIndex, Off

\* Off of what is in range, as integers
LEMMA OffFacts ==
  ASSUME NEW H \in Nat, NEW T \in Nat, IInv(H, T), NEW c \in Combined
  PROVE  /\ Off(c) \in Int /\ Off(m_pushIndex) \in Int /\ Off(m_popIndex) \in Int
         /\ m_pushIndex \in Combined /\ m_popIndex \in Combined
         /\ Off(c) = Off(m_pushIndex) => c = m_pushIndex
         /\ Off(c) = Off(m_popIndex) => c = m_popIndex
         /\ H <= T /\ T <= H + Capacity /\ T <= MaxPushes
         /\ Off(m_pushIndex) <= T /\ Off(m_pushIndex) >= T - 1
         /\ Off(m_popIndex) <= H /\ Off(m_popIndex) >= H - 1
  <1>1. m_pushIndex \in Combined /\ m_popIndex \in Combined /\ IndexesOK(H, T)
    BY DEF IInv, TypeOK
  <1>2. /\ Off(c) \in Int /\ Off(m_pushIndex) \in Int /\ Off(m_popIndex) \in Int
        /\ Off(c) = Off(m_pushIndex) => c = m_pushIndex
        /\ Off(c) = Off(m_popIndex) => c = m_popIndex
    BY <1>1, Apart, Sizes, SMTT(30)
  <1> QED
    BY <1>1, <1>2, SMTT(30) DEF IndexesOK

\* A position between H and T is that of a cell that is being written or is full.
LEMMA InWindow ==
  ASSUME NEW H \in Nat, NEW T \in Nat, IInv(H, T), NEW c \in Combined, H <= Off(c), Off(c) < T
  PROVE  /\ Idx(c) \in Cells /\ Pos(Idx(c)) = Off(c) /\ CellIndex(Idx(c)) = c
         /\ m_states[Idx(c)].gen = Gen(c) /\ m_states[Idx(c)].st \in {"Writing", "Full"}
  <1> DEFINE x == Idx(c)
  <1>1. StatesOK /\ x \in Cells /\ Pos(x) \in Int /\ Off(c) \in Int
    BY TypeFacts, CellFacts, Sizes, SMTT(30) DEF IInv
  <1>2. m_states[x].st \in {"Empty", "Writing", "Full", "Reading"}
    BY <1>1 DEF StatesOK
  <1>3. CellOK(x, H, T) /\ H <= T /\ T <= H + Capacity
    BY <1>1, OffFacts DEF IInv
  <1>4. Pos(x) - Off(c) < Capacity /\ Off(c) - Pos(x) < Capacity
    BY <1>1, <1>2, <1>3, Sizes, SMTT(30) DEF CellOK
  <1>5. Pos(x) = Off(c) /\ CellIndex(x) = c /\ m_states[x].gen = Gen(c)
    BY <1>1, <1>4, CellFacts
  <1>6. m_states[x].st # "Empty" /\ m_states[x].st # "Reading"
    BY <1>3, <1>5, <1>1, SMTT(30) DEF CellOK
  <1> QED
    BY <1>1, <1>2, <1>5, <1>6
-----------------------------------------------------------------------------
(* What the cell at an index says of the index                             *)

LEMMA ThreadFacts ==
  ASSUME NEW H \in Nat, NEW T \in Nat, IInv(H, T), NEW t \in Threads
  PROVE  /\ TypeOK /\ StatesOK /\ th \in [Threads -> LocalType] /\ th[t] \in LocalType
         /\ th[t].loaded \in Combined /\ th[t].cell \in Combined
         /\ th[t].value \in Values \cup {None}
         /\ LoadedOK(th[t], H, T) /\ ReservedOK(th[t])
         /\ m_pushIndex \in Combined /\ m_popIndex \in Combined /\ disabled \in BOOLEAN
         /\ m_data \in [Cells -> Values \cup {None}]
  <1>1. TypeOK /\ LoadedOK(th[t], H, T) /\ ReservedOK(th[t])
    BY DEF IInv
  <1>2. th[t] \in LocalType
    BY <1>1, TypeFacts
  <1>3. th[t].loaded \in Combined /\ th[t].cell \in Combined /\ th[t].value \in Values \cup {None}
    BY <1>2 DEF LocalType
  <1> QED
    BY <1>1, <1>2, <1>3, TypeFacts

\* What the state of the cell at a loaded push index tells
LEMMA PushCellFacts ==
  ASSUME NEW H \in Nat, NEW T \in Nat, IInv(H, T), NEW c \in Combined, Off(c) <= T
  PROVE  /\ PreviousGeneration(c) => Off(c) = T /\ Pos(Idx(c)) = T - Capacity
         /\ ~InState(c, "Empty") /\ ~PreviousGeneration(c) => Off(c) < T
         /\ PreviousGeneration(c) => m_states[Idx(c)].st # "Empty"
         /\ CellFull(c) => T = H + Capacity
         /\ LET behind == circularDifference(Gen(c), m_states[Idx(c)].gen, NumGenerations)
            IN  IF PreviousGeneration(c) THEN behind = 1 ELSE 0 >= behind
  <1> DEFINE x == Idx(c)
  <1>1. StatesOK /\ x \in Cells /\ Pos(x) \in Int /\ Off(c) \in Int /\ Off(c) >= 0
    BY TypeFacts, CellFacts, Sizes, SMTT(30) DEF IInv
  <1>2. m_states[x].st \in {"Empty", "Writing", "Full", "Reading"}
    BY <1>1 DEF StatesOK
  <1>3. CellOK(x, H, T) /\ H <= T /\ T <= H + Capacity /\ T <= MaxPushes
    BY <1>1, OffFacts DEF IInv
  <1>4. T <= Pos(x) + Capacity /\ Pos(x) < H + Capacity
    BY <1>1, <1>2, <1>3, Sizes, SMTT(30) DEF CellOK
  <1>5. Off(c) <= Pos(x) + Capacity /\ Pos(x) < Off(c) + MaxPushes + Capacity
    BY <1>1, <1>3, <1>4, Sizes, SMTT(30)
  <1>6. LET behind == circularDifference(Gen(c), m_states[x].gen, NumGenerations)
        IN  /\ PreviousGeneration(c) <=> Off(c) = Pos(x) + Capacity
            /\ PreviousGeneration(c) => behind = 1
            /\ ~PreviousGeneration(c) => 0 >= behind
    BY <1>1, <1>5, PreviousFacts
  <1> HIDE DEF x
  <1>7. PreviousGeneration(c) => Off(c) = T /\ Pos(x) = T - Capacity
    BY <1>1, <1>4, <1>6, Sizes, SMTT(30)
  <1>8. PreviousGeneration(c) => m_states[x].st # "Empty"
    BY <1>1, <1>3, <1>7, Sizes, SMTT(30) DEF CellOK
  <1>9. CellFull(c) => T = H + Capacity
    <2>1. SUFFICES ASSUME CellFull(c) PROVE T = H + Capacity
      OBVIOUS
    <2>2. PreviousGeneration(c) /\ m_states[x].st # "Reading"
      BY <2>1 DEF CellFull, x
    <2>3. m_states[x].st \in {"Writing", "Full"}
      BY <2>2, <1>2, <1>8
    <2>4. H <= Pos(x)
      BY <2>3, <1>3 DEF CellOK
    <2> QED
      BY <2>2, <2>4, <1>1, <1>3, <1>7, Sizes, SMTT(30)
  <1>10. ASSUME ~InState(c, "Empty"), ~PreviousGeneration(c) PROVE Off(c) < T
    <2>1. SUFFICES ASSUME Off(c) = T PROVE FALSE
      BY <1>1, SMTT(30)
    <2>2. Pos(x) - Off(c) < Capacity /\ Off(c) - Pos(x) < Capacity
      BY <2>1, <1>1, <1>3, <1>4, <1>6, <1>10, Sizes, SMTT(30)
    <2>3. Pos(x) = Off(c) /\ m_states[x].gen = Gen(c)
      BY <2>2, <1>1, CellFacts DEF x
    <2>4. m_states[x].st = "Empty"
      BY <2>1, <2>3, <1>1, <1>2, <1>3, SMTT(30) DEF CellOK
    <2> QED
      BY <2>3, <2>4, <1>10 DEF InState, x
  <1> QED
    BY <1>6, <1>7, <1>8, <1>9, <1>10 DEF x

\* What the state of the cell at a loaded pop index tells
LEMMA PopCellFacts ==
  ASSUME NEW H \in Nat, NEW T \in Nat, IInv(H, T), NEW c \in Combined, Off(c) <= H
  PROVE  /\ PreviousGeneration(c) => T = H /\ m_states[Idx(c)].st = "Reading"
         /\ InState(c, "Empty") => T = H
         /\ InState(c, "Reading") => Off(c) < H
         /\ H < T /\ m_states[Idx(c)].st \in {"Reading", "Empty"} => Off(c) < H
         /\ PreviousGeneration(c)
              => circularDifference(Gen(c), m_states[Idx(c)].gen, NumGenerations) = 1
  <1> DEFINE x == Idx(c)
  <1>1. StatesOK /\ x \in Cells /\ Pos(x) \in Int /\ Off(c) \in Int /\ Off(c) >= 0
    BY TypeFacts, CellFacts, Sizes, SMTT(30) DEF IInv
  <1>2. m_states[x].st \in {"Empty", "Writing", "Full", "Reading"}
    BY <1>1 DEF StatesOK
  <1>3. CellOK(x, H, T) /\ H <= T /\ T <= H + Capacity /\ T <= MaxPushes
    BY <1>1, OffFacts DEF IInv
  <1>4. T <= Pos(x) + Capacity /\ Pos(x) < H + Capacity
    BY <1>1, <1>2, <1>3, Sizes, SMTT(30) DEF CellOK
  <1>5. Off(c) <= T
    BY <1>1, <1>3, SMTT(30)
  <1>6. /\ PreviousGeneration(c) => Off(c) = T /\ Pos(x) = T - Capacity
        /\ PreviousGeneration(c) => m_states[x].st # "Empty"
        /\ PreviousGeneration(c) => circularDifference(Gen(c), m_states[x].gen, NumGenerations) = 1
    BY <1>5, PushCellFacts
  <1> HIDE DEF x
  <1>7. PreviousGeneration(c) => T = H /\ m_states[x].st = "Reading"
    BY <1>1, <1>2, <1>3, <1>6, Sizes, SMTT(30) DEF CellOK
  <1>8. ASSUME NEW st, InState(c, st) PROVE m_states[x].st = st /\ Pos(x) = Off(c)
    BY <1>1, <1>8, CellFacts DEF InState, x
  <1>9. InState(c, "Empty") => T = H
    BY <1>1, <1>3, <1>8, SMTT(30) DEF CellOK
  <1>10. InState(c, "Reading") => Off(c) < H
    BY <1>1, <1>3, <1>8 DEF CellOK
  <1>11. ASSUME H < T, m_states[x].st \in {"Reading", "Empty"} PROVE Off(c) < H
    <2>1. SUFFICES ASSUME Off(c) = H PROVE FALSE
      BY <1>1, SMTT(30)
    <2>2. /\ m_states[x].gen = Gen(c) /\ m_states[x].st \in {"Writing", "Full"}
      BY <2>1, <1>11, InWindow DEF x
    <2> QED
      BY <2>2, <1>11
  <1> QED
    BY <1>6, <1>7, <1>9, <1>10, <1>11 DEF x

\* While a push is being undone, its cell is in the queue: the pop index is not beyond.
LEMMA ClearFacts ==
  ASSUME NEW H \in Nat, NEW T \in Nat, IInv(H, T), NEW t \in Threads, th[t].pc = "clearReserve"
  PROVE  /\ Writes(th[t], th[t].cell) /\ InState(th[t].cell, "Writing")
         /\ H <= Off(th[t].cell) /\ Off(th[t].cell) < T /\ Off(th[t].loaded) <= H
         /\ Off(th[t].loaded) <= Off(m_popIndex)
         /\ Off(th[t].cell) \in Int /\ Off(th[t].loaded) \in Int
  <1>1. th[t].cell \in Combined /\ th[t].loaded \in Combined /\ LoadedOK(th[t], H, T)
    BY ThreadFacts
  <1>2. Writes(th[t], th[t].cell)
    BY DEF Writes, Holding
  <1>3. InState(th[t].cell, "Writing")
    BY <1>1, <1>2, ThreadFacts DEF ReservedOK
  <1>4. H <= Off(th[t].cell) /\ Off(th[t].cell) < T
    BY <1>1, <1>3, ThreadFacts, CellFacts DEF InState, IInv, CellOK
  <1>5. Off(th[t].loaded) <= Off(m_popIndex)
    BY <1>1 DEF LoadedOK
  <1>6. Off(th[t].cell) \in Int /\ Off(th[t].loaded) \in Int /\ Off(m_popIndex) \in Int
        /\ Off(m_popIndex) <= H
    BY <1>1, OffFacts
  <1> QED
    BY <1>2, <1>3, <1>4, <1>5, <1>6, SMTT(30)
-----------------------------------------------------------------------------
(* The elements in the queue                                               *)

\* The elements at positions H to T - 1
Contents(H, T) == [k \in 1 .. T - H |-> ValueAt(FromStart(H + k - 1))]

\* First is the index at position H, Beyond the one at position T.
LEMMA EndsFacts ==
  ASSUME NEW H \in Nat, NEW T \in Nat, IInv(H, T)
  PROVE  /\ First \in Combined /\ Off(First) = H /\ Beyond \in Combined /\ Off(Beyond) = T
         /\ H <= T /\ T <= H + Capacity /\ T <= MaxPushes
  <1>1. /\ m_pushIndex \in Combined /\ m_popIndex \in Combined /\ StatesOK
        /\ IndexesOK(H, T)
    BY DEF IInv, TypeOK, StatesOK
  <1>2. /\ H <= T /\ T <= H + Capacity /\ T <= MaxPushes
        /\ Off(m_pushIndex) \in Int /\ Off(m_popIndex) \in Int
    BY <1>1, OffFacts
  <1>3. First \in Combined /\ Off(First) = H
    <2>1. CASE Off(m_popIndex) = H
      <3>1. ~InState(m_popIndex, "Reading")
        BY <2>1, <1>1, <1>2, PopCellFacts, SMTT(30)
      <3> QED
        BY <3>1, <2>1, <1>1 DEF First
    <2>2. CASE Off(m_popIndex) = H - 1 /\ \E t \in Threads : Advances(th[t], m_popIndex)
      <3>1. PICK t \in Threads : Advances(th[t], m_popIndex)
        BY <2>2
      <3>2. Reads(th[t], m_popIndex) /\ ReservedOK(th[t])
        BY <3>1 DEF IInv, Advances, Reads
      <3>3. InState(m_popIndex, "Reading")
        BY <3>2, <1>1 DEF ReservedOK
      <3>4. Off(m_popIndex) < NumCombined - 1
        BY <2>2, <1>2, Sizes, SMTT(30)
      <3> QED
        BY <3>3, <3>4, <2>2, <1>1, NextIndex, SMTT(30) DEF First
    <2> QED
      BY <2>1, <2>2, <1>1 DEF IndexesOK
  <1>4. Beyond \in Combined /\ Off(Beyond) = T
    <2>1. CASE Off(m_pushIndex) = T
      <3>1. InState(m_pushIndex, "Empty") \/ PreviousGeneration(m_pushIndex)
        BY <2>1, <1>1, <1>2, PushCellFacts, SMTT(30)
      <3> QED
        BY <3>1, <2>1, <1>1 DEF Beyond
    <2>2. CASE Off(m_pushIndex) = T - 1
      <3>1. ~PreviousGeneration(m_pushIndex)
        BY <2>2, <1>1, <1>2, PushCellFacts, SMTT(30)
      <3>2. ~InState(m_pushIndex, "Empty")
        <4>1. Idx(m_pushIndex) \in Cells
          BY <1>1, Split
        <4>2. CellOK(Idx(m_pushIndex), H, T)
          BY <4>1 DEF IInv
        <4> QED
          BY <4>2, <2>2, <1>1, <1>2, CellFacts, SMTT(30) DEF CellOK, InState
      <3>3. Off(m_pushIndex) < NumCombined - 1
        BY <2>2, <1>2, Sizes, SMTT(30)
      <3> QED
        BY <3>1, <3>2, <3>3, <2>2, <1>1, NextIndex, SMTT(30) DEF Beyond
    <2> QED
      BY <2>1, <2>2, <1>1 DEF IndexesOK
  <1> QED
    BY <1>2, <1>3, <1>4

ItemsAreContents ==
    \A H, T \in Nat :
        IInv(H, T) => Items = Contents(H, T) /\ H <= T /\ T <= H + Capacity /\ T < NumCombined

LEMMA ItemsFacts == ItemsAreContents
  <1> SUFFICES ASSUME NEW H \in Nat, NEW T \in Nat, IInv(H, T)
               PROVE  Items = Contents(H, T) /\ H <= T /\ T <= H + Capacity /\ T < NumCombined
    BY DEF ItemsAreContents
  <1>1. PICK c \in Combined : c = First /\ Off(c) = H
    BY EndsFacts
  <1>2. PICK d \in Combined : d = Beyond /\ Off(d) = T
    BY EndsFacts
  <1>3. H <= T /\ T <= H + Capacity /\ T < NumCombined
    BY EndsFacts, Sizes, SMTT(30)
  <1>4. (d - c) % NumCombined = T - H
    BY <1>1, <1>2, <1>3, Distance
  <1>5. ASSUME NEW k \in 1 .. T - H
        PROVE  (c + k - 1) % NumCombined = FromStart(H + k - 1)
    <2>1. PICK j \in Nat : j = k - 1 /\ c + k - 1 = c + j /\ H + k - 1 = H + j /\ H + j < T
      BY <1>3, SMTT(30) DEF Combined
    <2>2. (c + j) % NumCombined = FromStart(Off(c) + j)
      BY <2>1, <1>1, <1>3, Sizes, Ahead, SMTT(30)
    <2> QED
      BY <2>1, <2>2, <1>1
  <1>6. Items = [k \in 1 .. T - H |-> ValueAt((c + k - 1) % NumCombined)]
    BY <1>1, <1>2, <1>4 DEF Items
  <1> QED
    BY <1>3, <1>5, <1>6 DEF Contents

LEMMA AppendFacts ==
  ASSUME NEW n \in Nat, NEW s, s = [i \in 1 .. n |-> s[i]],
         NEW u, u = [i \in 1 .. n + 1 |-> u[i]], \A i \in 1 .. n : u[i] = s[i]
  PROVE  u = Append(s, u[n + 1]) /\ u # s
  <1> DEFINE S == {u[i] : i \in 1 .. n + 1}
  <1>1. \A i \in 1 .. n : s[i] \in S
    BY SMTT(30)
  <1>2. u[n + 1] \in S
    BY SMTT(30)
  <1> HIDE DEF S
  <1>3. s \in Seq(S) /\ Len(s) = n
    BY <1>1, SMTT(30)
  <1>4. PICK w : w = Append(s, u[n + 1])
    OBVIOUS
  <1>5. /\ w \in Seq(S) /\ Len(w) = n + 1 /\ w[n + 1] = u[n + 1]
        /\ \A i \in 1 .. n : w[i] = s[i]
    BY <1>2, <1>3, <1>4, SMTT(30)
  <1>6. DOMAIN w = 1 .. n + 1 /\ w = [i \in DOMAIN w |-> w[i]]
    BY <1>5, SMTT(30)
  <1>7. \A i \in 1 .. n + 1 : w[i] = u[i]
    <2> SUFFICES ASSUME NEW i \in 1 .. n + 1 PROVE w[i] = u[i]
      OBVIOUS
    <2>1. i = n + 1 \/ i \in 1 .. n
      BY SMTT(30)
    <2> QED
      BY <2>1, <1>5
  <1>8. w = u
    BY <1>6, <1>7
  <1>9. DOMAIN s # DOMAIN u
    <2>1. DOMAIN s = 1 .. n /\ DOMAIN u = 1 .. n + 1
      OBVIOUS
    <2>2. n + 1 \in 1 .. n + 1 /\ n + 1 \notin 1 .. n
      BY SMTT(30)
    <2> QED
      BY <2>1, <2>2
  <1> QED
    BY <1>4, <1>8, <1>9

IsSequence(s, n) == s = [i \in 1 .. n |-> s[i]]
Shifted(s, u, n) == \A i \in 1 .. n - 1 : u[i] = s[i + 1]

LEMMA TailFacts ==
  ASSUME NEW n \in Nat, n > 0, NEW s, NEW u,
         IsSequence(s, n), IsSequence(u, n - 1), Shifted(s, u, n)
  PROVE  u = Tail(s) /\ s # <<>> /\ u # s
  <1> USE DEF IsSequence, Shifted
  <1> DEFINE S == {s[i] : i \in 1 .. n}
  <1>1. \A i \in 1 .. n : s[i] \in S
    OBVIOUS
  <1> HIDE DEF S
  <1>3. s \in Seq(S) /\ Len(s) = n
    BY <1>1, SMTT(30)
  <1>4. PICK w : w = Tail(s)
    OBVIOUS
  <1>5. w \in Seq(S) /\ Len(w) = n - 1 /\ \A i \in 1 .. n - 1 : w[i] = s[i + 1]
    BY <1>3, <1>4, SMTT(30)
  <1>6. DOMAIN w = 1 .. n - 1 /\ w = [i \in DOMAIN w |-> w[i]]
    BY <1>5, SMTT(30)
  <1>7. w = u
    BY <1>5, <1>6, SMTT(30)
  <1>8. DOMAIN s # DOMAIN u
    <2>1. DOMAIN s = 1 .. n /\ DOMAIN u = 1 .. n - 1
      OBVIOUS
    <2>2. n \in 1 .. n /\ n \notin 1 .. n - 1
      BY SMTT(30)
    <2> QED
      BY <2>1, <2>2
  <1>9. s # <<>>
    BY <1>3, SMTT(30)
  <1> QED
    BY <1>4, <1>7, <1>8, <1>9

LEMMA LengthFacts ==
  ASSUME NEW n \in Nat, NEW s, s = [i \in 1 .. n |-> s[i]]
  PROVE  Len(s) = n /\ (n = 0 => s = <<>>)
  <1> DEFINE S == {s[i] : i \in 1 .. n}
  <1>1. \A i \in 1 .. n : s[i] \in S
    OBVIOUS
  <1> HIDE DEF S
  <1>3. s \in Seq(S) /\ Len(s) = n
    BY <1>1, SMTT(30)
  <1> QED
    BY <1>3, SMTT(30)

\* What a step does to positions, it does to the queue of the abstract specification.
LEMMA QueueSteps ==
  ASSUME NEW H \in Nat, NEW T \in Nat, IInv(H, T),
         Stays(H, T) \/ Pushes(H, T) \/ Pops(H, T)
  PROVE  [Queue!Next]_Items
  <1>0. Items = Contents(H, T) /\ H <= T /\ T <= H + Capacity /\ T < NumCombined
    BY ItemsFacts DEF ItemsAreContents
  <1>1. \A k \in 0 .. NumCombined - 1 : FromStart(k) \in Combined /\ Off(FromStart(k)) = k
    BY Wraps, Sizes, SMTT(30)
  <1>2. \A G, U \in Nat : IInv(G, U)' => Items' = Contents(G, U)'
    <2>1. ItemsAreContents'
      BY ItemsFacts, PTL
    <2> QED
      BY <2>1 DEF ItemsAreContents
  <1>3. \A G, U \in Nat : Contents(G, U)' = [k \in 1 .. U - G |-> ValueAt(FromStart(G + k - 1))']
    BY DEF Contents
  <1> DEFINE n == T - H
             s == Contents(H, T)
  <1>4. n \in Nat /\ s = [k \in 1 .. n |-> s[k]]
    BY <1>0, SMTT(30) DEF Contents
  <1>5. \A k \in 1 .. n : s[k] = ValueAt(FromStart(H + k - 1))
    BY DEF Contents
  <1>6. ASSUME NEW G \in Nat, WindowKept(G, T)
        PROVE  \A j \in G .. T - 1 : ValueAt(FromStart(j))' = ValueAt(FromStart(j))
    <2> SUFFICES ASSUME NEW j \in G .. T - 1
                 PROVE  ValueAt(FromStart(j))' = ValueAt(FromStart(j))
      OBVIOUS
    <2>1. PICK c \in Combined : c = FromStart(j) /\ Off(c) = j
      BY <1>0, <1>1, Sizes, SMTT(30)
    <2>2. ValueAt(c)' = ValueAt(c)
      BY <2>1, <1>6, SMTT(30) DEF WindowKept
    <2> QED
      BY <2>1, <2>2
  <1>7. CASE Stays(H, T)
    <2>1. Items' = [k \in 1 .. n |-> ValueAt(FromStart(H + k - 1))']
      BY <1>7, <1>2, <1>3 DEF Stays
    <2>2. \A k \in 1 .. n : ValueAt(FromStart(H + k - 1))' = ValueAt(FromStart(H + k - 1))
      BY <1>0, <1>6, <1>7, SMTT(30) DEF Stays
    <2>3. s = [k \in 1 .. n |-> ValueAt(FromStart(H + k - 1))']
      BY <2>2, <1>4, <1>5
    <2> QED
      BY <2>1, <2>3, <1>0
  <1>8. CASE Pushes(H, T)
    <2> DEFINE u == Items'
    <2>1. u = [k \in 1 .. T + 1 - H |-> ValueAt(FromStart(H + k - 1))']
      BY <1>8, <1>2, <1>3, SMTT(30) DEF Pushes
    <2>2. T + 1 - H = n + 1
      BY SMTT(30)
    <2>3. u = [k \in 1 .. n + 1 |-> u[k]]
      BY <2>1, <2>2
    <2>4. \A k \in 1 .. n : u[k] = s[k]
      <3>1. \A k \in 1 .. n : ValueAt(FromStart(H + k - 1))' = ValueAt(FromStart(H + k - 1))
        BY <1>0, <1>6, <1>8, SMTT(30) DEF Pushes
      <3> QED
        BY <3>1, <2>1, <2>2, <1>4, <1>5, SMTT(30)
    <2>5. u[n + 1] \in Values
      <3>1. PICK c \in Combined : Off(c) = T /\ ValueAt(c)' \in Values
        BY <1>8 DEF Pushes
      <3>2. c = FromStart(T)
        BY <3>1, <1>0, <1>1, Apart
      <3>3. u[n + 1] = ValueAt(FromStart(T))'
        <4>1. n + 1 \in 1 .. n + 1 /\ H + (n + 1) - 1 = T
          BY <1>4, SMTT(30)
        <4> QED
          BY <4>1, <2>1, <2>2
      <3> QED
        BY <3>1, <3>2, <3>3
    <2>7. n < Capacity
      BY <1>0, <1>8, Sizes, SMTT(30) DEF Pushes
    <2> HIDE DEF u, s, n
    <2>6. u = Append(s, u[n + 1]) /\ u # s
      BY <2>3, <2>4, <1>4, AppendFacts
    <2>8. Len(s) = n
      BY <1>4, LengthFacts
    <2> QED
      BY <2>5, <2>6, <2>7, <2>8, <1>0 DEF Queue!Next, Queue!PushBack, u, s
  <1>9. CASE Pops(H, T)
    <2> DEFINE u == Items'
    <2>1. u = [k \in 1 .. T - (H + 1) |-> ValueAt(FromStart(H + 1 + k - 1))'] /\ H < T
      BY <1>9, <1>2, <1>3, SMTT(30) DEF Pops
    <2>2. T - (H + 1) = n - 1 /\ n > 0
      BY <2>1, SMTT(30)
    <2>3. u = [k \in 1 .. n - 1 |-> u[k]]
      BY <2>1, <2>2
    <2>4. \A k \in 1 .. n - 1 : u[k] = s[k + 1]
      <3> SUFFICES ASSUME NEW k \in 1 .. n - 1 PROVE u[k] = s[k + 1]
        OBVIOUS
      <3>1. k + 1 \in 1 .. n /\ H + 1 + k - 1 = H + (k + 1) - 1 /\ H + 1 + k - 1 \in H + 1 .. T - 1
        BY <2>2, SMTT(30)
      <3>2. ValueAt(FromStart(H + 1 + k - 1))' = ValueAt(FromStart(H + 1 + k - 1))
        BY <3>1, <1>6, <1>9, SMTT(30) DEF Pops
      <3>3. u[k] = ValueAt(FromStart(H + 1 + k - 1))'
        BY <2>1, <2>2
      <3>4. s[k + 1] = ValueAt(FromStart(H + (k + 1) - 1))
        BY <3>1, <1>5
      <3> QED
        BY <3>1, <3>2, <3>3, <3>4
    <2>6. n > 0
      BY <2>2
    <2> HIDE DEF u, s, n
    <2>5. u = Tail(s) /\ s # <<>> /\ u # s
      <3>1. n \in Nat
        BY <1>4
      <3>2. IsSequence(s, n)
        BY <1>4 DEF IsSequence
      <3>3. IsSequence(u, n - 1)
        BY <2>3 DEF IsSequence
      <3>4. Shifted(s, u, n)
        BY <2>4 DEF Shifted
      <3> QED
        BY <2>6, <3>1, <3>2, <3>3, <3>4, TailFacts
    <2> QED
      BY <2>5, <1>0 DEF Queue!Next, Queue!PopFront, u, s
  <1> QED
    BY <1>7, <1>8, <1>9

LengthIs(H, T) == /\ Len(Items) = T - H /\ H <= T /\ T - H <= Capacity
                  /\ (T = H => Items = <<>>)

LEMMA LengthFollows ==
  ASSUME NEW H \in Nat, NEW T \in Nat, IInv(H, T)
  PROVE  LengthIs(H, T)
  <1>1. Items = Contents(H, T) /\ H <= T /\ T <= H + Capacity
    BY ItemsFacts DEF ItemsAreContents
  <1>2. T - H \in Nat /\ Items = [k \in 1 .. T - H |-> Items[k]]
    BY <1>1, SMTT(30) DEF Contents
  <1>3. Len(Items) = T - H /\ (T - H = 0 => Items = <<>>)
    BY <1>2, LengthFacts
  <1> QED
    BY <1>1, <1>3, Sizes, SMTT(30) DEF LengthIs

\* The cells that are being written or are full are those at positions H to T - 1.
LEMMA WindowCells ==
  ASSUME NEW H \in Nat, NEW T \in Nat, IInv(H, T)
  PROVE  LET S == {i \in Cells : m_states[i].st \in {"Writing", "Full"}}
         IN  /\ \A i \in S : Pos(i) \in H .. T - 1
             /\ \A i, j \in S : Pos(i) = Pos(j) => i = j
             /\ \A p \in H .. T - 1 : \E i \in S : Pos(i) = p
  <1>1. StatesOK /\ \A i \in Cells : CellOK(i, H, T)
    BY DEF IInv, TypeOK, StatesOK
  <1>2. \A i \in Cells : /\ CellIndex(i) \in Combined /\ Idx(CellIndex(i)) = i
                         /\ Off(CellIndex(i)) = Pos(i) /\ Pos(i) \in Int
    BY <1>1, IndexOfCell, Sizes, SMTT(30)
  <1>3. \A i \in Cells : m_states[i].st \in {"Writing", "Full"} => Pos(i) \in H .. T - 1
    BY <1>1, <1>2, SMTT(30) DEF CellOK
  <1>4. \A i, j \in Cells : Pos(i) = Pos(j) => i = j
    BY <1>2, Apart
  <1>5. ASSUME NEW p \in H .. T - 1
        PROVE  \E i \in Cells : m_states[i].st \in {"Writing", "Full"} /\ Pos(i) = p
    <2>1. p \in Nat /\ p < NumCombined
      BY EndsFacts, Sizes, SMTT(30)
    <2>2. PICK c \in Combined : Off(c) = p
      BY <2>1, Wraps
    <2> QED
      BY <2>2, InWindow, SMTT(30)
  <1> QED
    BY <1>3, <1>4, <1>5
-----------------------------------------------------------------------------
(* What the invariant says of the assertions and results of the code       *)

\* The pop index is never more than Capacity behind an index a thread loaded from the
\* push index.
LEMMA PopIndexFollows ==
  ASSUME NEW H \in Nat, NEW T \in Nat, IInv(H, T)
  PROVE  T - Off(m_popIndex) <= Capacity
  <1>1. m_popIndex \in Combined /\ StatesOK /\ IndexesOK(H, T)
    BY DEF IInv, TypeOK, StatesOK
  <1>2. T <= H + Capacity
    BY <1>1, OffFacts
  <1>3. CASE Off(m_popIndex) = H
    BY <1>2, <1>3, Sizes, SMTT(30)
  <1>4. CASE Off(m_popIndex) = H - 1 /\ \E t \in Threads : Advances(th[t], m_popIndex)
    <2>1. PICK t \in Threads : Advances(th[t], m_popIndex)
      BY <1>4
    <2>2. Reads(th[t], m_popIndex) /\ ReservedOK(th[t])
      BY <2>1 DEF IInv, Advances, Reads
    <2>3. InState(m_popIndex, "Reading")
      BY <2>2, <1>1 DEF ReservedOK
    <2>4. Idx(m_popIndex) \in Cells /\ Pos(Idx(m_popIndex)) = Off(m_popIndex)
      BY <2>3, <1>1, CellFacts DEF InState
    <2>5. CellOK(Idx(m_popIndex), H, T)
      BY <2>4 DEF IInv
    <2>6. T <= Off(m_popIndex) + Capacity
      BY <2>3, <2>4, <2>5 DEF CellOK, InState
    <2> QED
      BY <2>6, <1>4, Sizes, SMTT(30)
  <1> QED
    BY <1>1, <1>3, <1>4 DEF IndexesOK

LEMMA AssertionsFollow ==
  ASSUME NEW H \in Nat, NEW T \in Nat, IInv(H, T)
  PROVE  AssertionsHold
  <1> SUFFICES ASSUME NEW t \in Threads
               PROVE  LET c == th[t].loaded
                          elem == m_states[Idx(c)]
                          behind == circularDifference(Gen(c), elem.gen, NumGenerations)
                      IN  /\ th[t].pc = "pushReserve" /\ ~th[t].flag /\ ~InState(c, "Empty") =>
                                IF PreviousGeneration(c) THEN behind = 1 /\ elem.st # "Empty"
                                ELSE 0 >= behind
                          /\ th[t].pc = "popReserve" /\ PreviousGeneration(c) =>
                                elem.st = "Reading" /\ behind = 1
                          /\ th[t].pc = "pushCommit" => InState(th[t].cell, "Writing")
                          /\ th[t].pc \in {"popCommit", "clearCommit"} => InState(c, "Reading")
                          /\ th[t].pc = "clearReserve" /\ c # th[t].cell =>
                                0 < circularDifference(th[t].cell, c, NumCombined)
                          /\ th[t].pc = "clearReserve" /\ c = th[t].cell =>
                                m_popIndex = th[t].cell /\ InState(th[t].cell, "Writing")
                          /\ th[t].pc = "size" /\ c - m_popIndex > Capacity =>
                                0 > circularDifference(c, m_popIndex, NumCombined)
                          /\ th[t].pc = "size" /\ c - m_popIndex < -((NumCombined - 1) \div 2) =>
                                0 < circularDifference(c, m_popIndex, NumCombined)
    BY DEF AssertionsHold, IInv
  <1>1. PICK c \in Combined : c = th[t].loaded
    BY ThreadFacts
  <1>2. PICK e \in Combined : e = th[t].cell
    BY ThreadFacts
  <1>3. /\ Off(m_pushIndex) <= T /\ Off(m_popIndex) <= H /\ Off(m_popIndex) \in Int
        /\ Off(m_pushIndex) \in Int /\ m_popIndex \in Combined /\ Off(c) \in Int
        /\ T <= MaxPushes /\ H <= T
    BY OffFacts
  <1>4. LoadedOK(th[t], H, T) /\ ReservedOK(th[t])
    BY ThreadFacts
  <1>5. /\ Off(c) \in Int /\ 0 <= Off(c) /\ Off(e) \in Int /\ 0 <= Off(e)
        /\ 0 <= Off(m_popIndex) /\ (Off(c) = Off(e) => c = e)
    BY <1>3, Apart, Sizes, SMTT(30)
  <1>6. th[t].pc = "pushReserve" /\ ~InState(c, "Empty") =>
          IF PreviousGeneration(c)
          THEN circularDifference(Gen(c), m_states[Idx(c)].gen, NumGenerations) = 1
               /\ m_states[Idx(c)].st # "Empty"
          ELSE 0 >= circularDifference(Gen(c), m_states[Idx(c)].gen, NumGenerations)
    <2> SUFFICES ASSUME th[t].pc = "pushReserve" PROVE Off(c) <= T
      BY PushCellFacts
    <2> QED
      BY <1>1, <1>3, <1>4, SMTT(30) DEF LoadedOK, PrePush
  <1>7. th[t].pc = "popReserve" /\ PreviousGeneration(c) =>
          /\ m_states[Idx(c)].st = "Reading"
          /\ circularDifference(Gen(c), m_states[Idx(c)].gen, NumGenerations) = 1
    <2> SUFFICES ASSUME th[t].pc = "popReserve" PROVE Off(c) <= H
      BY PopCellFacts
    <2> QED
      BY <1>1, <1>3, <1>4, SMTT(30) DEF LoadedOK
  <1>8. /\ th[t].pc = "pushCommit" => InState(e, "Writing")
        /\ th[t].pc \in {"popCommit", "clearCommit"} => InState(c, "Reading")
    BY <1>1, <1>2, <1>4 DEF ReservedOK, Writes, Reads, Holding
  <1>9. ASSUME th[t].pc = "clearReserve"
        PROVE  /\ c # e => 0 < circularDifference(e, c, NumCombined)
               /\ c = e => m_popIndex = e /\ InState(e, "Writing")
    <2>1. /\ InState(e, "Writing") /\ H <= Off(e) /\ Off(e) < T
          /\ Off(c) <= Off(m_popIndex) /\ Off(c) <= H
      BY <1>1, <1>2, <1>9, ClearFacts
    <2>2. c # e => Off(e) - Off(c) > 0
      BY <2>1, <1>5, SMTT(30)
    <2>3. circularDifference(e, c, NumCombined) = Off(e) - Off(c)
      BY <2>1, <1>3, <1>5, Sizes, DifferenceFacts, SMTT(30)
    <2>4. c = e => Off(e) = Off(m_popIndex)
      BY <2>1, <1>3, <1>5, SMTT(30)
    <2> QED
      BY <2>1, <2>2, <2>3, <2>4, <1>5, OffFacts
  <1>10. ASSUME th[t].pc = "size"
         PROVE  /\ c - m_popIndex > Capacity => 0 > circularDifference(c, m_popIndex, NumCombined)
                /\ c - m_popIndex < -((NumCombined - 1) \div 2) =>
                     0 < circularDifference(c, m_popIndex, NumCombined)
    <2>1. Off(c) <= T
      BY <1>1, <1>3, <1>4, <1>10, SMTT(30) DEF LoadedOK
    <2>2. T - Off(m_popIndex) <= Capacity
      BY PopIndexFollows
    <2>3. PICK k \in Int : k = Off(c) - Off(m_popIndex) /\ k <= Capacity /\ k >= -MaxPushes
      BY <2>1, <2>2, <1>3, <1>5, Sizes, SMTT(30)
    <2>4. circularDifference(c, m_popIndex, NumCombined) = k
      BY <2>3, <1>3, Sizes, DifferenceFacts, SMTT(30)
    <2>5. /\ c \in Int /\ m_popIndex \in Int
          /\ c - m_popIndex \in {k, k - NumCombined, k + NumCombined}
          /\ -NumCombined < c - m_popIndex /\ c - m_popIndex < NumCombined
      BY <2>3, <1>3, Sizes, SMTT(30) DEF Off, Combined
    <2>6. c - m_popIndex > Capacity => 0 > k
      BY <2>3, <2>5, Sizes, SMTT(30)
    <2>7. c - m_popIndex < -((NumCombined - 1) \div 2) => 0 < k
      BY <2>3, <2>5, Sizes, SMTT(30)
    <2> QED
      BY <2>4, <2>6, <2>7
  <1> QED
    BY <1>1, <1>2, <1>6, <1>7, <1>8, <1>9, <1>10

LEMMA SizeFollows ==
  ASSUME NEW H \in Nat, NEW T \in Nat, IInv(H, T)
  PROVE  SizeIsCurrent
  <1> SUFFICES ASSUME \A t \in Threads : th[t].pc = "idle", toggles = 0
               PROVE  SizeOf(m_pushIndex, m_popIndex) = Len(Items)
    BY DEF SizeIsCurrent
  <1>1. m_pushIndex \in Combined /\ m_popIndex \in Combined /\ IndexesOK(H, T)
    BY DEF IInv, TypeOK
  <1>2. Off(m_pushIndex) = T /\ Off(m_popIndex) = H
    BY <1>1, SMTT(30) DEF IndexesOK, Advances
  <1>3. Len(Items) = T - H /\ H <= T /\ T - H <= Capacity
    BY LengthFollows DEF LengthIs
  <1>4. /\ m_pushIndex \in Int /\ m_popIndex \in Int
        /\ m_pushIndex - m_popIndex \in {T - H, T - H - NumCombined, T - H + NumCombined}
        /\ m_pushIndex - m_popIndex < NumCombined
    BY <1>1, <1>2, Sizes, SMTT(30) DEF Off, Combined
  <1>5. PICK d \in Int : d = m_pushIndex - m_popIndex
    BY <1>4, SMTT(30)
  <1>6. PICK n \in Int : n = T - H /\ 0 <= n /\ n <= Capacity
    BY <1>3, Sizes, SMTT(30)
  <1>7. d = n \/ d = n - NumCombined
    BY <1>4, <1>5, <1>6, Sizes, SMTT(30)
  <1>8. CASE d = n
    <2>1. d >= 0 /\ d <= Capacity /\ ~(d > Capacity) /\ ~(d < -((NumCombined - 1) \div 2))
      BY <1>6, <1>8, Sizes, SMTT(30)
    <2> QED
      BY <2>1, <1>3, <1>5, <1>6, <1>8 DEF SizeOf
  <1>9. CASE d = n - NumCombined
    <2>1. d < 0 /\ d < -((NumCombined - 1) \div 2) /\ d + NumCombined = n
      BY <1>6, <1>9, Sizes, SMTT(30)
    <2> QED
      BY <2>1, <1>3, <1>5, <1>6, Sizes, SMTT(30) DEF SizeOf
  <1> QED
    BY <1>7, <1>8, <1>9

LEMMA FullAndEmptyFollow ==
  ASSUME NEW H \in Nat, NEW T \in Nat, IInv(H, T), [Next]_vars, NEW t \in Threads
  PROVE  /\ th[t].pc = "pushReserve" /\ ~th[t].flag /\ th'[t].pc = "idle" => Len(Items) = Capacity
         /\ th[t].pc = "popReserve" /\ th'[t].pc = "idle" => Items = <<>>
  <1>1. PICK c \in Combined : c = th[t].loaded
    BY ThreadFacts
  <1>2. TypeOK /\ LoadedOK(th[t], H, T)
    BY ThreadFacts
  <1>3. /\ Off(m_pushIndex) <= T /\ Off(m_popIndex) <= H /\ Off(c) \in Int
        /\ Off(m_pushIndex) \in Int /\ Off(m_popIndex) \in Int
    BY OffFacts
  <1>5. Len(Items) = T - H /\ (T = H => Items = <<>>)
    BY LengthFollows DEF LengthIs
  <1>6. ASSUME th[t].pc = "pushReserve", ~th[t].flag, th'[t].pc = "idle"
        PROVE  Len(Items) = Capacity
    <2>1. CellFull(c)
      BY <1>1, <1>2, <1>6, ReturnFacts
    <2>2. Off(c) <= T
      BY <1>1, <1>2, <1>3, <1>6, SMTT(30) DEF LoadedOK, PrePush
    <2>3. T = H + Capacity
      BY <2>1, <2>2, PushCellFacts
    <2> QED
      BY <2>3, <1>5, Sizes, SMTT(30)
  <1>7. ASSUME th[t].pc = "popReserve", th'[t].pc = "idle"
        PROVE  Items = <<>>
    <2>1. PreviousGeneration(c) \/ InState(c, "Empty")
      BY <1>1, <1>2, <1>7, ReturnFacts
    <2>2. Off(c) <= H
      BY <1>1, <1>2, <1>3, <1>7, SMTT(30) DEF LoadedOK
    <2>3. T = H
      BY <2>1, <2>2, PopCellFacts
    <2> QED
      BY <2>3, <1>5
  <1> QED
    BY <1>6, <1>7
-----------------------------------------------------------------------------
(* The initial states                                                      *)

LEMMA InitFacts ==
  ASSUME Init
  PROVE  IInv(0, Filled)
  <1>1. /\ Filled \in Nat /\ Filled <= Capacity /\ Filled <= MaxPushes /\ Filled < NumCombined
        /\ 0 \in Combined
    BY QueueAssumption, Sizes, SMTT(30) DEF Combined
  <1>2. /\ m_pushIndex = FromStart(Filled) /\ m_popIndex = Start /\ disabled = FALSE
        /\ m_states = [i \in Cells |->
                         [gen |-> Gen(FromStart(Place(i))),
                          st |-> IF Place(i) < Filled THEN "Full" ELSE "Empty"]]
        /\ m_data = [i \in Cells |-> IF Place(i) < Filled THEN Place(i) + 1 ELSE None]
        /\ th = [t \in Threads |-> Idle]
        /\ pushes = Filled /\ pops = 0 /\ throws = 0 /\ toggles = 0
    BY DEF Init, FromStart, Place
  <1>3. m_pushIndex \in Combined /\ Off(m_pushIndex) = Filled
    BY <1>1, <1>2, Wraps
  <1>4. m_popIndex \in Combined /\ Off(m_popIndex) = 0
    BY <1>2, Sizes, SMTT(30) DEF Off, Combined
  <1>5. ASSUME NEW i \in Cells
        PROVE  /\ m_states[i] \in [gen : Generations, st : {"Empty", "Writing", "Full", "Reading"}]
               /\ m_data[i] \in Values \cup {None}
               /\ Place(i) \in Nat /\ Place(i) < Capacity /\ Pos(i) = Place(i)
               /\ m_states[i].st = IF Place(i) < Filled THEN "Full" ELSE "Empty"
    <2>1. Place(i) \in Nat /\ Place(i) < Capacity /\ Place(i) < NumCombined
      BY PlaceFacts, Sizes, SMTT(30) DEF Cells
    <2>2. PICK c \in Combined : c = FromStart(Place(i)) /\ Off(c) = Place(i) /\ Idx(c) = i
      BY <2>1, Wraps, PlaceFacts
    <2>3. m_states[i] = [gen |-> Gen(c), st |-> IF Place(i) < Filled THEN "Full" ELSE "Empty"]
      BY <1>2, <2>2
    <2>4. CellIndex(i) = c
      BY <2>2, <2>3, Split, SMTT(30) DEF CellIndex
    <2>5. Gen(c) \in Generations
      BY Split
    <2>6. m_data[i] \in Values \cup {None}
      BY <1>1, <1>2, <2>1, Sizes, SMTT(30) DEF Values
    <2> QED
      BY <2>1, <2>2, <2>3, <2>4, <2>5, <2>6, SMTT(30) DEF Pos
  <1>6. \A t \in Threads : th[t] = Idle /\ th[t].pc = "idle"
    BY <1>2 DEF Idle
  <1>7. TypeOK
    <2>1. StatesOK
      BY <1>2, <1>5 DEF StatesOK
    <2>2. m_data \in [Cells -> Values \cup {None}]
      BY <1>2, <1>5
    <2>3. th \in [Threads -> LocalType]
      BY <1>2, IdleType
    <2>4. /\ pushes \in 0 .. MaxPushes /\ pops \in 0 .. MaxPops
          /\ throws \in 0 .. MaxThrows /\ toggles \in 0 .. MaxToggles
      BY <1>1, <1>2, QueueAssumption, SMTT(30)
    <2>5. disabled \in BOOLEAN
      BY <1>2
    <2> QED
      BY <2>1, <2>2, <2>3, <2>4, <2>5, <1>3, <1>4 DEF TypeOK, StatesOK, LocalType
  <1>8. IndexesOK(0, Filled)
    BY <1>1, <1>2, <1>3, <1>4, Sizes, SMTT(30) DEF IndexesOK
  <1>9. \A i \in Cells : CellOK(i, 0, Filled)
    BY <1>1, <1>5, Sizes, SMTT(30) DEF CellOK
  <1>10. \A t \in Threads : LoadedOK(th[t], 0, Filled) /\ ReservedOK(th[t])
    BY <1>6 DEF LoadedOK, PrePush, ReservedOK, Reads, Writes, Holding
  <1>11. OwnersDiffer
    BY <1>6, SMTT(30) DEF OwnersDiffer, Has, Reads, Writes, Holding
  <1> QED
    BY <1>7, <1>8, <1>9, <1>10, <1>11 DEF IInv
-----------------------------------------------------------------------------
(* Steps of one thread                                                     *)

ChangesOnly(x) == \A i \in Cells \ {x} : m_states'[i] = m_states[i] /\ m_data'[i] = m_data[i]
Owns(l, x) == \E c \in Combined : Has(l, c) /\ Idx(c) = x
OthersOwn(t, x) == \E u \in Threads \ {t} : Owns(th[u], x)
IndexesGoOn == Off(m_pushIndex) <= Off(m_pushIndex)' /\ Off(m_popIndex) <= Off(m_popIndex)'

\* The cells that the other threads have reserved are not the one that is changed.
LEMMA OthersKeep ==
  ASSUME NEW H \in Nat, NEW T \in Nat, NEW H2 \in Nat, NEW T2 \in Nat, IInv(H, T), TypeOK',
         NEW t \in Threads, Moved(t), H <= H2, T <= T2, IndexesGoOn,
         NEW x, ChangesOnly(x), ~OthersOwn(t, x),
         NEW u \in Threads \ {t}
  PROVE  LoadedOK(th[u], H2, T2)' /\ ReservedOK(th[u])'
  <1>1. th'[u] = th[u]
    BY DEF Moved
  <1> DEFINE l == th[u]
  <1>2. l \in LocalType
    BY TypeFacts DEF IInv
  <1>3. l.loaded \in Combined /\ l.cell \in Combined
    BY <1>2 DEF LocalType
  <1>4. LoadedOK(l, H, T) /\ ReservedOK(l)
    BY DEF IInv
  <1>5. /\ m_pushIndex \in Combined /\ m_popIndex \in Combined
        /\ m_pushIndex' \in Combined /\ m_popIndex' \in Combined
    BY DEF IInv, TypeOK
  <1>6. /\ Off(l.loaded) \in Int /\ Off(l.cell) \in Int
        /\ Off(m_pushIndex) \in Int /\ Off(m_popIndex) \in Int
        /\ Off(m_pushIndex') \in Int /\ Off(m_popIndex') \in Int
    BY <1>3, <1>5, Apart, Sizes, SMTT(30)
  <1>7. Off(m_pushIndex) <= Off(m_pushIndex') /\ Off(m_popIndex) <= Off(m_popIndex')
    BY DEF IndexesGoOn, Off
  <1> HIDE DEF l
  <1>8. LoadedOK(l, H2, T2)'
    <2>1. /\ l.pc \in PrePush \cup {"size"} => Off(l.loaded) <= Off(m_pushIndex')
          /\ l.pc = "pushSkip" => Off(l.loaded) < T2
      BY <1>4, <1>6, <1>7, SMTT(30) DEF LoadedOK
    <2>2. /\ l.pc \in {"popReserve", "popSkip", "clearReserve", "clearSkip"}
               => Off(l.loaded) <= Off(m_popIndex')
          /\ l.pc \in {"popSkip", "clearSkip"} => Off(l.loaded) < H2
      BY <1>4, <1>6, <1>7, SMTT(30) DEF LoadedOK
    <2>3. /\ l.pc \in {"read", "popCommit", "clearCommit"} => Off(l.loaded) < Off(m_popIndex')
          /\ l.pc = "abortCommit" => Off(l.cell) < Off(m_popIndex')
      BY <1>4, <1>6, <1>7, SMTT(30) DEF LoadedOK
    <2>4. l.pc \in PrePush => l.value \in Values
      BY <1>4 DEF LoadedOK
    <2> QED
      BY <2>1, <2>2, <2>3, <2>4, <1>1 DEF LoadedOK, l, Off
  <1>9. \A c \in Combined : Has(l, c) =>
          /\ Idx(c) \in Cells /\ m_states'[Idx(c)] = m_states[Idx(c)]
          /\ m_data'[Idx(c)] = m_data[Idx(c)]
    <2> TAKE c \in Combined
    <2> HAVE Has(l, c)
    <2>1. Idx(c) \in Cells /\ Idx(c) # x
      BY Split DEF OthersOwn, Owns, l
    <2> QED
      BY <2>1 DEF ChangesOnly
  <1>10. ReservedOK(l)'
    <2>1. \A c \in Combined : Reads(l, c) => InState(c, "Reading")'
      BY <1>4, <1>9 DEF ReservedOK, InState, Has
    <2>2. \A c \in Combined : Writes(l, c) => InState(c, "Writing")'
      BY <1>4, <1>9 DEF ReservedOK, InState, Has
    <2>3. l.pc = "pushCommit" => m_data'[Idx(l.cell)] = l.value
      BY <1>3, <1>4, <1>9 DEF ReservedOK, Has, Writes, Holding
    <2>4. l.pc \in {"popAdvance", "read"} => m_data'[Idx(l.loaded)] = l.taken
      BY <1>3, <1>4, <1>9 DEF ReservedOK, Has, Reads
    <2>5. l.pc = "popCommit" => l.value = l.taken
      BY <1>4 DEF ReservedOK
    <2> QED
      BY <2>1, <2>2, <2>3, <2>4, <2>5, <1>1 DEF ReservedOK, l, Reads, Writes
  <1> QED
    BY <1>8, <1>10 DEF l

\* What a thread has after a step it had before, or has just reserved.
Reserved(t, x) == \A c \in Combined : Has(th'[t], c) => Has(th[t], c) \/ Idx(c) = x

\* What is left to show of a step: the thread that takes it, the indexes and the cells.
LEMMA StepKeeps ==
  ASSUME NEW H \in Nat, NEW T \in Nat, NEW H2 \in Nat, NEW T2 \in Nat, IInv(H, T), TypeOK',
         NEW t \in Threads, Moved(t), H <= H2, T <= T2, IndexesGoOn,
         NEW x, ChangesOnly(x), ~OthersOwn(t, x), Reserved(t, x),
         LoadedOK(th[t], H2, T2)', ReservedOK(th[t])',
         IndexesOK(H2, T2)', \A i \in Cells : CellOK(i, H2, T2)'
  PROVE  IInv(H2, T2)'
  <1>1. \A u \in Threads : LoadedOK(th[u], H2, T2)' /\ ReservedOK(th[u])'
    <2> TAKE u \in Threads
    <2>1. CASE u = t
      BY <2>1
    <2>2. CASE u # t
      <3>1. u \in Threads \ {t}
        BY <2>2
      <3> QED
        BY <3>1, OthersKeep
    <2> QED
      BY <2>1, <2>2
  <1>2. OwnersDiffer'
    <2> SUFFICES ASSUME NEW a \in Threads, NEW b \in Threads, NEW c \in Combined,
                        Has(th'[a], c), Has(th'[b], c), a # b
                 PROVE  FALSE
      BY DEF OwnersDiffer, Has, Reads, Writes
    <2>1. CASE a # t /\ b # t
      BY <2>1 DEF Moved, IInv, OwnersDiffer
    <2>2. CASE a = t
      <3>1. Has(th[b], c)
        BY <2>2 DEF Moved
      <3>2. CASE Has(th[t], c)
        BY <3>1, <3>2, <2>2 DEF IInv, OwnersDiffer
      <3>3. CASE Idx(c) = x
        BY <3>1, <3>3, <2>2 DEF OthersOwn, Owns
      <3> QED
        BY <3>2, <3>3, <2>2 DEF Reserved
    <2>3. CASE b = t
      <3>1. Has(th[a], c)
        BY <2>3 DEF Moved
      <3>2. CASE Has(th[t], c)
        BY <3>1, <3>2, <2>3 DEF IInv, OwnersDiffer
      <3>3. CASE Idx(c) = x
        BY <3>1, <3>3, <2>3 DEF OthersOwn, Owns
      <3> QED
        BY <3>2, <3>3, <2>3 DEF Reserved
    <2> QED
      BY <2>1, <2>2, <2>3
  <1> QED
    BY <1>1, <1>2 DEF IInv

\* A cell that thread t has reserved is nobody else's.
LEMMA OwnCell ==
  ASSUME NEW H \in Nat, NEW T \in Nat, IInv(H, T), NEW t \in Threads, NEW c \in Combined,
         Has(th[t], c)
  PROVE  ~OthersOwn(t, Idx(c)) /\ m_states[Idx(c)].gen = Gen(c)
  <1>1. \A u \in Threads, d \in Combined : Has(th[u], d) => m_states[Idx(d)].gen = Gen(d)
    BY DEF IInv, ReservedOK, Has, InState
  <1>2. SUFFICES ASSUME NEW u \in Threads \ {t}, NEW d \in Combined, Has(th[u], d), Idx(d) = Idx(c)
                 PROVE  FALSE
    BY <1>1 DEF OthersOwn, Owns
  <1>3. Gen(d) = Gen(c)
    BY <1>1, <1>2
  <1>4. d = c
    BY <1>2, <1>3, Split
  <1> QED
    BY <1>2, <1>4 DEF IInv, OwnersDiffer

\* A cell that is empty or full is nobody's.
LEMMA FreeCell ==
  ASSUME NEW H \in Nat, NEW T \in Nat, IInv(H, T), NEW t \in Threads, NEW x,
         m_states[x].st = "Empty" \/ m_states[x].st = "Full"
  PROVE  ~OthersOwn(t, x)
  <1>1. \A u \in Threads, d \in Combined :
            Has(th[u], d) => m_states[Idx(d)].st \in {"Reading", "Writing"}
    BY DEF IInv, ReservedOK, Has, InState
  <1> QED
    BY <1>1 DEF OthersOwn, Owns

\* No cell is called None.
LEMMA NoCell ==
  ASSUME NEW t \in Threads
  PROVE  None \notin Cells /\ ~OthersOwn(t, None)
  BY Split, SMTT(30) DEF OthersOwn, Owns, Cells, None

\* A cell that is being written has one holder: its value is the cell's.
LEMMA HolderValue ==
  ASSUME NEW H \in Nat, NEW T \in Nat, IInv(H, T), NEW c \in Combined,
         ~InState(c, "Full"), NEW t \in Threads, Holds(t, c)
  PROVE  ValueAt(c) = th[t].value
  <1>1. \A u \in Threads : Holds(u, c) => u = t
    BY DEF Holds, IInv, OwnersDiffer, Has, Writes
  <1>2. Holder(c) = t
    BY <1>1 DEF Holder
  <1> QED
    BY <1>2 DEF ValueAt

ValueStays(t) ==
    \A d \in Combined : Writes(th'[t], d) /\ Writes(th[t], d) => th'[t].value = th[t].value

\* A step changes no element of the queue if it changes none in the cell it works on.
LEMMA WindowKeeps ==
  ASSUME NEW H \in Nat, NEW T \in Nat, NEW H2 \in Nat, NEW T2 \in Nat,
         IInv(H, T), IInv(H2, T2)', H <= H2, T <= T2,
         NEW t \in Threads, Moved(t), NEW x, ChangesOnly(x), Reserved(t, x), ValueStays(t),
         \A c \in Combined : H2 <= Off(c) /\ Off(c) < T /\ Idx(c) = x => ValueAt(c)' = ValueAt(c)
  PROVE  WindowKept(H2, T)
  <1> SUFFICES ASSUME NEW c \in Combined, H2 <= Off(c), Off(c) < T
               PROVE  ValueAt(c)' = ValueAt(c)
    BY DEF WindowKept
  <1>1. CASE Idx(c) = x
    BY <1>1
  <1>2. CASE Idx(c) # x
    <2> DEFINE i == Idx(c)
    <2>1. H <= Off(c) /\ Off(c) < T2 /\ Off(c) \in Int
      BY OffFacts, SMTT(30)
    <2>2. /\ i \in Cells /\ CellIndex(i) = c /\ m_states[i].gen = Gen(c)
          /\ m_states[i].st \in {"Writing", "Full"}
      BY <2>1, InWindow
    <2>3. m_states'[i] = m_states[i] /\ m_data'[i] = m_data[i]
      BY <2>2, <1>2 DEF ChangesOnly
    <2>4. CASE m_states[i].st = "Full"
      BY <2>2, <2>3, <2>4 DEF ValueAt, InState
    <2>5. CASE m_states[i].st = "Writing"
      <3>1. CellIndex(i)' = c
        BY <2>2, <2>3 DEF CellIndex
      <3>2. PICK u \in Threads : Holds(u, c)
        BY <2>2, <2>5 DEF IInv, CellOK
      <3>3. PICK w \in Threads : Holds(w, c)'
        <4>1. CellOK(i, H2, T2)'
          BY <2>2 DEF IInv
        <4> QED
          BY <4>1, <3>1, <2>3, <2>5 DEF CellOK, Holds
      <3>4. ~InState(c, "Full") /\ ~InState(c, "Full")'
        BY <2>3, <2>5 DEF InState
      <3>5. Writes(th[u], c) /\ Writes(th'[w], c)
        BY <3>2, <3>3 DEF Holds, Writes
      <3>6. Has(th[w], c)
        BY <3>5, <1>2 DEF Moved, Reserved, Has
      <3>7. w = u
        BY <3>5, <3>6 DEF IInv, OwnersDiffer, Has
      <3>8. th'[w].value = th[u].value
        BY <3>5, <3>7 DEF ValueStays, Moved
      <3>9. ValueAt(c) = th[u].value
        BY <3>2, <3>4, HolderValue
      <3>10. ValueAt(c)' = th'[w].value
        <4>1. \A v \in Threads : Holds(v, c)' => v = w
          BY <3>3 DEF Holds, IInv, OwnersDiffer, Has, Writes
        <4>2. Holder(c)' = w
          BY <4>1, <3>3 DEF Holder
        <4> QED
          BY <4>2, <3>4 DEF ValueAt
      <3> QED
        BY <3>8, <3>9, <3>10
    <2> QED
      BY <2>2, <2>4, <2>5
  <1> QED
    BY <1>1, <1>2

SameReserved(t) == \A c \in Combined : /\ Reads(th'[t], c) <=> Reads(th[t], c)
                                       /\ Writes(th'[t], c) <=> Writes(th[t], c)

\* A step that leaves the cells alone
LEMMA CellsUntouched ==
  ASSUME NEW H \in Nat, NEW T \in Nat, IInv(H, T), TypeOK', NEW t \in Threads, Moved(t),
         UNCHANGED <<m_states, m_data>>, IndexesGoOn, SameReserved(t), ValueStays(t),
         th'[t].pc \notin {"pushCommit", "popAdvance", "popCommit"},
         th'[t].pc = "read" => th[t].pc = "popAdvance" /\ SameButPc(th'[t], th[t]),
         LoadedOK(th[t], H, T)', IndexesOK(H, T)'
  PROVE  IInv(H, T)' /\ WindowKept(H, T)
  <1>1. ChangesOnly(None)
    BY DEF ChangesOnly
  <1>2. Reserved(t, None)
    BY DEF SameReserved, Reserved, Has
  <1>3. ReservedOK(th[t])'
    <2>1. ReservedOK(th[t])
      BY DEF IInv
    <2>2. \A c \in Combined : Reads(th'[t], c) => InState(c, "Reading")'
      BY <2>1 DEF SameReserved, ReservedOK, InState
    <2>3. \A c \in Combined : Writes(th'[t], c) => InState(c, "Writing")'
      BY <2>1 DEF SameReserved, ReservedOK, InState
    <2>4. th'[t].pc = "read" => m_data'[Idx(th'[t].loaded)] = th'[t].taken
      BY <2>1 DEF ReservedOK, SameButPc
    <2> QED
      BY <2>2, <2>3, <2>4 DEF ReservedOK, Reads, Writes
  <1>4. ASSUME NEW i \in Cells PROVE CellOK(i, H, T)'
    <2>1. CellOK(i, H, T)
      BY DEF IInv
    <2>2. Pos(i)' = Pos(i) /\ CellIndex(i)' = CellIndex(i)
      BY DEF Pos, CellIndex, Off
    <2>3. ASSUME m_states'[i].st = "Writing" PROVE \E u \in Threads : Holds(u, CellIndex(i))'
      <3>1. PICK u \in Threads : Holds(u, CellIndex(i))
        BY <2>1, <2>3 DEF CellOK
      <3>2. CellIndex(i) \in Combined
        BY TypeFacts, IndexOfCell DEF IInv
      <3>3. th[u].pc \in Holding /\ th[u].cell = CellIndex(i)
        BY <3>1 DEF Holds
      <3>4. th'[u].pc \in Holding /\ th'[u].cell = CellIndex(i)
        BY <3>2, <3>3 DEF SameReserved, Writes, Moved
      <3> QED
        BY <3>4, <2>2 DEF Holds
    <2> QED
      BY <2>1, <2>2, <2>3 DEF CellOK
  <1>5. IInv(H, T)'
    BY <1>1, <1>2, <1>3, <1>4, NoCell, StepKeeps, Order
  <1>6. \A c \in Combined : Idx(c) # None
    BY Split, SMTT(30) DEF Cells, None
  <1> QED
    BY <1>1, <1>2, <1>5, <1>6, WindowKeeps, Order

\* Labels of threads that have reserved nothing, and of those that undo a push
Free == {"idle", "pushReserve", "pushReload", "pushSkip", "popReserve", "popReload",
         "popSkip", "size"}

Clearing == {"construct", "clearLoad", "clearReserve", "clearSkip"}

\* The thread goes on with what it has reserved.
GoesOn(t) ==
    \/ th[t].pc \in Free /\ th'[t].pc \in Free
    \/ th[t].pc \in Clearing /\ th'[t].pc \in Clearing
       /\ th'[t].cell = th[t].cell /\ th'[t].value = th[t].value

LEMMA GoesOnFacts ==
  ASSUME NEW t \in Threads, GoesOn(t)
  PROVE  /\ SameReserved(t)
         /\ ValueStays(t)
         /\ th'[t].pc \notin {"pushCommit", "popAdvance", "popCommit", "read"}
         /\ th[t].pc # "pushAdvance" /\ \A c : ~Advances(th[t], c)
  BY DEF GoesOn, SameReserved, ValueStays, Reads, Writes, Holding, Free, Clearing, Advances

\* A step that changes nothing but the thread's locals
LEMMA LocalStep ==
  ASSUME NEW H \in Nat, NEW T \in Nat, IInv(H, T), TypeOK', NEW t \in Threads, Moved(t),
         UNCHANGED <<m_pushIndex, disabled, m_popIndex, m_states, m_data, toggles>>,
         GoesOn(t), LoadedOK(th'[t], H, T)
  PROVE  IInv(H, T)' /\ WindowKept(H, T)
  <1>1. m_pushIndex \in Combined /\ m_popIndex \in Combined
    BY DEF IInv, TypeOK
  <1>2. Off(m_pushIndex) \in Int /\ Off(m_popIndex) \in Int
    BY <1>1, Apart, Sizes, SMTT(30)
  <1>3. IndexesGoOn
    BY <1>2, SMTT(30) DEF IndexesGoOn, Off
  <1>4. LoadedOK(th[t], H, T)'
    BY DEF LoadedOK, Off
  <1>5. IndexesOK(H, T)'
    <2>1. IndexesOK(H, T)
      BY DEF IInv
    <2>2. ASSUME NEW u \in Threads, th[u].pc = "pushAdvance", th[u].cell = m_pushIndex
          PROVE  th'[u].pc = "pushAdvance" /\ th'[u].cell = m_pushIndex'
      BY <2>2, GoesOnFacts DEF Moved
    <2>3. ASSUME NEW u \in Threads, Advances(th[u], m_popIndex)
          PROVE  Advances(th'[u], m_popIndex')
      BY <2>3, GoesOnFacts DEF Moved
    <2> QED
      BY <2>1, <2>2, <2>3 DEF IndexesOK, Off, Advances
  <1> QED
    BY <1>3, <1>4, <1>5, GoesOnFacts, CellsUntouched

\* The push index goes on past a cell that was reserved.
LEMMA PushIndexStep ==
  ASSUME NEW H \in Nat, NEW T \in Nat, IInv(H, T), NEW t \in Threads, Moved(t),
         UNCHANGED <<disabled, m_popIndex, toggles>>,
         NEW c \in Combined, Off(c) < T, SwapPushIndex(c),
         th[t].pc = "pushAdvance" => th[t].cell = c, \A d : ~Advances(th[t], d)
  PROVE  IndexesOK(H, T)' /\ IndexesGoOn /\ m_pushIndex' \in Combined
  <1>1. m_pushIndex \in Combined /\ m_popIndex \in Combined /\ IndexesOK(H, T)
    BY DEF IInv, TypeOK
  <1>2. Off(m_pushIndex) \in Int /\ Off(m_popIndex) \in Int /\ Off(c) \in Int
    BY <1>1, Apart, Sizes, SMTT(30)
  <1>3. T <= MaxPushes /\ (Off(m_pushIndex) = T \/ Off(m_pushIndex) = T - 1)
    BY <1>1 DEF IndexesOK
  <1>4. ASSUME NEW u \in Threads, Advances(th[u], m_popIndex)
        PROVE  Advances(th'[u], m_popIndex')
    BY <1>4 DEF Moved
  <1>5. CASE m_pushIndex = c /\ ~disabled
    <2>1. m_pushIndex' = nextCombinedIndex(c)
      BY <1>5 DEF SwapPushIndex
    <2>2. m_pushIndex' \in Combined /\ Off(m_pushIndex') = Off(c) + 1
      BY <2>1, <1>2, <1>3, NextIndex, Sizes, SMTT(30)
    <2>3. Off(m_pushIndex') = T /\ Off(m_pushIndex) <= Off(m_pushIndex')
      BY <2>2, <1>2, <1>3, <1>5, SMTT(30)
    <2>4. Off(m_popIndex) <= Off(m_popIndex')
      BY <1>2, Order
    <2>5. IndexesGoOn
      BY <2>3, <2>4 DEF IndexesGoOn, Off
    <2>6. IndexesOK(H, T)'
      BY <2>3, <1>1, <1>4 DEF IndexesOK, Off, Advances
    <2> QED
      BY <2>2, <2>5, <2>6
  <1>6. CASE ~(m_pushIndex = c /\ ~disabled)
    <2>1. m_pushIndex' = m_pushIndex
      BY <1>6 DEF SwapPushIndex
    <2>2. ASSUME NEW u \in Threads, th[u].pc = "pushAdvance", th[u].cell = m_pushIndex, ~disabled
          PROVE  th'[u].pc = "pushAdvance" /\ th'[u].cell = m_pushIndex'
      BY <2>1, <2>2, <1>6 DEF Moved
    <2>3. /\ Off(m_pushIndex) <= Off(m_pushIndex')
          /\ Off(m_popIndex) <= Off(m_popIndex')
      BY <2>1, <1>2, Order
    <2>4. IndexesGoOn
      BY <2>3 DEF IndexesGoOn, Off
    <2>5. IndexesOK(H, T)'
      BY <2>1, <2>2, <1>1, <1>4 DEF IInv, IndexesOK, Off, Advances
    <2> QED
      BY <2>1, <2>4, <2>5, <1>1
  <1> QED
    BY <1>5, <1>6

\* The pop index goes on past a cell that was reserved.
LEMMA PopIndexStep ==
  ASSUME NEW H \in Nat, NEW T \in Nat, IInv(H, T), NEW t \in Threads, Moved(t),
         UNCHANGED <<m_pushIndex, disabled, toggles>>,
         NEW c \in Combined, Off(c) < H, SwapPopIndex(c),
         th[t].pc # "pushAdvance", \A d : Advances(th[t], d) => d = c
  PROVE  /\ IndexesOK(H, T)' /\ IndexesGoOn /\ m_popIndex' \in Combined
         /\ Off(c) < Off(m_popIndex')
  <1>1. m_pushIndex \in Combined /\ m_popIndex \in Combined /\ IndexesOK(H, T)
    BY DEF IInv, TypeOK
  <1>2. Off(m_pushIndex) \in Int /\ Off(m_popIndex) \in Int /\ Off(c) \in Int
    BY <1>1, Apart, Sizes, SMTT(30)
  <1>3. H <= T /\ T <= MaxPushes /\ (Off(m_popIndex) = H \/ Off(m_popIndex) = H - 1)
    BY <1>1 DEF IndexesOK
  <1>4. ASSUME NEW u \in Threads, th[u].pc = "pushAdvance", th[u].cell = m_pushIndex
        PROVE  th'[u].pc = "pushAdvance" /\ th'[u].cell = m_pushIndex'
    BY <1>4 DEF Moved
  <1>5. CASE m_popIndex = c
    <2>1. m_popIndex' = nextCombinedIndex(c)
      BY <1>5 DEF SwapPopIndex
    <2>2. m_popIndex' \in Combined /\ Off(m_popIndex') = Off(c) + 1
      BY <2>1, <1>2, <1>3, NextIndex, Sizes, SMTT(30)
    <2>3. Off(m_popIndex') = H /\ Off(m_popIndex) <= Off(m_popIndex')
      BY <2>2, <1>2, <1>3, <1>5, SMTT(30)
    <2>4. Off(m_pushIndex) <= Off(m_pushIndex')
      BY <1>2, Order
    <2>5. IndexesGoOn
      BY <2>3, <2>4 DEF IndexesGoOn, Off
    <2>6. IndexesOK(H, T)'
      BY <2>3, <1>1, <1>4 DEF IndexesOK, Off
    <2> QED
      BY <2>2, <2>3, <2>5, <2>6
  <1>6. CASE m_popIndex # c
    <2>1. m_popIndex' = m_popIndex
      BY <1>6 DEF SwapPopIndex
    <2>2. ASSUME NEW u \in Threads, Advances(th[u], m_popIndex)
          PROVE  Advances(th'[u], m_popIndex')
      BY <2>1, <2>2, <1>6 DEF Moved
    <2>3. Off(m_popIndex) # Off(c)
      BY <1>1, <1>6, Apart
    <2>4. Off(c) < Off(m_popIndex')
      BY <2>1, <2>3, <1>2, <1>3, SMTT(30)
    <2>5. /\ Off(m_pushIndex) <= Off(m_pushIndex')
          /\ Off(m_popIndex) <= Off(m_popIndex')
      BY <2>1, <1>2, Order
    <2>6. IndexesGoOn
      BY <2>5 DEF IndexesGoOn, Off
    <2>7. IndexesOK(H, T)'
      BY <2>1, <2>2, <1>1, <1>4 DEF IndexesOK, Off, Advances
    <2> QED
      BY <2>1, <2>4, <2>6, <2>7, <1>1
  <1> QED
    BY <1>5, <1>6

KeepsWriting(t, x) == \A d \in Combined : Writes(th[t], d) /\ Idx(d) # x => Writes(th'[t], d)

\* The thread that holds a cell other than the one that is changed holds it still.
LEMMA HoldersKeep ==
  ASSUME NEW H \in Nat, NEW T \in Nat, IInv(H, T), NEW t \in Threads, Moved(t), NEW x,
         KeepsWriting(t, x), NEW i \in Cells \ {x}, CellIndex(i)' = CellIndex(i),
         m_states[i].st = "Writing"
  PROVE  (\E u \in Threads : Holds(u, CellIndex(i)))'
  <1>1. PICK u \in Threads : Holds(u, CellIndex(i))
    BY DEF IInv, CellOK
  <1>2. CellIndex(i) \in Combined /\ Idx(CellIndex(i)) = i
    BY TypeFacts, IndexOfCell DEF IInv
  <1>3. th[u].pc \in Holding /\ th[u].cell = CellIndex(i)
    BY <1>1 DEF Holds
  <1>4. th'[u].pc \in Holding /\ th'[u].cell = CellIndex(i)
    BY <1>2, <1>3 DEF KeepsWriting, Writes, Moved
  <1> QED
    BY <1>4 DEF Holds

\* Where a cell is that can be reserved at a loaded index, or released
LEMMA TailPlace ==
  ASSUME NEW H \in Nat, NEW T \in Nat, IInv(H, T), NEW c \in Combined,
         T <= Off(c), Off(c) < H + Capacity, Off(c) <= Off(m_pushIndex)
  PROVE  /\ Off(c) = T /\ c = m_pushIndex /\ T < H + Capacity
         /\ H <= T /\ H <= T + 1 /\ T + 1 <= H + Capacity
  BY OffFacts, Sizes, SMTT(30)

LEMMA HeadPlace ==
  ASSUME NEW H \in Nat, NEW T \in Nat, IInv(H, T), NEW c \in Combined,
         H <= Off(c), Off(c) < T, Off(c) <= Off(m_popIndex)
  PROVE  /\ Off(c) = H /\ c = m_popIndex /\ H < T /\ T <= MaxPushes /\ T <= H + Capacity
         /\ H + 1 <= T /\ T <= H + 1 + Capacity
  BY OffFacts, Sizes, SMTT(30)

LEMMA BehindPlace ==
  ASSUME NEW H \in Nat, NEW T \in Nat, IInv(H, T), NEW c \in Combined, Off(c) < H
  PROVE  Off(c) < NumCombined - Capacity /\ Off(c) + Capacity < H + Capacity
  BY OffFacts, Sizes, SMTT(30)

\* The other cells are right for the next T and for the next H.
LEMMA CellsBesideTail ==
  ASSUME NEW H \in Nat, NEW T \in Nat, NEW i \in Cells, CellOK(i, H, T),
         Pos(i) \in 0 .. NumCombined - 1, T # Pos(i), T # Pos(i) + Capacity
  PROVE  /\ m_states[i].st = "Empty" => T + 1 <= Pos(i) /\ Pos(i) < H + Capacity
         /\ m_states[i].st \in {"Writing", "Full"} => H <= Pos(i) /\ Pos(i) < T + 1
         /\ m_states[i].st = "Reading" => T + 1 <= Pos(i) + Capacity /\ Pos(i) < H
  BY Sizes, SMTT(30) DEF CellOK

LEMMA CellsBesideHead ==
  ASSUME NEW H \in Nat, NEW T \in Nat, NEW i \in Cells, CellOK(i, H, T),
         Pos(i) \in 0 .. NumCombined - 1, H # Pos(i)
  PROVE  /\ m_states[i].st = "Empty" => T <= Pos(i) /\ Pos(i) < H + 1 + Capacity
         /\ m_states[i].st \in {"Writing", "Full"} => H + 1 <= Pos(i) /\ Pos(i) < T
         /\ m_states[i].st = "Reading" => T <= Pos(i) + Capacity /\ Pos(i) < H + 1
  BY Sizes, SMTT(30) DEF CellOK

LEMMA IndexesRest ==
  ASSUME NEW H \in Nat, NEW T \in Nat, IInv(H, T), UNCHANGED <<m_pushIndex, m_popIndex>>
  PROVE  IndexesGoOn
  <1>1. m_pushIndex \in Combined
    BY DEF IInv, TypeOK
  <1>2. Off(m_pushIndex) \in Int /\ Off(m_popIndex) \in Int
    BY <1>1, OffFacts
  <1> QED
    BY <1>2, Order DEF IndexesGoOn, Off

\* tryPushBack reserves the cell at the end.
LEMMA ReserveStep ==
  ASSUME NEW H \in Nat, NEW T \in Nat, IInv(H, T), TypeOK', T < MaxPushes,
         NEW t \in Threads, Moved(t), NEW c \in Combined,
         th[t].pc = "pushReserve", th[t].loaded = c,
         InState(c, "Empty"), SetState(c, Gen(c), "Writing"),
         th'[t].pc = "pushAdvance", th'[t].cell = c,
         UNCHANGED <<m_pushIndex, disabled, m_popIndex, m_data, toggles>>
  PROVE  /\ IInv(H, T + 1)' /\ WindowKept(H, T)
         /\ ValueAt(c)' = th'[t].value
         /\ Off(c) = T /\ c = m_pushIndex /\ T < H + Capacity
  <1> DEFINE x == Idx(c)
  <1>1. /\ StatesOK /\ StatesOK' /\ x \in Cells /\ m_states[x].gen = Gen(c)
        /\ m_states[x].st = "Empty"
    BY TypeFacts, Split DEF IInv, InState, TypeOK, StatesOK
  <1>2. Pos(x) = Off(c)
    BY <1>1, CellFacts
  <1>3. T <= Off(c) /\ Off(c) < H + Capacity
    BY <1>1, <1>2 DEF IInv, CellOK
  <1>4. Off(c) <= Off(m_pushIndex)
    BY DEF IInv, LoadedOK, PrePush
  <1>5. /\ Off(c) = T /\ c = m_pushIndex /\ T < H + Capacity
        /\ H <= T /\ H <= T + 1 /\ T + 1 <= H + Capacity
    BY <1>3, <1>4, TailPlace
  <1>6. /\ \A i \in Cells : Pos(i)' = Pos(i) /\ CellIndex(i)' = CellIndex(i)
        /\ \A i \in Cells \ {x} : m_states'[i] = m_states[i]
        /\ m_states'[x].st = "Writing" /\ m_states'[x].gen = Gen(c)
    BY <1>1, MarkFacts
  <1>7. ChangesOnly(x)
    BY <1>6 DEF ChangesOnly
  <1>8. ~OthersOwn(t, x)
    BY <1>1, FreeCell
  <1>9. Reserved(t, x) /\ KeepsWriting(t, x)
    BY DEF Reserved, Has, Reads, Writes, KeepsWriting, Holding
  <1>10. LoadedOK(th[t], H, T + 1)'
    BY DEF LoadedOK, PrePush
  <1>11. ReservedOK(th[t])'
    BY <1>6 DEF ReservedOK, Reads, Writes, InState
  <1>12. IndexesOK(H, T + 1)'
    <2>1. IndexesOK(H, T) /\ Off(m_pushIndex') = (T + 1) - 1
      BY <1>5, Order DEF IInv
    <2>2. ASSUME NEW u \in Threads, Advances(th[u], m_popIndex)
          PROVE  Advances(th'[u], m_popIndex')
      BY <2>2 DEF Moved, Advances
    <2>3. T + 1 <= MaxPushes
      BY Sizes, SMTT(30)
    <2> HIDE DEF x
    <2> QED
      BY <2>1, <2>2, <2>3, <1>5 DEF IndexesOK, Off, Advances
  <1>13. ASSUME NEW i \in Cells PROVE CellOK(i, H, T + 1)'
    <2>1. CASE i = x
      <3>1. CellIndex(x) = c
        BY <1>1, CellFacts
      <3>2. Holds(t, CellIndex(x))'
        BY <3>1, <1>1, <1>6 DEF Holds, Holding
      <3>3. Pos(x)' = T
        BY <1>1, <1>2, <1>5, <1>6
      <3>4. T < T + 1
        BY SMTT(30)
      <3> HIDE DEF x
      <3> QED
        BY <2>1, <3>2, <3>3, <3>4, <1>5, <1>6 DEF CellOK
    <2>2. CASE i # x
      <3>1. CellOK(i, H, T)
        BY DEF IInv
      <3>2. Pos(i) \in 0 .. NumCombined - 1 /\ T # Pos(i) /\ T # Pos(i) + Capacity
        BY <2>2, <1>1, <1>2, <1>5, CellsApart
      <3>3. Pos(i)' = Pos(i) /\ CellIndex(i)' = CellIndex(i) /\ m_states'[i] = m_states[i]
        BY <2>2, <1>6
      <3>4. m_states[i].st = "Writing" => (\E u \in Threads : Holds(u, CellIndex(i)))'
        BY <2>2, <3>3, <1>9, HoldersKeep
      <3>5. /\ m_states[i].st = "Empty" => T + 1 <= Pos(i) /\ Pos(i) < H + Capacity
            /\ m_states[i].st \in {"Writing", "Full"} => H <= Pos(i) /\ Pos(i) < T + 1
            /\ m_states[i].st = "Reading" => T + 1 <= Pos(i) + Capacity /\ Pos(i) < H
        BY <3>1, <3>2, CellsBesideTail
      <3> QED
        BY <3>3, <3>4, <3>5 DEF CellOK
    <2> QED
      BY <2>1, <2>2
  <1>14. IndexesGoOn
    BY IndexesRest
  <1> HIDE DEF x
  <1>15. IInv(H, T + 1)'
    BY <1>7, <1>8, <1>9, <1>10, <1>11, <1>12, <1>13, <1>14, StepKeeps, Order
  <1>16. ASSUME NEW d \in Combined, H <= Off(d), Off(d) < T, Idx(d) = x PROVE FALSE
    BY <1>1, <1>16, InWindow
  <1>17. ValueStays(t)
    BY DEF ValueStays, Writes, Holding
  <1>18. WindowKept(H, T)
    BY <1>7, <1>9, <1>15, <1>16, <1>17, WindowKeeps, Order
  <1>19. ValueAt(c)' = th'[t].value
    <2>1. \A u \in Threads : Holds(u, c)' => u = t
      BY <1>15 DEF Holds, IInv, OwnersDiffer, Has, Writes, Holding
    <2>2. Holder(c)' = t
      BY <2>1 DEF Holder, Holds, Holding
    <2>3. ~InState(c, "Full")'
      BY <1>6 DEF InState, x
    <2> QED
      BY <2>2, <2>3 DEF ValueAt
  <1> QED
    BY <1>5, <1>15, <1>18, <1>19

\* A cell at the head is reserved for popping, by a pop or to clear it.
LEMMA TakeStep ==
  ASSUME NEW H \in Nat, NEW T \in Nat, IInv(H, T), TypeOK',
         NEW t \in Threads, Moved(t), NEW c \in Combined,
         InState(c, "Full") \/ (InState(c, "Writing") /\ Has(th[t], c)),
         Off(c) <= Off(m_popIndex), SetState(c, Gen(c), "Reading"),
         th[t].pc # "pushAdvance", \A d : ~Advances(th[t], d), Advances(th'[t], c),
         Reserved(t, Idx(c)), KeepsWriting(t, Idx(c)), ValueStays(t), ReservedOK(th[t])',
         UNCHANGED <<m_pushIndex, disabled, m_popIndex, m_data, toggles>>
  PROVE  IInv(H + 1, T)' /\ WindowKept(H + 1, T) /\ Off(c) = H /\ c = m_popIndex /\ H < T
  <1> DEFINE x == Idx(c)
  <1>1. /\ StatesOK /\ StatesOK' /\ x \in Cells /\ m_states[x].gen = Gen(c)
        /\ m_states[x].st \in {"Full", "Writing"}
    BY TypeFacts, Split DEF IInv, InState, TypeOK, StatesOK
  <1>2. Pos(x) = Off(c)
    BY <1>1, CellFacts
  <1>3. H <= Off(c) /\ Off(c) < T
    BY <1>1, <1>2 DEF IInv, CellOK
  <1>4. /\ Off(c) = H /\ c = m_popIndex /\ H < T /\ T <= MaxPushes /\ T <= H + Capacity
        /\ H + 1 <= T /\ T <= H + 1 + Capacity
    BY <1>3, HeadPlace
  <1>5. /\ \A i \in Cells : Pos(i)' = Pos(i) /\ CellIndex(i)' = CellIndex(i)
        /\ \A i \in Cells \ {x} : m_states'[i] = m_states[i]
        /\ m_states'[x].st = "Reading" /\ m_states'[x].gen = Gen(c)
    BY <1>1, MarkFacts
  <1>6. ChangesOnly(x)
    BY <1>5 DEF ChangesOnly
  <1>7. ~OthersOwn(t, x)
    BY FreeCell, OwnCell DEF InState
  <1>8. LoadedOK(th[t], H + 1, T)'
    BY DEF LoadedOK, PrePush, Advances
  <1>9. IndexesOK(H + 1, T)'
    <2>1. IndexesOK(H, T) /\ Off(m_popIndex') = (H + 1) - 1
      BY <1>4, Order DEF IInv
    <2>2. ASSUME NEW u \in Threads, th[u].pc = "pushAdvance", th[u].cell = m_pushIndex
          PROVE  th'[u].pc = "pushAdvance" /\ th'[u].cell = m_pushIndex'
      BY <2>2 DEF Moved
    <2>3. Advances(th'[t], m_popIndex')
      BY <1>4
    <2> HIDE DEF x
    <2> QED
      BY <2>1, <2>2, <2>3, <1>4 DEF IndexesOK, Off, Advances
  <1>10. ASSUME NEW i \in Cells PROVE CellOK(i, H + 1, T)'
    <2>1. CASE i = x
      <3>1. Pos(x)' = H
        BY <1>1, <1>2, <1>4, <1>5
      <3>2. H < H + 1
        BY SMTT(30)
      <3> HIDE DEF x
      <3> QED
        BY <2>1, <3>1, <3>2, <1>4, <1>5 DEF CellOK
    <2>2. CASE i # x
      <3>1. CellOK(i, H, T)
        BY DEF IInv
      <3>2. Pos(i) \in 0 .. NumCombined - 1 /\ H # Pos(i)
        BY <2>2, <1>1, <1>2, <1>4, CellsApart
      <3>3. Pos(i)' = Pos(i) /\ CellIndex(i)' = CellIndex(i) /\ m_states'[i] = m_states[i]
        BY <2>2, <1>5
      <3>4. m_states[i].st = "Writing" => (\E u \in Threads : Holds(u, CellIndex(i)))'
        BY <2>2, <3>3, HoldersKeep
      <3>5. /\ m_states[i].st = "Empty" => T <= Pos(i) /\ Pos(i) < H + 1 + Capacity
            /\ m_states[i].st \in {"Writing", "Full"} => H + 1 <= Pos(i) /\ Pos(i) < T
            /\ m_states[i].st = "Reading" => T <= Pos(i) + Capacity /\ Pos(i) < H + 1
        BY <3>1, <3>2, CellsBesideHead
      <3> QED
        BY <3>3, <3>4, <3>5 DEF CellOK
    <2> QED
      BY <2>1, <2>2
  <1>11. IndexesGoOn
    BY IndexesRest
  <1> HIDE DEF x
  <1>12. IInv(H + 1, T)'
    BY <1>6, <1>7, <1>8, <1>9, <1>10, <1>11, StepKeeps, Order DEF x
  <1>13. ASSUME NEW d \in Combined, H + 1 <= Off(d), Off(d) < T, Idx(d) = x PROVE FALSE
    <2>1. H <= Off(d)
      BY <1>13, OffFacts, Order
    <2> QED
      BY <2>1, <1>2, <1>4, <1>13, InWindow, SMTT(30)
  <1>14. WindowKept(H + 1, T)
    BY <1>6, <1>12, <1>13, WindowKeeps, Order DEF x
  <1> QED
    BY <1>4, <1>12, <1>14

\* A thread that has not reserved a cell for popping keeps the indexes as they stand.
LEMMA IndexesStay ==
  ASSUME NEW H \in Nat, NEW T \in Nat, IInv(H, T), NEW t \in Threads, Moved(t),
         UNCHANGED <<m_pushIndex, disabled, m_popIndex, toggles>>,
         th[t].pc # "pushAdvance", \A d : ~Advances(th[t], d)
  PROVE  IndexesOK(H, T)' /\ IndexesGoOn
  <1>1. IndexesOK(H, T)
    BY DEF IInv
  <1>2. ASSUME NEW u \in Threads, th[u].pc = "pushAdvance", th[u].cell = m_pushIndex
        PROVE  th'[u].pc = "pushAdvance" /\ th'[u].cell = m_pushIndex'
    BY <1>2 DEF Moved
  <1>3. ASSUME NEW u \in Threads, Advances(th[u], m_popIndex)
        PROVE  Advances(th'[u], m_popIndex')
    BY <1>3 DEF Moved
  <1>4. IndexesGoOn
    BY IndexesRest
  <1> QED
    BY <1>1, <1>2, <1>3, <1>4 DEF IndexesOK, Off, Advances

\* A cell that was moved out of, or cleared, goes on to the next generation.
LEMMA ReleaseStep ==
  ASSUME NEW H \in Nat, NEW T \in Nat, IInv(H, T), TypeOK',
         NEW t \in Threads, Moved(t), NEW c \in Combined, Reads(th[t], c),
         Off(c) < Off(m_popIndex), SetState(c, nextGeneration(Gen(c)), "Empty"),
         NEW x, x = Idx(c), \A i \in Cells \ {x} : m_data'[i] = m_data[i],
         th[t].pc # "pushAdvance", \A d : ~Advances(th[t], d),
         Reserved(t, x), KeepsWriting(t, x), ValueStays(t), ReservedOK(th[t])',
         LoadedOK(th[t], H, T)',
         UNCHANGED <<m_pushIndex, disabled, m_popIndex, toggles>>
  PROVE  IInv(H, T)' /\ WindowKept(H, T)
  <1>1. /\ StatesOK /\ x \in Cells /\ m_states[x].gen = Gen(c) /\ m_states[x].st = "Reading"
    BY TypeFacts, Split DEF IInv, InState, ReservedOK
  <1>2. Pos(x) = Off(c)
    BY <1>1, CellFacts
  <1>3. T <= Pos(x) + Capacity /\ Pos(x) < H
    BY <1>1 DEF IInv, CellOK
  <1>4. Off(c) < NumCombined - Capacity /\ Off(c) + Capacity < H + Capacity
    BY <1>2, <1>3, BehindPlace
  <1>5. /\ \A i \in Cells \ {x} : /\ Pos(i)' = Pos(i) /\ CellIndex(i)' = CellIndex(i)
                                  /\ m_states'[i] = m_states[i]
        /\ m_states'[x].st = "Empty" /\ Pos(x)' = Off(c) + Capacity
    BY <1>1, <1>4, ReleaseFacts
  <1>6. ChangesOnly(x)
    BY <1>5 DEF ChangesOnly
  <1>7. ~OthersOwn(t, x)
    BY OwnCell DEF Has
  <1>8. IndexesOK(H, T)' /\ IndexesGoOn
    BY IndexesStay
  <1>9. ASSUME NEW i \in Cells PROVE CellOK(i, H, T)'
    <2>1. CASE i = x
      BY <2>1, <1>2, <1>3, <1>4, <1>5 DEF CellOK
    <2>2. CASE i # x
      <3>1. CellOK(i, H, T)
        BY DEF IInv
      <3>2. Pos(i)' = Pos(i) /\ CellIndex(i)' = CellIndex(i) /\ m_states'[i] = m_states[i]
        BY <2>2, <1>5
      <3>3. m_states[i].st = "Writing" => (\E u \in Threads : Holds(u, CellIndex(i)))'
        BY <2>2, <3>2, HoldersKeep
      <3> QED
        BY <3>1, <3>2, <3>3 DEF CellOK
    <2> QED
      BY <2>1, <2>2
  <1>10. IInv(H, T)'
    BY <1>6, <1>7, <1>8, <1>9, StepKeeps, Order
  <1>11. ASSUME NEW d \in Combined, H <= Off(d), Off(d) < T, Idx(d) = x PROVE FALSE
    BY <1>1, <1>11, InWindow
  <1> QED
    BY <1>6, <1>10, <1>11, WindowKeeps, Order

\* commitPushIndex: the cell is full with the element the thread had for it.
LEMMA FillStep ==
  ASSUME NEW H \in Nat, NEW T \in Nat, IInv(H, T), TypeOK',
         NEW t \in Threads, Moved(t), NEW c \in Combined,
         th[t].pc = "pushCommit", th[t].cell = c, th'[t].pc = "idle",
         SetState(c, Gen(c), "Full"),
         UNCHANGED <<m_pushIndex, disabled, m_popIndex, m_data, toggles>>
  PROVE  IInv(H, T)' /\ WindowKept(H, T)
  <1> DEFINE x == Idx(c)
  <1>1. Writes(th[t], c) /\ Has(th[t], c) /\ Holds(t, c)
    BY DEF Writes, Holding, Has, Holds
  <1>2. /\ StatesOK /\ StatesOK' /\ x \in Cells /\ m_states[x].gen = Gen(c)
        /\ m_states[x].st = "Writing" /\ m_data[x] = th[t].value
    BY <1>1, TypeFacts, Split DEF IInv, InState, ReservedOK, TypeOK, StatesOK
  <1>3. /\ \A i \in Cells : Pos(i)' = Pos(i) /\ CellIndex(i)' = CellIndex(i)
        /\ \A i \in Cells \ {x} : m_states'[i] = m_states[i]
        /\ m_states'[x].st = "Full" /\ m_states'[x].gen = Gen(c)
    BY <1>2, MarkFacts
  <1>4. ChangesOnly(x)
    BY <1>3 DEF ChangesOnly
  <1>5. ~OthersOwn(t, x)
    BY <1>1, OwnCell
  <1>6. Reserved(t, x) /\ KeepsWriting(t, x) /\ ValueStays(t)
    BY DEF Reserved, Has, Reads, Writes, KeepsWriting, Holding, ValueStays
  <1>7. LoadedOK(th[t], H, T)' /\ ReservedOK(th[t])'
    BY DEF LoadedOK, PrePush, ReservedOK, Reads, Writes, Holding
  <1>8. IndexesOK(H, T)' /\ IndexesGoOn
    BY IndexesStay DEF Advances
  <1>9. ASSUME NEW i \in Cells PROVE CellOK(i, H, T)'
    <2>1. CellOK(i, H, T)
      BY DEF IInv
    <2>2. CASE i = x
      <3> HIDE DEF x
      <3> QED
        BY <2>1, <2>2, <1>2, <1>3 DEF CellOK
    <2>3. CASE i # x
      <3>1. Pos(i)' = Pos(i) /\ CellIndex(i)' = CellIndex(i) /\ m_states'[i] = m_states[i]
        BY <2>3, <1>3
      <3>2. m_states[i].st = "Writing" => (\E u \in Threads : Holds(u, CellIndex(i)))'
        BY <2>3, <3>1, <1>6, HoldersKeep
      <3> QED
        BY <2>1, <3>1, <3>2 DEF CellOK
    <2> QED
      BY <2>2, <2>3
  <1> HIDE DEF x
  <1>10. IInv(H, T)'
    BY <1>4, <1>5, <1>6, <1>7, <1>8, <1>9, StepKeeps, Order
  <1>11. ASSUME NEW d \in Combined, H <= Off(d), Off(d) < T, Idx(d) = x
         PROVE  ValueAt(d)' = ValueAt(d)
    <2>1. Gen(d) = Gen(c) /\ Idx(d) = Idx(c)
      BY <1>2, <1>11, InWindow DEF x
    <2>2. d = c
      BY <2>1, Split
    <2>3. ValueAt(c) = th[t].value
      BY <1>1, <1>2, HolderValue DEF InState, x
    <2>4. ValueAt(c)' = m_data[x]
      BY <1>3 DEF ValueAt, InState, x
    <2> QED
      BY <2>2, <2>3, <2>4, <1>2
  <1> QED
    BY <1>4, <1>6, <1>10, <1>11, WindowKeeps, Order

\* An element is constructed in the cell reserved for it, or moved out of it.
LEMMA DataStep ==
  ASSUME NEW H \in Nat, NEW T \in Nat, IInv(H, T), TypeOK',
         NEW t \in Threads, Moved(t), NEW c \in Combined, Has(th[t], c),
         th[t].pc # "pushAdvance", \A d : ~Advances(th[t], d),
         NEW x, x = Idx(c), \A i \in Cells \ {x} : m_data'[i] = m_data[i],
         SameReserved(t), ValueStays(t), ReservedOK(th[t])', LoadedOK(th[t], H, T)',
         UNCHANGED <<m_pushIndex, disabled, m_popIndex, m_states, toggles>>
  PROVE  IInv(H, T)' /\ WindowKept(H, T)
  <1>1. /\ StatesOK /\ x \in Cells /\ m_states[x].gen = Gen(c)
        /\ m_states[x].st \in {"Reading", "Writing"}
    BY TypeFacts, Split DEF IInv, InState, ReservedOK, Has
  <1>2. ChangesOnly(x)
    BY DEF ChangesOnly
  <1>3. ~OthersOwn(t, x)
    BY OwnCell
  <1>4. Reserved(t, x) /\ KeepsWriting(t, None)
    BY DEF Reserved, Has, SameReserved, KeepsWriting
  <1>5. IndexesOK(H, T)' /\ IndexesGoOn
    BY IndexesStay
  <1>6. ASSUME NEW i \in Cells PROVE CellOK(i, H, T)'
    <2>1. CellOK(i, H, T)
      BY DEF IInv
    <2>2. Pos(i)' = Pos(i) /\ CellIndex(i)' = CellIndex(i)
      BY DEF Pos, CellIndex, Off
    <2>3. m_states[i].st = "Writing" => (\E u \in Threads : Holds(u, CellIndex(i)))'
      BY <2>2, <1>4, NoCell, HoldersKeep
    <2> QED
      BY <2>1, <2>2, <2>3 DEF CellOK
  <1>7. IInv(H, T)'
    BY <1>2, <1>3, <1>4, <1>5, <1>6, StepKeeps, Order
  <1>8. ASSUME NEW d \in Combined, H <= Off(d), Off(d) < T, Idx(d) = x
        PROVE  ValueAt(d)' = ValueAt(d)
    <2>1. m_states[x].st = "Writing" /\ m_states[x].gen = Gen(d) /\ CellIndex(x) = d
      BY <1>1, <1>8, InWindow
    <2>2. ~InState(d, "Full") /\ ~InState(d, "Full")'
      BY <2>1, <1>8 DEF InState
    <2>3. d = c
      <3>1. Gen(d) = Gen(c) /\ Idx(d) = Idx(c)
        BY <1>1, <1>8, <2>1
      <3> QED
        BY <3>1, Split
    <2>4. Writes(th[t], c)
      BY <1>1, <2>1 DEF Has, IInv, ReservedOK, InState
    <2>5. Holds(t, d) /\ Holds(t, d)'
      BY <2>3, <2>4 DEF Holds, Writes, SameReserved
    <2>6. ValueAt(d) = th[t].value
      BY <2>2, <2>5, HolderValue
    <2>7. ValueAt(d)' = th'[t].value
      <3>1. \A u \in Threads : Holds(u, d)' => u = t
        BY <1>7, <2>5 DEF Holds, IInv, OwnersDiffer, Has, Writes
      <3>2. Holder(d)' = t
        BY <3>1, <2>5 DEF Holder
      <3> QED
        BY <3>2, <2>2 DEF ValueAt
    <2> QED
      BY <2>3, <2>4, <2>6, <2>7 DEF ValueStays, SameReserved
  <1> QED
    BY <1>2, <1>4, <1>7, <1>8, WindowKeeps, Order

LEMMA TypeKeeps ==
  ASSUME TypeOK, NEW t \in Threads, Moved(t), m_pushIndex' \in Combined, m_popIndex' \in Combined,
         UNCHANGED <<disabled, pushes, pops, throws, toggles>>, StatesOK',
         m_data' \in [Cells -> Values \cup {None}]
  PROVE  TypeOK'
  BY DEF TypeOK, Moved, StatesOK, LocalType

LEMMA SetStateType ==
  ASSUME StatesOK, NEW c \in Combined, NEW g \in Generations,
         NEW st \in {"Empty", "Writing", "Full", "Reading"}, SetState(c, g, st)
  PROVE  StatesOK'
  <1>1. [gen |-> g, st |-> st] \in [gen : Generations, st : {"Empty", "Writing", "Full", "Reading"}]
    OBVIOUS
  <1>2. Idx(c) \in Cells
    BY Split
  <1> QED
    BY <1>1, <1>2 DEF StatesOK, SetState

\* A load takes the index as it is.
LEMMA Reload ==
  ASSUME NEW H \in Nat, NEW T \in Nat, IInv(H, T), NEW l, l.value \in Values \/ l.pc \notin PrePush,
         \/ l.pc \in {"pushReserve", "size"} /\ l.loaded = m_pushIndex
         \/ l.pc \in {"popReserve", "clearReserve"} /\ l.loaded = m_popIndex
         \/ l.pc \in {"idle", "popReload", "construct", "clearLoad"}
  PROVE  LoadedOK(l, H, T)
  <1>1. m_pushIndex \in Combined
    BY DEF IInv, TypeOK
  <1>2. Off(m_pushIndex) \in Int /\ Off(m_popIndex) \in Int
    BY <1>1, OffFacts
  <1> QED
    BY <1>2, SMTT(30) DEF LoadedOK, PrePush

\* A step of a thread that has no cell, or undoes its push, and only looks around
LEMMA LocalOnly ==
  ASSUME NEW H \in Nat, NEW T \in Nat, IInv(H, T), NEW t \in Threads, Moved(t), GoesOn(t),
         UNCHANGED <<m_pushIndex, disabled, m_popIndex, m_states, m_data, counters>>,
         LoadedOK(th'[t], H, T)
  PROVE  Stays(H, T)
  <1>1. TypeOK'
    BY ThreadFacts, TypeKeeps DEF counters, StatesOK
  <1> QED
    BY <1>1, LocalStep DEF Stays, counters
-----------------------------------------------------------------------------
(* tryPushBack                                                             *)

LEMMA PushStartStays ==
  ASSUME NEW H \in Nat, NEW T \in Nat, IInv(H, T), NEW t \in Threads, PushStart(t)
  PROVE  Stays(H, T)
  <1> DEFINE v == pushes + 1
             i == [Idle EXCEPT !.value = v]
             l == LoadPush(i)
  <1>1. v \in Values /\ pushes \in 0 .. MaxPushes /\ pushes < MaxPushes
    BY Sizes, SMTT(30) DEF PushStart, IInv, TypeOK, Values
  <1> HIDE DEF v
  <1>2. i \in LocalType /\ i.value = v
    BY <1>1, IdleType DEF LocalType
  <1> HIDE DEF i
  <1>3. l \in LocalType /\ l.pc = "pushReserve" /\ l.loaded = m_pushIndex /\ l.value = v
    BY <1>2, ThreadFacts, LoadPushFacts
  <1>4. Local(t, l)
    BY DEF PushStart, v, i
  <1> HIDE DEF l
  <1>5. Moved(t) /\ th'[t] = l
    BY <1>3, <1>4, ThreadFacts, LocalFacts
  <1>6. UNCHANGED <<m_pushIndex, disabled, m_popIndex, m_states, m_data, toggles>>
    BY DEF PushStart
  <1>7. TypeOK'
    <2>1. pushes' \in 0 .. MaxPushes
      BY <1>1, Sizes, SMTT(30) DEF PushStart
    <2> QED
      BY <2>1, <1>5, <1>6, ThreadFacts DEF TypeOK, PushStart, Moved, LocalType
  <1>8. GoesOn(t)
    BY <1>3, <1>5 DEF GoesOn, Free, PushStart, At
  <1>9. LoadedOK(th'[t], H, T)
    BY <1>1, <1>3, <1>5, Reload
  <1> QED
    BY <1>5, <1>6, <1>7, <1>8, <1>9, LocalStep DEF Stays

LEMMA PushReloadStays ==
  ASSUME NEW H \in Nat, NEW T \in Nat, IInv(H, T), NEW t \in Threads, PushReload(t)
  PROVE  Stays(H, T)
  <1> DEFINE l == LoadPush(th[t])
  <1>1. th[t].value \in Values
    BY ThreadFacts DEF LoadedOK, PrePush, PushReload, At
  <1>2. l \in LocalType /\ l.pc = "pushReserve" /\ l.loaded = m_pushIndex /\ l.value \in Values
    BY <1>1, ThreadFacts, LoadPushFacts
  <1>3. Local(t, l)
    BY DEF PushReload
  <1> HIDE DEF l
  <1>4. Moved(t) /\ th'[t] = l
    BY <1>2, <1>3, ThreadFacts, LocalFacts
  <1>5. UNCHANGED <<m_pushIndex, disabled, m_popIndex, m_states, m_data, counters>>
    BY DEF PushReload
  <1>6. GoesOn(t)
    BY <1>2, <1>4 DEF GoesOn, Free, PushReload, At
  <1>7. LoadedOK(th'[t], H, T)
    BY <1>2, <1>4, Reload
  <1> QED
    BY <1>4, <1>5, <1>6, <1>7, LocalOnly

LEMMA PushReserveSteps ==
  ASSUME NEW H \in Nat, NEW T \in Nat, IInv(H, T), NEW t \in Threads, PushReserve(t), T < MaxPushes
  PROVE  Stays(H, T) \/ Pushes(H, T)
  <1>0. PICK c \in Combined : c = th[t].loaded
    BY ThreadFacts
  <1>1. /\ th[t].pc = "pushReserve" /\ th[t].value \in Values
        /\ Off(c) <= Off(m_pushIndex)
    BY <1>0, ThreadFacts DEF PushReserve, At, LoadedOK, PrePush
  <1>2. Off(c) <= T /\ Off(c) \in Int
    BY <1>1, OffFacts, SMTT(30)
  <1>3. UNCHANGED <<m_pushIndex, disabled, m_popIndex, m_data, counters>>
    BY DEF PushReserve
  <1>4. ASSUME NEW l, Moved(t), th'[t] = l, l.value \in Values,
               l.pc \in {"pushReload", "idle", "pushSkip"}, l.loaded = c \/ l.pc = "idle",
               l.pc = "pushSkip" => Off(c) < T, UNCHANGED m_states
        PROVE  Stays(H, T)
    <2>1. GoesOn(t)
      BY <1>1, <1>4 DEF GoesOn, Free
    <2>2. LoadedOK(th'[t], H, T)
      BY <1>1, <1>4 DEF LoadedOK, PrePush
    <2> QED
      BY <2>1, <2>2, <1>3, <1>4, LocalOnly
  <1>5. CASE /\ InState(c, "Empty") /\ SetState(c, Gen(c), "Writing")
             /\ Local(t, [th[t] EXCEPT !.pc = "pushAdvance", !.cell = c])
    <2> DEFINE l == [th[t] EXCEPT !.pc = "pushAdvance", !.cell = c]
    <2>1. l \in LocalType /\ l.pc = "pushAdvance" /\ l.cell = c /\ l.value \in Values
      <3>1. th[t] \in LocalType
        BY ThreadFacts
      <3>2. l \in LocalType /\ l.pc = "pushAdvance" /\ l.cell = c /\ l.value = th[t].value
        BY <3>1, ReserveFacts
      <3> QED
        BY <1>1, <3>2
    <2>2. Moved(t) /\ th'[t] = l
      BY <1>5, <2>1, ThreadFacts, LocalFacts
    <2> HIDE DEF l
    <2>3. StatesOK'
      BY <1>1, <1>5, ThreadFacts, SetStateType, Split
    <2>4. TypeOK'
      BY <2>2, <2>3, <1>3, ThreadFacts, TypeKeeps DEF counters
    <2>5. /\ IInv(H, T + 1)' /\ WindowKept(H, T) /\ ValueAt(c)' = th'[t].value
          /\ Off(c) = T /\ c = m_pushIndex /\ T < H + Capacity
      BY <2>1, <2>2, <2>4, <1>0, <1>1, <1>3, <1>5, ReserveStep DEF counters
    <2>6. th[t].pc \in PrePush /\ th'[t].pc \notin PrePush
      BY <2>1, <2>2, <1>1 DEF PrePush
    <2> QED
      BY <2>1, <2>2, <2>5, <2>6 DEF Pushes
  <1>6. CASE Goto(t, "pushReload") /\ UNCHANGED m_states
    <2>1. Moved(t) /\ th'[t].pc = "pushReload" /\ SameButPc(th'[t], th[t])
      BY <1>6, ThreadFacts, GotoFacts DEF Labels
    <2> QED
      BY <2>1, <1>0, <1>1, <1>4, <1>6 DEF SameButPc
  <1>7. CASE Local(t, [th[t] EXCEPT !.pc = "pushReload", !.saved = c]) /\ UNCHANGED m_states
    <2> DEFINE l == Saved(th[t], "pushReload", c)
    <2>1. /\ l \in LocalType /\ l.pc = "pushReload"
          /\ l.loaded = th[t].loaded /\ l.value = th[t].value
      <3>1. "pushReload" \in Labels /\ th[t] \in LocalType
        BY ThreadFacts DEF Labels
      <3> QED
        BY <3>1, SaveFacts
    <2>2. Local(t, l)
      BY <1>7 DEF Saved
    <2> HIDE DEF l
    <2>3. Moved(t) /\ th'[t] = l
      BY <2>1, <2>2, ThreadFacts, LocalFacts
    <2> QED
      BY <2>1, <2>3, <1>0, <1>1, <1>4, <1>7
  <1>8. CASE Return(t) /\ UNCHANGED m_states
    <2>1. Moved(t) /\ th'[t] = Idle
      BY <1>8, ThreadFacts, LocalFacts, IdleType DEF Return
    <2>2. th'[t].pc = "idle"
      BY <2>1, IdleType
    <2>3. GoesOn(t) /\ LoadedOK(th'[t], H, T)
      BY <2>2, <1>1, Reload DEF GoesOn, Free, PrePush
    <2> QED
      BY <2>1, <2>3, <1>3, <1>8, LocalOnly
  <1>9. CASE ~InState(c, "Empty") /\ ~PreviousGeneration(c) /\ Goto(t, "pushSkip")
             /\ UNCHANGED m_states
    <2>1. Moved(t) /\ th'[t].pc = "pushSkip" /\ SameButPc(th'[t], th[t])
      BY <1>9, ThreadFacts, GotoFacts DEF Labels
    <2>2. Off(c) < T
      BY <1>1, <1>2, <1>9, PushCellFacts
    <2> QED
      BY <2>1, <2>2, <1>0, <1>1, <1>4, <1>9 DEF SameButPc
  <1> QED
    BY <1>0, <1>5, <1>6, <1>7, <1>8, <1>9 DEF PushReserve

LEMMA PushDisabledStays ==
  ASSUME NEW H \in Nat, NEW T \in Nat, IInv(H, T), NEW t \in Threads, PushDisabled(t)
  PROVE  Stays(H, T)
  <1>1. Moved(t) /\ th'[t] = Idle
    BY ThreadFacts, LocalFacts, IdleType DEF Return, PushDisabled
  <1>2. th'[t].pc = "idle"
    BY <1>1, IdleType
  <1>3. GoesOn(t) /\ LoadedOK(th'[t], H, T)
    BY <1>2, Reload DEF GoesOn, Free, PrePush, PushDisabled, At
  <1> QED
    BY <1>1, <1>3, LocalOnly DEF PushDisabled

LEMMA PushSkipStays ==
  ASSUME NEW H \in Nat, NEW T \in Nat, IInv(H, T), NEW t \in Threads, PushSkip(t)
  PROVE  Stays(H, T)
  <1> DEFINE l == LoadPush(th[t])
  <1>1. /\ th[t].pc = "pushSkip" /\ th[t].value \in Values
        /\ th[t].loaded \in Combined /\ Off(th[t].loaded) < T
    BY ThreadFacts DEF PushSkip, At, LoadedOK, PrePush
  <1>2. /\ l \in LocalType /\ l.pc = "pushReserve" /\ l.loaded = m_pushIndex
        /\ l.value \in Values
    BY <1>1, ThreadFacts, LoadPushFacts
  <1>3. Local(t, l)
    BY DEF PushSkip
  <1> HIDE DEF l
  <1>4. Moved(t) /\ th'[t] = l
    BY <1>2, <1>3, ThreadFacts, LocalFacts
  <1>5. GoesOn(t)
    BY <1>1, <1>2, <1>4 DEF GoesOn, Free
  <1>6. UNCHANGED <<disabled, m_popIndex, m_states, m_data, counters>>
    BY DEF PushSkip
  <1>7. IndexesOK(H, T)' /\ IndexesGoOn /\ m_pushIndex' \in Combined
    BY <1>1, <1>4, <1>5, <1>6, GoesOnFacts, PushIndexStep DEF PushSkip, counters
  <1>8. TypeOK'
    BY <1>4, <1>6, <1>7, ThreadFacts, TypeKeeps DEF counters, StatesOK
  <1>9. LoadedOK(th[t], H, T)'
    BY <1>2, <1>4, <1>7 DEF LoadedOK, PrePush, IndexesGoOn, Off
  <1> QED
    BY <1>4, <1>5, <1>6, <1>7, <1>8, <1>9, GoesOnFacts, CellsUntouched DEF Stays

LEMMA PushAdvanceStays ==
  ASSUME NEW H \in Nat, NEW T \in Nat, IInv(H, T), NEW t \in Threads, PushAdvance(t)
  PROVE  Stays(H, T)
  <1>0. PICK c \in Combined : c = th[t].cell
    BY ThreadFacts
  <1>1. th[t].pc = "pushAdvance" /\ Writes(th[t], c)
    BY <1>0 DEF PushAdvance, At, Writes, Holding
  <1>2. InState(c, "Writing")
    BY <1>1, ThreadFacts DEF ReservedOK
  <1>3. Off(c) < T
    BY <1>2, ThreadFacts, CellFacts DEF InState, IInv, CellOK
  <1>4. Moved(t) /\ th'[t].pc = "construct" /\ SameButPc(th'[t], th[t])
    BY ThreadFacts, GotoFacts DEF PushAdvance, Labels
  <1>5. UNCHANGED <<disabled, m_popIndex, m_states, m_data, counters>>
    BY DEF PushAdvance
  <1>6. SameReserved(t) /\ ValueStays(t)
    BY <1>1, <1>4 DEF SameReserved, ValueStays, Reads, Writes, Holding, SameButPc
  <1>7. \A d : ~Advances(th[t], d)
    BY <1>1 DEF Advances
  <1>8. IndexesOK(H, T)' /\ IndexesGoOn /\ m_pushIndex' \in Combined
    BY <1>0, <1>3, <1>4, <1>5, <1>7, PushIndexStep DEF PushAdvance, counters
  <1>9. TypeOK'
    BY <1>4, <1>5, <1>8, ThreadFacts, TypeKeeps DEF counters, StatesOK
  <1>10. LoadedOK(th[t], H, T)'
    BY <1>4 DEF LoadedOK, PrePush
  <1> QED
    BY <1>4, <1>5, <1>6, <1>8, <1>9, <1>10, CellsUntouched DEF Stays

LEMMA ConstructStays ==
  ASSUME NEW H \in Nat, NEW T \in Nat, IInv(H, T), NEW t \in Threads, Construct(t)
  PROVE  Stays(H, T)
  <1>0. PICK c \in Combined : c = th[t].cell
    BY ThreadFacts
  <1>1. th[t].pc = "construct" /\ Has(th[t], c) /\ Idx(c) \in Cells
    BY <1>0, Split DEF Construct, At, Has, Writes, Holding
  <1>2. Moved(t) /\ th'[t].pc = "pushCommit" /\ SameButPc(th'[t], th[t])
    BY ThreadFacts, GotoFacts DEF Construct, Labels
  <1>3. UNCHANGED <<m_pushIndex, disabled, m_popIndex, m_states, counters>>
    BY DEF Construct
  <1>4. /\ m_data' \in [Cells -> Values \cup {None}] /\ m_data'[Idx(c)] = th[t].value
        /\ \A i \in Cells \ {Idx(c)} : m_data'[i] = m_data[i]
    BY <1>0, <1>1, ThreadFacts DEF Construct
  <1>5. TypeOK'
    BY <1>2, <1>3, <1>4, ThreadFacts, TypeKeeps DEF counters, StatesOK
  <1>6. SameReserved(t) /\ ValueStays(t) /\ \A d : ~Advances(th[t], d)
    BY <1>1, <1>2 DEF SameReserved, ValueStays, Reads, Writes, Holding, SameButPc, Advances
  <1>7. LoadedOK(th[t], H, T)'
    BY <1>2 DEF LoadedOK, PrePush
  <1>8. ReservedOK(th[t])'
    <2>1. \A d \in Combined : ~Reads(th'[t], d)
      BY <1>2 DEF Reads
    <2>2. \A d \in Combined : Writes(th'[t], d) => InState(d, "Writing")'
      <3>1. ReservedOK(th[t])
        BY ThreadFacts
      <3> QED
        BY <3>1, <1>3, <1>6 DEF SameReserved, ReservedOK, InState
    <2>3. m_data'[Idx(th'[t].cell)] = th'[t].value
      BY <1>0, <1>2, <1>4 DEF SameButPc
    <2> QED
      BY <2>1, <2>2, <2>3, <1>2 DEF ReservedOK, Reads, Writes
  <1> QED
    BY <1>1, <1>2, <1>3, <1>4, <1>5, <1>6, <1>7, <1>8, DataStep DEF Stays, counters

LEMMA CommitPushStays ==
  ASSUME NEW H \in Nat, NEW T \in Nat, IInv(H, T), NEW t \in Threads, CommitPush(t)
  PROVE  Stays(H, T)
  <1>0. PICK c \in Combined : c = th[t].cell
    BY ThreadFacts
  <1>1. th[t].pc = "pushCommit" /\ SetState(c, Gen(c), "Full")
    BY <1>0 DEF CommitPush, At
  <1>2. Moved(t) /\ th'[t] = Idle
    BY ThreadFacts, LocalFacts, IdleType DEF Return, CommitPush
  <1>3. th'[t].pc = "idle"
    BY <1>2, IdleType
  <1>4. UNCHANGED <<m_pushIndex, disabled, m_popIndex, m_data, counters>>
    BY DEF CommitPush
  <1>5. StatesOK'
    BY <1>1, ThreadFacts, SetStateType, Split
  <1>6. TypeOK'
    BY <1>2, <1>4, <1>5, ThreadFacts, TypeKeeps DEF counters
  <1> QED
    BY <1>0, <1>1, <1>2, <1>3, <1>4, <1>6, FillStep DEF Stays, counters
-----------------------------------------------------------------------------
(* tryPopFront                                                             *)

LEMMA PopStartStays ==
  ASSUME NEW H \in Nat, NEW T \in Nat, IInv(H, T), NEW t \in Threads, PopStart(t)
  PROVE  Stays(H, T)
  <1> DEFINE l == LoadPop(Idle, "popReserve")
  <1>1. l \in LocalType /\ l.pc = "popReserve" /\ l.loaded = m_popIndex
    BY ThreadFacts, LoadPopFacts, IdleType, SMTT(30) DEF Labels
  <1>2. Local(t, l)
    BY DEF PopStart
  <1> HIDE DEF l
  <1>3. Moved(t) /\ th'[t] = l
    BY <1>1, <1>2, ThreadFacts, LocalFacts
  <1>4. UNCHANGED <<m_pushIndex, disabled, m_popIndex, m_states, m_data, toggles>>
    BY DEF PopStart
  <1>5. TypeOK'
    <2>1. pops' \in 0 .. MaxPops
      BY QueueAssumption, SMTT(30) DEF PopStart, IInv, TypeOK
    <2> QED
      BY <2>1, <1>3, <1>4, ThreadFacts DEF TypeOK, PopStart, Moved, LocalType
  <1>6. GoesOn(t)
    BY <1>1, <1>3 DEF GoesOn, Free, PopStart, At
  <1>7. LoadedOK(th'[t], H, T)
    BY <1>1, <1>3, Reload DEF PrePush
  <1> QED
    BY <1>3, <1>4, <1>5, <1>6, <1>7, LocalStep DEF Stays

LEMMA PopReloadStays ==
  ASSUME NEW H \in Nat, NEW T \in Nat, IInv(H, T), NEW t \in Threads, PopReload(t)
  PROVE  Stays(H, T)
  <1> DEFINE l == LoadPop(th[t], "popReserve")
  <1>1. l \in LocalType /\ l.pc = "popReserve" /\ l.loaded = m_popIndex
    BY ThreadFacts, LoadPopFacts, SMTT(30) DEF Labels
  <1>2. Local(t, l)
    BY DEF PopReload
  <1> HIDE DEF l
  <1>3. Moved(t) /\ th'[t] = l
    BY <1>1, <1>2, ThreadFacts, LocalFacts
  <1>4. GoesOn(t)
    BY <1>1, <1>3 DEF GoesOn, Free, PopReload, At
  <1>5. LoadedOK(th'[t], H, T)
    BY <1>1, <1>3, Reload DEF PrePush
  <1> QED
    BY <1>3, <1>4, <1>5, LocalOnly DEF PopReload

LEMMA PopReserveSteps ==
  ASSUME NEW H \in Nat, NEW T \in Nat, IInv(H, T), NEW t \in Threads, PopReserve(t)
  PROVE  Stays(H, T) \/ Pops(H, T)
  <1>0. PICK c \in Combined : c = th[t].loaded
    BY ThreadFacts
  <1>1. th[t].pc = "popReserve" /\ Off(c) <= Off(m_popIndex)
    BY <1>0, ThreadFacts DEF PopReserve, At, LoadedOK
  <1>2. Off(c) <= H /\ Off(c) \in Int
    BY <1>1, OffFacts, SMTT(30)
  <1>3. UNCHANGED <<m_pushIndex, disabled, m_popIndex, m_data, counters>>
    BY DEF PopReserve
  <1>4. ASSUME NEW l, Moved(t), th'[t] = l, l.pc \in {"popReload", "idle", "popSkip"},
               l.pc = "popSkip" => l.loaded = c /\ Off(c) < H, UNCHANGED m_states
        PROVE  Stays(H, T)
    <2>1. GoesOn(t)
      BY <1>1, <1>4 DEF GoesOn, Free
    <2>2. LoadedOK(th'[t], H, T)
      BY <1>1, <1>4 DEF LoadedOK, PrePush
    <2> QED
      BY <2>1, <2>2, <1>3, <1>4, LocalOnly
  <1>5. CASE /\ Poppable(c) /\ SetState(c, Gen(c), "Reading")
             /\ Local(t, [th[t] EXCEPT !.pc = "popAdvance", !.taken = m_data[Idx(c)]])
    <2> DEFINE v == m_data[Idx(c)]
               l == [th[t] EXCEPT !.pc = "popAdvance", !.taken = v]
    <2>1. v \in Values \cup {None} /\ th[t] \in LocalType
      BY ThreadFacts, Split
    <2> HIDE DEF v
    <2>2. l \in LocalType /\ l.pc = "popAdvance" /\ l.loaded = th[t].loaded /\ l.taken = v
      BY <2>1, TakeFacts
    <2>3. Local(t, l)
      BY <1>5 DEF v
    <2> HIDE DEF l
    <2>4. Moved(t) /\ th'[t] = l
      BY <2>2, <2>3, ThreadFacts, LocalFacts
    <2>5. StatesOK'
      BY <1>5, ThreadFacts, SetStateType, Split
    <2>6. TypeOK'
      BY <2>4, <2>5, <1>3, ThreadFacts, TypeKeeps DEF counters
    <2>7. /\ Advances(th'[t], c) /\ Reserved(t, Idx(c)) /\ KeepsWriting(t, Idx(c))
          /\ ValueStays(t) /\ \A d : ~Advances(th[t], d)
      BY <2>2, <2>4, <1>0, <1>1
         DEF Advances, Reserved, KeepsWriting, ValueStays, Has, Reads, Writes, Holding
    <2>8. InState(c, "Full") /\ InState(c, "Reading")'
      <3>1. InState(c, "Full")
        BY <1>5 DEF Poppable
      <3>2. m_states'[Idx(c)].st = "Reading" /\ m_states'[Idx(c)].gen = Gen(c)
        BY <3>1, <2>5, <1>5, ThreadFacts, MarkFacts DEF InState
      <3> QED
        BY <3>1, <3>2 DEF InState
    <2>9. ReservedOK(th[t])'
      BY <2>2, <2>4, <2>8, <1>0, <1>3 DEF ReservedOK, Reads, Writes, Holding, v
    <2> QED
      BY <2>4, <2>6, <2>7, <2>8, <2>9, <1>1, <1>3, <1>5, TakeStep DEF Pops, counters
  <1>6. CASE Return(t) /\ UNCHANGED m_states
    <2>1. Moved(t) /\ th'[t] = Idle
      BY <1>6, ThreadFacts, LocalFacts, IdleType DEF Return
    <2>2. Idle.pc = "idle"
      BY DEF Idle
    <2> QED
      BY <2>1, <2>2, <1>4, <1>6
  <1>7. CASE Local(t, [th[t] EXCEPT !.pc = "popReload", !.saved = c]) /\ UNCHANGED m_states
    <2> DEFINE l == Saved(th[t], "popReload", c)
    <2>1. /\ l \in LocalType /\ l.pc = "popReload"
          /\ l.loaded = th[t].loaded /\ l.value = th[t].value
      <3>1. "popReload" \in Labels /\ th[t] \in LocalType
        BY ThreadFacts DEF Labels
      <3> QED
        BY <3>1, SaveFacts
    <2>2. Local(t, l)
      BY <1>7 DEF Saved
    <2> HIDE DEF l
    <2>3. Moved(t) /\ th'[t] = l
      BY <2>1, <2>2, ThreadFacts, LocalFacts
    <2> QED
      BY <2>1, <2>3, <1>4, <1>7
  <1>8. CASE Goto(t, "popReload") /\ UNCHANGED m_states
    <2>1. Moved(t) /\ th'[t].pc = "popReload"
      BY <1>8, ThreadFacts, GotoFacts DEF Labels
    <2> QED
      BY <2>1, <1>4, <1>8
  <1>9. CASE PopTaken(c) /\ Goto(t, "popSkip") /\ UNCHANGED m_states
    <2>1. Moved(t) /\ th'[t].pc = "popSkip" /\ SameButPc(th'[t], th[t])
      BY <1>9, ThreadFacts, GotoFacts DEF Labels
    <2>2. Off(c) < H
      BY <1>2, <1>9, PopCellFacts DEF PopTaken
    <2> QED
      BY <2>1, <2>2, <1>0, <1>4, <1>9 DEF SameButPc
  <1> QED
    BY <1>0, <1>5, <1>6, <1>7, <1>8, <1>9 DEF PopReserve

\* A thread that passes over a cell that another one reserved, and loads the index again
LEMMA PopSkips ==
  ASSUME NEW H \in Nat, NEW T \in Nat, IInv(H, T), NEW t \in Threads,
         NEW label \in {"popReserve", "clearReserve"},
         th[t].pc = IF label = "popReserve" THEN "popSkip" ELSE "clearSkip",
         SwapPopIndex(th[t].loaded), Local(t, LoadPop(th[t], label)),
         UNCHANGED <<m_pushIndex, disabled, m_states, m_data, counters>>
  PROVE  Stays(H, T)
  <1> DEFINE l == LoadPop(th[t], label)
  <1>0. label \in Labels /\ th[t] \in LocalType
    BY ThreadFacts DEF Labels
  <1>1. th[t].loaded \in Combined /\ Off(th[t].loaded) < H
    BY ThreadFacts DEF LoadedOK
  <1>2. /\ l \in LocalType /\ l.pc = label /\ l.loaded = m_popIndex
        /\ l.cell = th[t].cell /\ l.value = th[t].value
    BY <1>0, ThreadFacts, LoadPopFacts
  <1> HIDE DEF l
  <1>3. Moved(t) /\ th'[t] = l
    BY <1>2, ThreadFacts, LocalFacts DEF l
  <1>4. GoesOn(t)
    BY <1>2, <1>3 DEF GoesOn, Free, Clearing
  <1>5. IndexesOK(H, T)' /\ IndexesGoOn /\ m_popIndex' \in Combined
    BY <1>1, <1>3, <1>4, GoesOnFacts, PopIndexStep DEF counters
  <1>6. TypeOK'
    BY <1>3, <1>5, ThreadFacts, TypeKeeps DEF counters, StatesOK
  <1>7. LoadedOK(th[t], H, T)'
    BY <1>2, <1>3, <1>5 DEF LoadedOK, PrePush, IndexesGoOn, Off
  <1> QED
    BY <1>3, <1>4, <1>5, <1>6, <1>7, GoesOnFacts, CellsUntouched DEF Stays

\* A thread that reserved a cell for popping advances the pop index, unless it was.
LEMMA PopAdvances ==
  ASSUME NEW H \in Nat, NEW T \in Nat, IInv(H, T), NEW t \in Threads,
         NEW c \in Combined, NEW label,
         \/ /\ th[t].pc = "popAdvance" /\ label = "read" /\ c = th[t].loaded
         \/ /\ th[t].pc = "clearAdvance" /\ label = "clearCommit" /\ c = th[t].loaded
         \/ /\ th[t].pc = "abortAdvance" /\ label = "abortCommit" /\ c = th[t].cell,
         SwapPopIndex(c), Goto(t, label),
         UNCHANGED <<m_pushIndex, disabled, m_states, m_data, counters>>
  PROVE  Stays(H, T)
  <1>1. Reads(th[t], c)
    BY DEF Reads
  <1>2. InState(c, "Reading")
    BY <1>1, ThreadFacts DEF ReservedOK
  <1>3. Off(c) < H
    BY <1>2, ThreadFacts, CellFacts DEF InState, IInv, CellOK
  <1>4. label \in Labels
    BY DEF Labels
  <1>5. Moved(t) /\ th'[t].pc = label /\ SameButPc(th'[t], th[t])
    BY <1>4, ThreadFacts, GotoFacts
  <1>6. SameReserved(t) /\ ValueStays(t)
    BY <1>5 DEF SameReserved, ValueStays, Reads, Writes, Holding, SameButPc
  <1>7. th[t].pc # "pushAdvance" /\ \A d : Advances(th[t], d) => d = c
    BY DEF Advances
  <1>8. /\ IndexesOK(H, T)' /\ IndexesGoOn /\ m_popIndex' \in Combined
        /\ Off(c) < Off(m_popIndex')
    BY <1>3, <1>5, <1>7, PopIndexStep DEF counters
  <1>9. TypeOK'
    BY <1>5, <1>8, ThreadFacts, TypeKeeps DEF counters, StatesOK
  <1>10. LoadedOK(th[t], H, T)'
    BY <1>5, <1>8 DEF LoadedOK, PrePush, SameButPc, Off
  <1> QED
    BY <1>5, <1>6, <1>8, <1>9, <1>10, CellsUntouched DEF Stays

LEMMA ReadStays ==
  ASSUME NEW H \in Nat, NEW T \in Nat, IInv(H, T), NEW t \in Threads, Read(t)
  PROVE  Stays(H, T)
  <1>0. PICK c \in Combined : c = th[t].loaded
    BY ThreadFacts
  <1> DEFINE v == m_data[Idx(c)]
             l == [th[t] EXCEPT !.pc = "popCommit", !.value = v]
  <1>1. /\ th[t].pc = "read" /\ Reads(th[t], c) /\ Has(th[t], c) /\ Idx(c) \in Cells
        /\ v = th[t].taken
    BY <1>0, Split, ThreadFacts DEF Read, At, Has, Reads, ReservedOK
  <1>2. v \in Values \cup {None} /\ th[t] \in LocalType
    BY <1>1, ThreadFacts
  <1>3. Local(t, l)
    BY <1>0 DEF Read
  <1> HIDE DEF v
  <1>4. /\ l \in LocalType /\ l.pc = "popCommit" /\ l.value = v
        /\ l.loaded = th[t].loaded /\ l.taken = th[t].taken
    BY <1>2, ReadFacts
  <1> HIDE DEF l
  <1>5. Moved(t) /\ th'[t] = l
    BY <1>3, <1>4, ThreadFacts, LocalFacts
  <1>6. UNCHANGED <<m_pushIndex, disabled, m_popIndex, m_states, counters>>
    BY DEF Read
  <1>7. /\ m_data' \in [Cells -> Values \cup {None}]
        /\ \A i \in Cells \ {Idx(c)} : m_data'[i] = m_data[i]
    BY <1>0, <1>1, ThreadFacts DEF Read
  <1>8. TypeOK'
    BY <1>5, <1>6, <1>7, ThreadFacts, TypeKeeps DEF counters, StatesOK
  <1>9. SameReserved(t) /\ ValueStays(t) /\ \A d : ~Advances(th[t], d)
    BY <1>1, <1>4, <1>5 DEF SameReserved, ValueStays, Reads, Writes, Holding, Advances
  <1>10. LoadedOK(th[t], H, T)'
    <2>1. LoadedOK(th[t], H, T)
      BY ThreadFacts
    <2> QED
      BY <2>1, <1>1, <1>4, <1>5, <1>6 DEF LoadedOK, PrePush, Off
  <1>11. ReservedOK(th[t])'
    <2>1. \A d \in Combined : Reads(th'[t], d) => InState(d, "Reading")'
      <3>1. ReservedOK(th[t])
        BY ThreadFacts
      <3> QED
        BY <3>1, <1>6, <1>9 DEF SameReserved, ReservedOK, InState
    <2>2. \A d \in Combined : ~Writes(th'[t], d)
      BY <1>4, <1>5 DEF Writes, Holding
    <2>3. th'[t].value = th'[t].taken
      BY <1>1, <1>4, <1>5
    <2> QED
      BY <2>1, <2>2, <2>3, <1>4, <1>5 DEF ReservedOK, Reads, Writes
  <1> QED
    BY <1>1, <1>5, <1>6, <1>7, <1>8, <1>9, <1>10, <1>11, DataStep DEF Stays, counters

\* The cell that was read or cleared is released.
LEMMA CommitPopStays ==
  ASSUME NEW H \in Nat, NEW T \in Nat, IInv(H, T), NEW t \in Threads,
         CommitPop(t) \/ AbortCommit(t)
  PROVE  Stays(H, T)
  <1>0. PICK c \in Combined : c = IF th[t].pc = "popCommit" THEN th[t].loaded ELSE th[t].cell
    BY ThreadFacts
  <1>1. /\ th[t].pc \in {"popCommit", "abortCommit"} /\ Reads(th[t], c)
        /\ SetState(c, nextGeneration(Gen(c)), "Empty")
    BY <1>0 DEF CommitPop, AbortCommit, At, Reads
  <1>2. Off(c) < Off(m_popIndex)
    BY <1>0, <1>1, ThreadFacts DEF LoadedOK
  <1>3. Moved(t) /\ th'[t] = Idle
    BY ThreadFacts, LocalFacts, IdleType DEF Return, CommitPop, AbortCommit
  <1>4. th'[t].pc = "idle"
    BY <1>3, IdleType
  <1>5. UNCHANGED <<m_pushIndex, disabled, m_popIndex, m_data, counters>>
    BY DEF CommitPop, AbortCommit
  <1>6. StatesOK'
    <2>1. nextGeneration(Gen(c)) \in Generations
      BY Split, Sizes, SMTT(30) DEF nextGeneration, Generations
    <2> QED
      BY <2>1, <1>1, ThreadFacts, SetStateType
  <1>7. TypeOK'
    BY <1>3, <1>5, <1>6, ThreadFacts, TypeKeeps DEF counters
  <1>8. /\ Reserved(t, Idx(c)) /\ KeepsWriting(t, Idx(c)) /\ ValueStays(t)
        /\ th[t].pc # "pushAdvance" /\ \A d : ~Advances(th[t], d)
    BY <1>1, <1>4 DEF Advances, Reserved, KeepsWriting, ValueStays, Has, Reads, Writes,
       Holding
  <1>9. LoadedOK(th[t], H, T)' /\ ReservedOK(th[t])'
    BY <1>4 DEF LoadedOK, PrePush, ReservedOK, Reads, Writes, Holding
  <1> QED
    BY <1>1, <1>2, <1>3, <1>5, <1>7, <1>8, <1>9, ReleaseStep DEF Stays, counters
-----------------------------------------------------------------------------
(* The undoing of a push, size, disable and enable                         *)

LEMMA ConstructThrowsStays ==
  ASSUME NEW H \in Nat, NEW T \in Nat, IInv(H, T), NEW t \in Threads, ConstructThrows(t)
  PROVE  Stays(H, T)
  <1>1. Moved(t) /\ th'[t].pc = "clearLoad" /\ SameButPc(th'[t], th[t])
    BY ThreadFacts, GotoFacts DEF ConstructThrows, Labels
  <1>2. UNCHANGED <<m_pushIndex, disabled, m_popIndex, m_states, m_data, toggles>>
    BY DEF ConstructThrows
  <1>3. TypeOK'
    <2>1. throws' \in 0 .. MaxThrows
      BY QueueAssumption, SMTT(30) DEF ConstructThrows, IInv, TypeOK
    <2> QED
      BY <2>1, <1>1, <1>2, ThreadFacts DEF TypeOK, ConstructThrows, Moved, LocalType
  <1>4. GoesOn(t)
    BY <1>1 DEF GoesOn, Clearing, ConstructThrows, At, SameButPc
  <1>5. LoadedOK(th'[t], H, T)
    BY <1>1, Reload DEF PrePush
  <1> QED
    BY <1>1, <1>2, <1>3, <1>4, <1>5, LocalStep DEF Stays

LEMMA ClearLoadStays ==
  ASSUME NEW H \in Nat, NEW T \in Nat, IInv(H, T), NEW t \in Threads, ClearLoad(t)
  PROVE  Stays(H, T)
  <1> DEFINE l == LoadPop(th[t], "clearReserve")
  <1>1. /\ l \in LocalType /\ l.pc = "clearReserve" /\ l.loaded = m_popIndex
        /\ l.cell = th[t].cell /\ l.value = th[t].value
    BY ThreadFacts, LoadPopFacts, SMTT(30) DEF Labels
  <1>2. Local(t, l)
    BY DEF ClearLoad
  <1> HIDE DEF l
  <1>3. Moved(t) /\ th'[t] = l
    BY <1>1, <1>2, ThreadFacts, LocalFacts
  <1>4. GoesOn(t)
    BY <1>1, <1>3 DEF GoesOn, Clearing, ClearLoad, At
  <1>5. LoadedOK(th'[t], H, T)
    BY <1>1, <1>3, Reload DEF PrePush
  <1> QED
    BY <1>3, <1>4, <1>5, LocalOnly DEF ClearLoad

LEMMA ClearReserveSteps ==
  ASSUME NEW H \in Nat, NEW T \in Nat, IInv(H, T), NEW t \in Threads, ClearReserve(t)
  PROVE  Stays(H, T) \/ Pops(H, T)
  <1>0. PICK c \in Combined : c = th[t].loaded
    BY ThreadFacts
  <1>1. th[t].pc = "clearReserve" /\ c # th[t].cell
    BY <1>0 DEF ClearReserve, At
  <1>2. /\ H < T /\ Off(c) <= H /\ Off(c) <= Off(m_popIndex) /\ Off(c) \in Int
        /\ InState(th[t].cell, "Writing")
    BY <1>0, <1>1, ClearFacts, SMTT(30)
  <1>3. UNCHANGED <<m_pushIndex, disabled, m_popIndex, m_data, counters>>
    BY DEF ClearReserve
  <1>4. CASE InState(c, "Full") /\ SetState(c, Gen(c), "Reading") /\ Goto(t, "clearAdvance")
    <2>1. Moved(t) /\ th'[t].pc = "clearAdvance" /\ SameButPc(th'[t], th[t])
      BY <1>4, ThreadFacts, GotoFacts DEF Labels
    <2>2. StatesOK'
      BY <1>4, ThreadFacts, SetStateType, Split
    <2>3. TypeOK'
      BY <2>1, <2>2, <1>3, ThreadFacts, TypeKeeps DEF counters
    <2>4. /\ Advances(th'[t], c) /\ Reserved(t, Idx(c)) /\ KeepsWriting(t, Idx(c))
          /\ ValueStays(t) /\ \A d : ~Advances(th[t], d)
      BY <2>1, <1>0, <1>1
         DEF Advances, Reserved, KeepsWriting, ValueStays, Has, Reads, Writes, Holding, SameButPc
    <2>5. /\ \A i \in Cells \ {Idx(c)} : m_states'[i] = m_states[i]
          /\ m_states'[Idx(c)].st = "Reading" /\ m_states'[Idx(c)].gen = Gen(c)
      BY <2>2, <1>4, ThreadFacts, MarkFacts DEF InState
    <2>6. InState(c, "Reading")'
      BY <2>5 DEF InState
    <2>7. PICK e \in Combined : e = th[t].cell
      BY ThreadFacts
    <2>8. InState(e, "Writing")'
      <3>1. Idx(e) \in Cells /\ Idx(e) # Idx(c)
        BY <2>7, <1>2, <1>4, Split DEF InState
      <3> QED
        BY <3>1, <2>5, <2>7, <1>2 DEF InState
    <2>9. ReservedOK(th[t])'
      BY <2>1, <2>6, <2>7, <2>8, <1>0 DEF ReservedOK, Reads, Writes, Holding, SameButPc
    <2> QED
      BY <2>1, <2>3, <2>4, <2>9, <1>1, <1>2, <1>3, <1>4, TakeStep DEF Pops, counters
  <1>5. ASSUME NEW label \in {"clearLoad", "clearSkip"}, Goto(t, label), UNCHANGED m_states,
               label = "clearSkip" => Off(c) < H
        PROVE  Stays(H, T)
    <2>1. label \in Labels
      BY DEF Labels
    <2>2. Moved(t) /\ th'[t].pc = label /\ SameButPc(th'[t], th[t])
      BY <2>1, <1>5, ThreadFacts, GotoFacts
    <2>3. GoesOn(t)
      BY <2>2, <1>1, <1>5 DEF GoesOn, Clearing, SameButPc
    <2>4. LoadedOK(th'[t], H, T)
      BY <2>2, <1>0, <1>2, <1>5 DEF LoadedOK, PrePush, SameButPc
    <2> QED
      BY <2>2, <2>3, <2>4, <1>3, <1>5, LocalOnly
  <1>6. m_states[Idx(c)].st \in {"Reading", "Empty"} => Off(c) < H
    BY <1>2, PopCellFacts
  <1> QED
    BY <1>0, <1>4, <1>5, <1>6 DEF ClearReserve

LEMMA AbortReadPops ==
  ASSUME NEW H \in Nat, NEW T \in Nat, IInv(H, T), NEW t \in Threads, AbortRead(t)
  PROVE  Pops(H, T)
  <1>0. PICK c \in Combined : c = th[t].cell
    BY ThreadFacts
  <1>1. th[t].pc = "clearReserve" /\ th[t].loaded = c /\ SetState(c, Gen(c), "Reading")
    BY <1>0 DEF AbortRead, At
  <1>2. Off(c) <= Off(m_popIndex) /\ InState(c, "Writing") /\ Has(th[t], c)
    BY <1>0, <1>1, ClearFacts DEF Has
  <1>3. UNCHANGED <<m_pushIndex, disabled, m_popIndex, m_data, counters>>
    BY DEF AbortRead
  <1>4. Moved(t) /\ th'[t].pc = "abortAdvance" /\ SameButPc(th'[t], th[t])
    BY ThreadFacts, GotoFacts DEF Labels, AbortRead
  <1>5. StatesOK'
    BY <1>1, ThreadFacts, SetStateType, Split
  <1>6. TypeOK'
    BY <1>3, <1>4, <1>5, ThreadFacts, TypeKeeps DEF counters
  <1>7. /\ Advances(th'[t], c) /\ Reserved(t, Idx(c)) /\ KeepsWriting(t, Idx(c))
        /\ ValueStays(t) /\ \A d : ~Advances(th[t], d)
    BY <1>0, <1>1, <1>4
       DEF Advances, Reserved, KeepsWriting, ValueStays, Has, Reads, Writes, Holding, SameButPc
  <1>8. InState(c, "Reading")'
    <2>1. m_states'[Idx(c)].st = "Reading" /\ m_states'[Idx(c)].gen = Gen(c)
      BY <1>1, <1>2, <1>5, ThreadFacts, MarkFacts DEF InState
    <2> QED
      BY <2>1 DEF InState
  <1>9. ReservedOK(th[t])'
    BY <1>0, <1>4, <1>8 DEF ReservedOK, Reads, Writes, Holding, SameButPc
  <1> QED
    BY <1>1, <1>2, <1>3, <1>4, <1>6, <1>7, <1>9, TakeStep DEF Pops, counters

LEMMA ClearCommitStays ==
  ASSUME NEW H \in Nat, NEW T \in Nat, IInv(H, T), NEW t \in Threads, ClearCommit(t)
  PROVE  Stays(H, T)
  <1>0. PICK c \in Combined : c = th[t].loaded
    BY ThreadFacts
  <1>1. /\ th[t].pc = "clearCommit" /\ Reads(th[t], c)
        /\ SetState(c, nextGeneration(Gen(c)), "Empty")
    BY <1>0 DEF ClearCommit, At, Reads
  <1>2. Off(c) < Off(m_popIndex)
    BY <1>0, <1>1, ThreadFacts DEF LoadedOK
  <1>3. Moved(t) /\ th'[t].pc = "clearLoad" /\ SameButPc(th'[t], th[t])
    BY ThreadFacts, GotoFacts DEF Labels, ClearCommit
  <1>4. UNCHANGED <<m_pushIndex, disabled, m_popIndex, counters>>
    BY DEF ClearCommit
  <1>5. /\ m_data' \in [Cells -> Values \cup {None}]
        /\ \A i \in Cells \ {Idx(c)} : m_data'[i] = m_data[i]
    BY <1>0, Split, ThreadFacts DEF ClearCommit
  <1>6. nextGeneration(Gen(c)) \in Generations
    BY Split, Sizes, SMTT(30) DEF nextGeneration, Generations
  <1>7. StatesOK'
    BY <1>1, <1>6, ThreadFacts, SetStateType
  <1>8. TypeOK'
    BY <1>3, <1>4, <1>5, <1>7, ThreadFacts, TypeKeeps DEF counters
  <1>9. /\ Reserved(t, Idx(c)) /\ KeepsWriting(t, Idx(c)) /\ ValueStays(t)
        /\ th[t].pc # "pushAdvance" /\ \A d : ~Advances(th[t], d)
    BY <1>1, <1>3
       DEF Advances, Reserved, KeepsWriting, ValueStays, Has, Reads, Writes, Holding, SameButPc
  <1>10. LoadedOK(th[t], H, T)'
    BY <1>3 DEF LoadedOK, PrePush
  <1>11. ReservedOK(th[t])'
    <2>1. PICK e \in Combined : e = th[t].cell
      BY ThreadFacts
    <2>2. ReservedOK(th[t])
      BY ThreadFacts
    <2>3. InState(e, "Writing") /\ InState(c, "Reading")
      BY <2>1, <2>2, <1>0, <1>1 DEF ReservedOK, Writes, Holding
    <2>4. Idx(e) \in Cells /\ Idx(c) \in Cells /\ Idx(e) # Idx(c)
      BY <2>3, Split DEF InState
    <2>5. InState(e, "Writing")'
      BY <2>3, <2>4, <1>1, SMTT(30) DEF InState, SetState
    <2> QED
      BY <2>1, <2>5, <1>3 DEF ReservedOK, Reads, Writes, Holding, SameButPc
  <1> QED
    BY <1>1, <1>2, <1>3, <1>4, <1>5, <1>8, <1>9, <1>10, <1>11, ReleaseStep DEF Stays,
       counters

LEMMA SizeStays ==
  ASSUME NEW H \in Nat, NEW T \in Nat, IInv(H, T), NEW t \in Threads,
         SizeLoadPush(t) \/ SizeLoadPop(t)
  PROVE  Stays(H, T)
  <1>1. UNCHANGED <<m_pushIndex, disabled, m_popIndex, m_states, m_data, counters>>
    BY DEF SizeLoadPush, SizeLoadPop
  <1>2. CASE SizeLoadPush(t)
    <2> DEFINE k == [Idle EXCEPT !.pc = "size"]
               l == [k EXCEPT !.loaded = m_pushIndex]
    <2>2. Local(t, l)
      BY <1>2 DEF SizeLoadPush
    <2>1. l \in LocalType /\ l.pc = "size" /\ l.loaded = m_pushIndex
      <3>1. "size" \in Labels /\ m_pushIndex \in Combined
        BY ThreadFacts DEF Labels
      <3>2. k \in LocalType /\ k.pc = "size"
        BY <3>1, IdleType DEF LocalType
      <3> HIDE DEF k
      <3> QED
        BY <3>1, <3>2 DEF LocalType
    <2> HIDE DEF l
    <2>3. Moved(t) /\ th'[t] = l
      BY <2>1, <2>2, ThreadFacts, LocalFacts
    <2>4. GoesOn(t)
      BY <2>1, <2>3, <1>2 DEF GoesOn, Free, SizeLoadPush, At
    <2>5. LoadedOK(th'[t], H, T)
      BY <2>1, <2>3, Reload DEF PrePush
    <2> QED
      BY <2>3, <2>4, <2>5, <1>1, LocalOnly
  <1>3. CASE SizeLoadPop(t)
    <2>1. Moved(t) /\ th'[t] = Idle
      BY <1>3, ThreadFacts, LocalFacts, IdleType DEF Return, SizeLoadPop
    <2>2. th'[t].pc = "idle"
      BY <2>1, IdleType
    <2>3. GoesOn(t)
      BY <2>2, <1>3 DEF GoesOn, Free, SizeLoadPop, At
    <2>4. LoadedOK(th'[t], H, T)
      BY <2>2, Reload DEF PrePush
    <2> QED
      BY <2>1, <2>3, <2>4, <1>1, LocalOnly
  <1> QED
    BY <1>2, <1>3

LEMMA NothingMoves ==
  ASSUME NEW H \in Nat, NEW T \in Nat, IInv(H, T), TypeOK',
         UNCHANGED <<m_pushIndex, m_popIndex, m_states, m_data, th>>,
         UNCHANGED <<disabled, toggles>> \/ toggles' > 0
  PROVE  Stays(H, T)
  <1>1. IndexesOK(H, T)'
    <2>1. CASE UNCHANGED <<disabled, toggles>>
      BY <2>1 DEF IInv, IndexesOK, Off
    <2>2. CASE toggles' > 0
      BY <2>2 DEF IInv, IndexesOK, Off
    <2> QED
      BY <2>1, <2>2
  <1>2. (\A i \in Cells : CellOK(i, H, T))'
    BY DEF IInv, CellOK, Pos, CellIndex, Off, Holds
  <1>3. ASSUME NEW t \in Threads PROVE (LoadedOK(th[t], H, T) /\ ReservedOK(th[t]))'
    <2>1. LoadedOK(th[t], H, T) /\ ReservedOK(th[t])
      BY DEF IInv
    <2> QED
      BY <2>1 DEF LoadedOK, ReservedOK, Off, InState
  <1>4. OwnersDiffer'
    BY DEF IInv, OwnersDiffer
  <1>5. WindowKept(H, T)
    BY SMTT(20) DEF WindowKept, ValueAt, InState, Holder, Holds
  <1> QED
    BY <1>1, <1>2, <1>3, <1>4, <1>5 DEF IInv, Stays

LEMMA SetDisabledStays ==
  ASSUME NEW H \in Nat, NEW T \in Nat, IInv(H, T), NEW b \in BOOLEAN, SetDisabled(b)
  PROVE  Stays(H, T)
  <1>1. TypeOK' /\ toggles' > 0
    BY QueueAssumption, SMTT(30) DEF SetDisabled, IInv, TypeOK
  <1> QED
    BY <1>1, NothingMoves DEF SetDisabled

LEMMA StutterStays ==
  ASSUME NEW H \in Nat, NEW T \in Nat, IInv(H, T), UNCHANGED vars
  PROVE  Stays(H, T)
  <1>1. TypeOK'
    BY DEF IInv, TypeOK, vars, counters
  <1> QED
    BY <1>1, NothingMoves DEF vars, counters

\* Every step leaves the queue as it is, appends to it or removes its head.
LEMMA NextSteps ==
  ASSUME NEW H \in Nat, NEW T \in Nat, IInv(H, T), [Next]_vars,
         \A t \in Threads : th[t].pc = "pushReserve" => T < MaxPushes
  PROVE  Stays(H, T) \/ Pushes(H, T) \/ Pops(H, T)
  <1>1. CASE UNCHANGED vars
    BY <1>1, StutterStays
  <1>2. CASE disable \/ enable
    <2>1. PICK b \in BOOLEAN : SetDisabled(b)
      BY <1>2 DEF disable, enable
    <2> QED
      BY <2>1, SetDisabledStays
  <1>3. ASSUME NEW t \in Threads, PushStart(t) \/ PopStart(t) \/ SizeLoadPush(t) \/ Step(t)
        PROVE  Stays(H, T) \/ Pushes(H, T) \/ Pops(H, T)
    <2>1. CASE PushStart(t) \/ PushReload(t) \/ PushDisabled(t) \/ PushSkip(t) \/ PushAdvance(t)
               \/ Construct(t) \/ ConstructThrows(t) \/ CommitPush(t)
      BY <2>1, PushStartStays, PushReloadStays, PushDisabledStays, PushSkipStays,
         PushAdvanceStays, ConstructStays, ConstructThrowsStays, CommitPushStays
    <2>2. CASE PushReserve(t)
      <3>1. T < MaxPushes
        BY <2>2 DEF PushReserve, At
      <3> QED
        BY <2>2, <3>1, PushReserveSteps
    <2>3. CASE PopStart(t) \/ PopReload(t) \/ PopReserve(t) \/ Read(t) \/ CommitPop(t)
      BY <2>3, PopStartStays, PopReloadStays, PopReserveSteps, ReadStays, CommitPopStays
    <2>4. CASE PopSkip(t) \/ ClearSkip(t)
      BY <2>4, PopSkips DEF PopSkip, ClearSkip, At
    <2>5. CASE PopAdvance(t) \/ ClearAdvance(t) \/ AbortAdvance(t)
      <3>1. th[t].loaded \in Combined /\ th[t].cell \in Combined
        BY ThreadFacts
      <3> QED
        BY <2>5, <3>1, PopAdvances DEF PopAdvance, ClearAdvance, AbortAdvance, At
    <2>6. CASE ClearLoad(t) \/ ClearReserve(t) \/ ClearCommit(t) \/ AbortRead(t)
               \/ AbortCommit(t)
      BY <2>6, ClearLoadStays, ClearReserveSteps, ClearCommitStays, AbortReadPops,
         CommitPopStays
    <2>7. CASE SizeLoadPush(t) \/ SizeLoadPop(t)
      BY <2>7, SizeStays
    <2> QED
      BY <1>3, <2>1, <2>2, <2>3, <2>4, <2>5, <2>6, <2>7 DEF Step
  <1> QED
    BY <1>1, <1>2, <1>3 DEF Next
-----------------------------------------------------------------------------
(* The count of the pushes, and the invariant                              *)

INSTANCE FiniteSetTheorems

Inv == \E H, T \in Nat : IInv(H, T) /\ Counted(T)

\* No more cells are reserved for pushing than pushes were started.
LEMMA AskingFinite == IsFiniteSet(Asking) /\ Cardinality(Asking) \in Nat
  <1>1. IsFiniteSet(Threads) /\ Asking \in SUBSET Threads
    BY QueueAssumption, SMTT(30) DEF Asking
  <1> QED
    BY <1>1, FS_Subset, FS_CardinalityType

LEMMA RoomLeft ==
  ASSUME NEW T \in Nat, TypeOK, Counted(T), NEW t \in Threads, th[t].pc \in PrePush
  PROVE  T < MaxPushes
  <1>1. IsFiniteSet(Asking) /\ Cardinality(Asking) \in Nat
    BY AskingFinite, SMTT(30)
  <1>2. Cardinality(Asking) # 0
    <2>1. Asking # {}
      BY SMTT(30) DEF Asking
    <2> QED
      BY <2>1, <1>1, FS_EmptySet, SMTT(30)
  <1>3. pushes \in Nat /\ pushes <= MaxPushes /\ MaxPushes \in Nat
    BY QueueAssumption, SMTT(30) DEF TypeOK
  <1> QED
    BY <1>1, <1>2, <1>3, SMTT(30) DEF Counted

LEMMA CountedStep ==
  ASSUME NEW H \in Nat, NEW T \in Nat, IInv(H, T), Counted(T), [Next]_vars
  PROVE  /\ Counted(T)'
         /\ Pushes(H, T) => Counted(T + 1)'
  <1> DEFINE A == Asking
             B == Asking'
  <1>1. IsFiniteSet(A) /\ Cardinality(A) \in Nat
    BY AskingFinite, SMTT(30)
  <1>2. TypeOK /\ pushes \in Nat
    <2>1. TypeOK
      BY DEF IInv
    <2>2. pushes \in Nat
      BY <2>1, QueueAssumption, SMTT(30) DEF TypeOK
    <2> QED
      BY <2>1, <2>2
  <1>3. T + Cardinality(A) <= pushes
    BY SMTT(30) DEF Counted
  <1>4. \/ pushes' = pushes /\ B \subseteq A
        \/ \E t \in Threads : pushes' = pushes + 1 /\ B = A \cup {t}
    BY <1>2, AskingFacts, SMTT(30)
  <1>5. Pushes(H, T) => \E t \in Threads : t \in A /\ t \notin B
    BY SMTT(30) DEF Pushes, Asking
  <1>6. Counted(T)' <=> T + Cardinality(B) <= pushes'
    BY SMTT(30) DEF Counted
  <1>7. Counted(T + 1)' <=> T + 1 + Cardinality(B) <= pushes'
    BY SMTT(30) DEF Counted
  <1> HIDE DEF A, B
  <1>8. CASE pushes' = pushes /\ B \subseteq A
    <2>1. IsFiniteSet(B) /\ Cardinality(B) <= Cardinality(A) /\ Cardinality(B) \in Nat
      <3>1. B \in SUBSET A
        BY <1>8, SMTT(30)
      <3> QED
        BY <3>1, <1>1, FS_Subset, FS_CardinalityType
    <2>2. ASSUME NEW t \in A, t \notin B PROVE Cardinality(B) <= Cardinality(A) - 1
      <3>1. A # B
        BY <2>2, SMTT(30)
      <3>2. Cardinality(A) # Cardinality(B)
        <4>1. B \in SUBSET A
          BY <1>8, SMTT(30)
        <4> QED
          BY <3>1, <4>1, <1>1, FS_Subset
      <3> QED
        BY <3>2, <2>1, <1>1, SMTT(30)
    <2> QED
      BY <2>1, <2>2, <1>1, <1>2, <1>3, <1>5, <1>6, <1>7, <1>8, SMTT(30)
  <1>9. ASSUME NEW t \in Threads, pushes' = pushes + 1, B = A \cup {t}
        PROVE  Counted(T)' /\ (Pushes(H, T) => Counted(T + 1)')
    <2>1. ~Pushes(H, T)
      BY <1>5, <1>9, SMTT(30)
    <2>2. Cardinality(B) \in Nat /\ Cardinality(B) <= Cardinality(A) + 1
      <3>1. Cardinality(A \cup {t}) = IF t \in A THEN Cardinality(A) ELSE Cardinality(A) + 1
        BY <1>1, FS_AddElement, SMTT(30)
      <3> QED
        BY <3>1, <1>1, <1>9, SMTT(30)
    <2> QED
      BY <2>1, <2>2, <1>1, <1>2, <1>3, <1>6, <1>9, SMTT(30)
  <1> QED
    BY <1>4, <1>8, <1>9, SMTT(30)

\* Each step keeps the invariant and is a step of the abstract queue.
LEMMA InvStep ==
  ASSUME Inv, [Next]_vars
  PROVE  Inv' /\ [Queue!Next]_Items
  <1>1. PICK H \in Nat, T \in Nat : IInv(H, T) /\ Counted(T)
    BY SMTT(30) DEF Inv
  <1>2. \A t \in Threads : th[t].pc = "pushReserve" => T < MaxPushes
    BY <1>1, RoomLeft, SMTT(30) DEF IInv, PrePush
  <1>3. Stays(H, T) \/ Pushes(H, T) \/ Pops(H, T)
    BY <1>1, <1>2, NextSteps, SMTT(30)
  <1>4. Counted(T)' /\ (Pushes(H, T) => Counted(T + 1)')
    BY <1>1, CountedStep, SMTT(30)
  <1>5. [Queue!Next]_Items
    BY <1>1, <1>3, QueueSteps, SMTT(30)
  <1>6. T + 1 \in Nat /\ H + 1 \in Nat
    BY SMTT(30)
  <1>7. Inv'
    BY <1>3, <1>4, <1>6, SMTT(30) DEF Inv, Stays, Pushes, Pops
  <1> QED
    BY <1>5, <1>7, SMTT(30)

LEMMA InvInit ==
  ASSUME Init
  PROVE  Inv
  <1>1. IInv(0, Filled) /\ Filled \in Nat
    BY InitFacts, QueueAssumption, SMTT(30)
  <1>2. Asking = {} /\ pushes = Filled
    BY SMTT(30) DEF Init, Asking, PrePush, Idle
  <1>3. Counted(Filled)
    BY <1>1, <1>2, FS_EmptySet, SMTT(30) DEF Counted
  <1> QED
    BY <1>1, <1>3, SMTT(30) DEF Inv

LEMMA Invariance == Spec => []Inv
  BY InvInit, InvStep, PTL DEF Spec
-----------------------------------------------------------------------------
(* The theorems                                                            *)

-----------------------------------------------------------------------------
\* Whatever the interleaving of tryPushBack, tryPopFront, undone pushes, disable and
\* enable, the two ring indexes and the cell states implement a first-in first-out queue
\* of at most Capacity elements: a push takes effect when it reserves its cell, a pop
\* when it reserves the head.
THEOREM ImplementsBoundedQueue == Spec => IsBoundedQueue
  <1>1. ASSUME Inv PROVE Queue!Init
    <2>1. PICK H \in Nat, T \in Nat : IInv(H, T)
      BY <1>1, SMTT(30) DEF Inv
    <2>2. LengthIs(H, T)
      BY <2>1, LengthFollows, SMTT(30)
    <2> QED
      BY <2>2, SMTT(30) DEF Queue!Init, LengthIs
  <1>2. ASSUME Inv, [Next]_vars PROVE [Queue!Next]_Items
    BY <1>2, InvStep, SMTT(30)
  <1> QED
    BY <1>1, <1>2, InvInit, Invariance, PTL DEF Spec, IsBoundedQueue, Queue!Spec

\* The assertions of queue_manager.cpp that depend on what other threads did meanwhile
\* hold at the step that evaluates them, and indexes, generations and states stay in range.
THEOREM AssertionsAlwaysHold == Spec => []AssertionsHold
  <1>1. ASSUME Inv PROVE AssertionsHold
    BY <1>1, AssertionsFollow, SMTT(30) DEF Inv
  <1> QED
    BY <1>1, Invariance, PTL

\* tryPopFront returns the element that stood at the head when it reserved the cell: no
\* other thread writes or empties the cell until commitPopIndex.
THEOREM PopsReserved == Spec => []PopsWhatItReserved
  <1>1. ASSUME Inv PROVE PopsWhatItReserved
    BY <1>1 DEF Inv, IInv, ReservedOK, PopsWhatItReserved
  <1> QED
    BY <1>1, Invariance, PTL

\* The cells marked Writing or Full are exactly the elements of the queue: neither index
\* passes over a cell and leaves its element behind.
THEOREM NoElementLost == Spec => []NothingLeftBehind
  <1>1. ASSUME Inv PROVE NothingLeftBehind
    <2>1. PICK H \in Nat, T \in Nat : IInv(H, T)
      BY <1>1, SMTT(30) DEF Inv
    <2> DEFINE S == {i \in Cells : m_states[i].st \in {"Writing", "Full"}}
               P == H .. T - 1
               f == [i \in S |-> Pos(i)]
    <2>2. /\ \A i \in S : Pos(i) \in P
          /\ \A i, j \in S : Pos(i) = Pos(j) => i = j
          /\ \A p \in P : \E i \in S : Pos(i) = p
      BY <2>1, WindowCells, SMTT(30)
    <2>3. LengthIs(H, T)
      BY <2>1, LengthFollows, SMTT(30)
    <2>4. IsFiniteSet(S)
      <3>1. S \in SUBSET (0 .. Capacity - 1)
        BY SMTT(30) DEF Cells
      <3>2. IsFiniteSet(0 .. Capacity - 1)
        BY Sizes, FS_Interval, SMTT(30)
      <3> QED
        BY <3>1, <3>2, FS_Subset
    <2> HIDE DEF S
    <2>5. f \in Bijection(S, P)
      BY <2>2, SMTT(30) DEF Bijection, Injection, Surjection, IsInjective
    <2>6. Cardinality(P) = Cardinality(S)
      <3>1. ExistsBijection(S, P)
        BY <2>5, SMTT(30) DEF ExistsBijection
      <3> QED
        BY <3>1, <2>4, FS_Bijection, SMTT(30)
    <2>7. Cardinality(P) = T - H
      <3>1. T - 1 \in Int
        BY SMTT(30)
      <3>2. Cardinality(P) = IF H > T - 1 THEN 0 ELSE T - 1 - H + 1
        BY <3>1, FS_Interval, SMTT(30)
      <3> QED
        BY <3>2, <2>3, SMTT(30) DEF LengthIs
    <2> QED
      BY <2>3, <2>6, <2>7, SMTT(30) DEF NothingLeftBehind, S, LengthIs
  <1> QED
    BY <1>1, Invariance, PTL

\* As long as disable() was not called, size() is the number of elements whenever no
\* operation is under way, wherever the two indexes stand in their ring.
THEOREM SizeAlwaysCurrent == Spec => []SizeIsCurrent
  <1>1. ASSUME Inv PROVE SizeIsCurrent
    BY <1>1, SizeFollows, SMTT(30) DEF Inv
  <1> QED
    BY <1>1, Invariance, PTL

\* reservePushIndex returns QueueFull only while the queue holds Capacity elements, and
\* reservePopIndex QueueEmpty only while it holds none.
THEOREM FullAndEmptyAlwaysTrue == Spec => FullAndEmptyAreTrue
  <1> DEFINE Reports ==
        \A t \in Threads :
          /\ th[t].pc = "pushReserve" /\ ~th[t].flag /\ th'[t].pc = "idle" => Len(Items) = Capacity
          /\ th[t].pc = "popReserve" /\ th'[t].pc = "idle" => Items = <<>>
  <1>1. ASSUME Inv, [Next]_vars PROVE [Reports]_vars
    <2>1. PICK H \in Nat, T \in Nat : IInv(H, T)
      BY <1>1, SMTT(30) DEF Inv
    <2> QED
      BY <2>1, <1>1, FullAndEmptyFollow, SMTT(30)
  <1>2. [][Reports]_vars => FullAndEmptyAreTrue
    BY SMTT(30) DEF FullAndEmptyAreTrue
  <1> HIDE DEF Reports
  <1> QED
    BY <1>1, <1>2, Invariance, PTL DEF Spec
==============================================================================
