------------------------- MODULE KernelMemory_proofs ------------------------
(***************************************************************************)
(* Proofs about the two memory managers over one memory, for every number  *)
(* of frames and entries, and for every place of the bitmap and of the     *)
(* directory that is laid out like config.h's: both of them where          *)
(* alloc_page finds its frames.                                            *)
(***************************************************************************)
EXTENDS KernelMemory, FiniteSetTheorems, WellFoundedInduction, TLAPS

(***************************************************************************)
(* What the addresses of config.h give: the bytes of the frames up to the  *)
(* directory's lie among the kernel's frames and the first three of        *)
(* alloc_page, which pmm_test takes and leaves; the directory is above     *)
(* those, and not the last frame; the write test of vmm_map_page hits      *)
(* frames of the kernel only, and none of the bitmap.                      *)
(***************************************************************************)
Layout ==
    /\ ByteFrame(DirFrame) < FirstPage + 3 /\ FirstPage + 3 < DirFrame
    /\ DirFrame + 1 < TotalPages
    /\ \A v \in UserPages \cap Frames : v < FirstPage /\ v \notin BitmapFrames

\* The frames alloc_page finds below the directory's, those pmm_test leaves
\* allocated, and the others.
Pool == FirstPage .. (DirFrame - 1)

Kept == FirstPage .. (FirstPage + 2)

Spare == (FirstPage + 3) .. (DirFrame - 1)

Hints == FirstPage .. DirFrame

\* The frames up to the directory's, and where their bytes lie.
Tracked == 0 .. DirFrame

Ledger == BitmapFrame .. ByteFrame(DirFrame)

Memory == [Frames -> [Slots -> Nat]]

\* What the bitmap in m says is in use: the kernel's frames and T.
Taken(m, T) ==
    /\ T \subseteq Pool
    /\ \A i \in Tracked : /\ Byte(m, i) \in {0, 1}
                          /\ Byte(m, i) # 0 <=> i < FirstPage \/ i \in T

Held(m, T) == T \subseteq Spare /\ Taken(m, Kept \cup T)

\* The windows of a directory in m and their tables.
Open(m) == {d \in Slots \ {AliasEntry} : Present(m[DirFrame][d])}

Tab(m, d) == FrameOf(m[DirFrame][d])

Tabs(m) == {Tab(m, d) : d \in Open(m)}

\* A directory as vmm_init and vmm_map_page leave it in m.
Directory(m, own) ==
    /\ m[DirFrame][AliasEntry] = m[DirFrame][0] /\ 0 \in Open(m)
    /\ \A d, e \in Open(m) : Tab(m, d) = Tab(m, e) => d = e
    /\ Tabs(m) \subseteq Spare /\ Tabs(m) \cap own = {}

Good(m, own) == /\ m \in Memory /\ own \subseteq Spare
                /\ Directory(m, own) /\ Held(m, Tabs(m) \cup own)

\* The pages the tables in m map, each window's table once.
Filled(m) == {p \in Open(m) \X Slots : Present(m[Tab(m, p[1])][p[2]])}

IInv ==
    /\ mem \in Memory /\ last_alloc_index \in Hints /\ owned \subseteq Spare
    /\ stage \in {"pmm_test", "vmm_init", "ready"}
    /\ stage = "pmm_test" => /\ last_alloc_index = FirstPage
                             /\ kept = {} /\ Taken(mem, {})
    /\ stage # "pmm_test" => kept = Kept
    /\ stage = "vmm_init" => Held(mem, {})
    /\ ready => Good(mem, owned) /\ total_mapped = Cardinality(Filled(mem))
    /\ ~ready => owned = {} /\ total_mapped = 0

-----------------------------------------------------------------------------
(***************************************************************************)
(* Numbers.                                                                *)
(***************************************************************************)
LEMMA Constants ==
    /\ FirstPage \in Nat /\ FirstPage > 0 /\ FirstPage < TotalPages
    /\ TotalPages \in Nat /\ Entries \in Nat /\ Entries > 0
    /\ AliasEntry \in Slots /\ AliasEntry # 0 /\ 0 \in Slots
    /\ DirFrame \in Frames /\ DirFrame \in Nat /\ DirFrame \notin BitmapFrames
    /\ BitmapFrames \subseteq Frames /\ BitmapFrame \in Nat
    /\ Frames \subseteq Nat
BY MemoryAssumption DEF Frames, Slots

LEMMA Division ==
    ASSUME NEW E \in Nat, E > 0, NEW i \in Nat
    PROVE  /\ i \div E \in Nat /\ i % E \in Nat /\ i % E < E
           /\ i = E * (i \div E) + (i % E)
OBVIOUS

LEMMA DivisionOf ==
    ASSUME NEW E \in Nat, E > 0, NEW q \in Nat, NEW r \in Nat, r < E
    PROVE  (E * q + r) \div E = q /\ (E * q + r) % E = r
<1> DEFINE i == E * q + r
           a == i \div E
           b == i % E
<1>1. r \in Nat /\ r < E /\ E * q \in Nat OBVIOUS
<1>2. i \in Nat BY <1>1
<1>3. a \in Nat /\ b \in Nat /\ b < E /\ i = E * a + b
      BY <1>1, <1>2, Division
<1>4. E * a + b = E * q + r BY <1>3
<1> HIDE DEF a, b, i
<1>5. E * a \in Nat BY <1>1, <1>3
<1>6. ~(a > q)
  <2>1. SUFFICES ASSUME a >= q + 1 PROVE FALSE BY <1>3
  <2>2. E * a >= E * (q + 1) BY <1>1, <1>3, <2>1
  <2>3. E * (q + 1) = E * q + E BY <1>1
  <2> QED BY <1>1, <1>3, <1>4, <1>5, <2>2, <2>3
<1>7. ~(a < q)
  <2>1. SUFFICES ASSUME q >= a + 1 PROVE FALSE BY <1>3
  <2>2. E * q >= E * (a + 1) BY <1>1, <1>3, <2>1
  <2>3. E * (a + 1) = E * a + E BY <1>1, <1>3
  <2> QED BY <1>1, <1>3, <1>4, <1>5, <2>2, <2>3
<1>8. a = q BY <1>3, <1>6, <1>7
<1>9. b = r BY <1>1, <1>3, <1>4, <1>5, <1>8
<1> QED BY <1>8, <1>9 DEF a, b, i

LEMMA DivisionGrows ==
    ASSUME NEW E \in Nat, E > 0, NEW i \in Nat, NEW j \in Nat, i <= j
    PROVE  i \div E <= j \div E
<1> DEFINE a == i \div E
           b == j \div E
<1>1. /\ a \in Nat /\ b \in Nat /\ i % E \in Nat /\ j % E \in Nat /\ j % E < E
      /\ i = E * a + (i % E) /\ j = E * b + (j % E)
      BY Division
<1>2. SUFFICES ASSUME a >= b + 1 PROVE FALSE BY <1>1
<1> HIDE DEF a, b
<1>3. E * a >= E * (b + 1) BY <1>1, <1>2
<1>4. E * (b + 1) = E * b + E BY <1>1
<1>5. E * a \in Nat /\ E * b \in Nat BY <1>1
<1>6. j < E * b + E BY <1>1, <1>5
<1>7. i >= E * a BY <1>1, <1>5
<1> QED BY <1>3, <1>4, <1>5, <1>6, <1>7

\* A number and its place in rows of Entries.
LEMMA Place ==
    ASSUME NEW i \in Nat
    PROVE  /\ i \div Entries \in Nat /\ i % Entries \in Slots
           /\ i = Entries * (i \div Entries) + (i % Entries)
BY Constants, Division DEF Slots

\* A page's window is one of the directory's entries.
LEMMA PageWindow ==
    ASSUME NEW v \in VPages
    PROVE  v \in Nat /\ v \div Entries \in Slots /\ v % Entries \in Slots
<1> DEFINE E == Entries
           q == v \div E
<1>1. E \in Nat /\ E > 0 /\ v \in Nat BY Constants DEF VPages
<1>2. v < E * E BY <1>1 DEF VPages
<1>3. q \in Nat /\ v % E \in Slots /\ E * q <= v
  <2>1. q \in Nat /\ v % E \in Slots /\ v = E * q + (v % E) BY <1>1, Place
  <2>2. E * q \in Nat /\ v % E \in Nat BY <1>1, <2>1 DEF Slots
  <2> QED BY <2>1, <2>2
<1>4. ~(q >= E)
  <2>1. SUFFICES ASSUME q >= E PROVE FALSE OBVIOUS
  <2>2. E * q >= E * E BY <1>1, <1>3, <2>1
  <2>3. E * q \in Nat /\ E * E \in Nat BY <1>1, <1>3
  <2> QED BY <1>1, <1>2, <1>3, <2>2, <2>3
<1> QED BY <1>1, <1>3, <1>4 DEF Slots

\* A set of numbers that is not empty has a least one.
LEMMA Least ==
    ASSUME NEW S \in SUBSET Nat, S # {}
    PROVE  Min(S) \in S /\ \A y \in S : Min(S) <= y
<1>1. \E x \in S : \A y \in S : ~(<<y, x>> \in OpToRel(<, Nat))
      BY NatLessThanWellFounded, WFMin
<1>2. \A x, y \in Nat : <<y, x>> \in OpToRel(<, Nat) <=> y < x
      BY DEF OpToRel
<1>3. \E x \in S : \A y \in S : ~(y < x) BY <1>1, <1>2, Zenon
<1>4. \E x \in S : \A y \in S : x <= y BY <1>3
<1> QED BY <1>4 DEF Min

\* A frame's entry names it, and is present.
LEMMA EntryFacts ==
    ASSUME NEW f \in Nat
    PROVE  Entry(f) \in Nat /\ Present(Entry(f)) /\ FrameOf(Entry(f)) = f
<1> DEFINE P == PAGE_SIZE
<1>1. P \in Nat /\ P > 0 /\ 3 < P /\ P = 4 * Entries
      BY Constants DEF PAGE_SIZE, WORD_SIZE
<1>2. Entry(f) = P * f + 3
      BY <1>1 DEF Entry, PG_WRITABLE, PG_PRESENT
<1>3. P * f = 2 * (2 * (Entries * f)) /\ Entries * f \in Nat
      BY <1>1, Constants
<1> HIDE DEF P
<1>4. (P * f + 3) \div P = f BY <1>1, DivisionOf
<1>5. (P * f + 3) % 2 = 1 BY <1>3
<1> QED BY <1>1, <1>2, <1>3, <1>4, <1>5 DEF Present, PG_PRESENT, FrameOf, P

LEMMA NotPresent == ~Present(0) /\ ~Present(PG_WRITABLE) /\ PG_WRITABLE \in Nat
BY DEF Present, PG_WRITABLE, PG_PRESENT

LEMMA FrameOfNat == ASSUME NEW x \in Nat PROVE FrameOf(x) \in Nat
<1>1. PAGE_SIZE \in Nat /\ PAGE_SIZE > 0
      BY Constants DEF PAGE_SIZE, WORD_SIZE
<1> QED BY <1>1, Division DEF FrameOf

LEMMA Beef == DEADBEEF \in Nat
BY SMT DEF DEADBEEF

-----------------------------------------------------------------------------
(***************************************************************************)
(* The bitmap.                                                             *)
(***************************************************************************)

\* The four bytes of a word.
LEMMA Weights ==
    ASSUME NEW i \in Nat
    PROVE  /\ i % WORD_SIZE \in 0 .. 3
           /\ i % WORD_SIZE = 0 => Weight(i) = 1
           /\ i % WORD_SIZE = 1 => Weight(i) = 256
           /\ i % WORD_SIZE = 2 => Weight(i) = 65536
           /\ i % WORD_SIZE = 3 => Weight(i) = 16777216
BY DEF WORD_SIZE, Weight

\* One weight is above another.
Above(W, V) == \E M \in Nat : M > 0 /\ W = V * (256 * M)

\* A byte of a word, by its weight, and the word with another one.
At(w, W) == (w \div W) % 256

Put(w, W, x) == w + (x - At(w, W)) * W

\* It is the new one,
LEMMA DigitSelf ==
    ASSUME NEW W \in Nat, W > 0, NEW w \in Nat, NEW x \in Nat, x < 256
    PROVE  /\ At(w, W) \in Nat /\ At(w, W) < 256 /\ Put(w, W, x) \in Nat
           /\ At(Put(w, W, x), W) = x
<1> DEFINE q == w \div W
           r == w % W
           h == q \div 256
           g == At(w, W)
<1>1. q \in Nat /\ r \in Nat /\ r < W /\ w = W * q + r BY Division
<1>2. h \in Nat /\ g \in Nat /\ g < 256 /\ q = 256 * h + g
      BY <1>1, Division DEF At
<1> HIDE DEF q, r, h, g
<1> DEFINE k == 256 * h + x
<1>3. k \in Nat /\ k = q + (x - g) BY <1>2
<1>4. k % 256 = x BY <1>2, DivisionOf
<1> HIDE DEF k
<1>5. w + (x - g) * W = W * k + r
  <2>1. W * k = W * q + W * (x - g) BY <1>1, <1>2, <1>3
  <2>2. (x - g) * W = W * (x - g) BY <1>2
  <2>3. W * q \in Int /\ W * (x - g) \in Int BY <1>1, <1>2
  <2> QED BY <1>1, <2>1, <2>2, <2>3
<1>6. (W * k + r) \div W = k BY <1>1, <1>3, DivisionOf
<1>7. W * k + r \in Nat
  <2>1. W * k \in Nat BY <1>3
  <2> QED BY <1>1, <2>1
<1>8. Put(w, W, x) = W * k + r BY <1>5 DEF Put, g
<1>9. At(W * k + r, W) = x BY <1>4, <1>6 DEF At
<1> QED BY <1>2, <1>7, <1>8, <1>9 DEF g

\* the bytes below it stay,
LEMMA DigitBelow ==
    ASSUME NEW V \in Nat, V > 0, NEW W \in Nat, W > 0, Above(W, V),
           NEW w \in Nat, NEW x \in Nat, x < 256
    PROVE  At(Put(w, W, x), V) = At(w, V)
<1> DEFINE y == x - At(w, W)
<1>a. y \in Int /\ w + y * W \in Nat /\ Put(w, W, x) = w + y * W
  <2>1. At(w, W) \in Nat /\ At(w, W) < 256 /\ Put(w, W, x) \in Nat BY DigitSelf
  <2>2. Put(w, W, x) = w + y * W BY DEF Put
  <2>3. y \in Int BY <2>1
  <2> QED BY <2>1, <2>2, <2>3
<1> HIDE DEF y
<1>b. \E M \in Nat : M > 0 /\ W = V * (256 * M) BY DEF Above
<1> PICK M \in Nat : M > 0 /\ W = V * (256 * M) BY <1>b
<1> DEFINE q == w \div V
           r == w % V
           h == q \div 256
           g == q % 256
<1>1. q \in Nat /\ r \in Nat /\ r < V /\ w = V * q + r BY Division
<1>2. h \in Nat /\ g \in Nat /\ g < 256 /\ q = 256 * h + g BY <1>1, Division
<1> HIDE DEF q, r, h, g
<1> DEFINE n == y * M
           k == q + 256 * n
<1>3. n \in Int /\ k \in Int
  <2>1. n \in Int BY <1>a
  <2> HIDE DEF n
  <2> QED BY <1>1, <2>1
<1>4. w + y * W = V * k + r
  <2>1. y * W = V * (256 * n)
    <3>1. M \in Int /\ V \in Int /\ y \in Int BY <1>a
    <3>2. y * (V * (256 * M)) = V * (256 * (y * M)) BY <3>1
    <3> QED BY <3>2
  <2> HIDE DEF n
  <2>2. V * k = V * q + V * (256 * n) BY <1>1, <1>3
  <2>3. V * q \in Int /\ V * (256 * n) \in Int BY <1>1, <1>3
  <2> QED BY <1>1, <2>1, <2>2, <2>3
<1> HIDE DEF n
<1>5. k \in Nat
  <2>1. SUFFICES ASSUME k <= -1 PROVE FALSE BY <1>1, <1>3
  <2> HIDE DEF k
  <2>2. V * k <= V * (-1) BY <1>3, <2>1
  <2>3. V * (-1) = -V /\ V * k \in Int BY <1>3
  <2> QED BY <1>1, <1>4, <1>a, <2>2, <2>3
<1>6. (V * k + r) \div V = k
  <2> HIDE DEF k
  <2> QED BY <1>1, <1>5, DivisionOf
<1>7. k % 256 = g
  <2> DEFINE z == h + n
  <2>1. k = 256 * z + g /\ z \in Int BY <1>2, <1>3
  <2>2. z \in Nat BY <1>2, <1>5, <2>1
  <2> HIDE DEF k, z
  <2> QED BY <1>2, <2>1, <2>2, DivisionOf
<1> HIDE DEF k
<1>8. At(V * k + r, V) = g BY <1>6, <1>7 DEF At
<1>9. At(w, V) = g BY DEF At, g, q
<1> QED BY <1>a, <1>4, <1>8, <1>9

\* and the bytes above it.
LEMMA DigitAbove ==
    ASSUME NEW W \in Nat, W > 0, NEW V \in Nat, V > 0, Above(V, W),
           NEW w \in Nat, NEW x \in Nat, x < 256
    PROVE  At(Put(w, W, x), V) = At(w, V)
<1> PICK M \in Nat : M > 0 /\ V = W * (256 * M) BY DEF Above
<1> DEFINE q == w \div W
           r == w % W
           h == q \div 256
           g == At(w, W)
           a == h \div M
           b == h % M
<1>1. q \in Nat /\ r \in Nat /\ r < W /\ w = W * q + r BY Division
<1>2. h \in Nat /\ g \in Nat /\ g < 256 /\ q = 256 * h + g
      BY <1>1, Division DEF At
<1>3. a \in Nat /\ b \in Nat /\ b < M /\ h = M * a + b BY <1>2, Division
<1> HIDE DEF q, r, h, a, b, g
<1>4. V \in Nat /\ V > 0
  <2>1. 256 * M \in Nat /\ 256 * M > 0 OBVIOUS
  <2> DEFINE K == 256 * M
  <2> HIDE DEF K
  <2>2. W * K \in Nat /\ W * K > 0 BY <2>1 DEF K
  <2> QED BY <2>2 DEF K
<1>5. ASSUME NEW z \in Nat, z < 256
      PROVE  (W * (256 * h + z) + r) \div V = a
  <2> DEFINE u == 256 * b + z
             o == W * u + r
  <2>1. u \in Nat /\ u + 1 <= 256 * M BY <1>3, <1>5, SMT
  <2>2. o \in Nat /\ o < V
    <3> HIDE DEF u
    <3>1. W * (u + 1) <= W * (256 * M)
      <4> DEFINE K == 256 * M
      <4>1. K \in Nat /\ u + 1 <= K BY <2>1
      <4> HIDE DEF K
      <4>2. W * (u + 1) <= W * K BY <2>1, <4>1
      <4> QED BY <4>2 DEF K
    <3>2. W * (u + 1) = W * u + W /\ W * u \in Nat BY <2>1
    <3> QED BY <1>1, <1>4, <3>1, <3>2
  <2>3. W * (256 * h + z) + r = V * a + o
    <3>1. 256 * h + z = (256 * M) * a + u BY <1>3
    <3> HIDE DEF u
    <3>2. W * ((256 * M) * a + u) = (W * (256 * M)) * a + W * u
      <4> DEFINE K == 256 * M
      <4>1. K \in Int OBVIOUS
      <4> HIDE DEF K
      <4>2. W * (K * a + u) = (W * K) * a + W * u BY <1>3, <2>1, <4>1
      <4> QED BY <4>2 DEF K
    <3>3. V * a \in Int /\ W * u \in Int BY <1>3, <1>4, <2>1
    <3> QED BY <1>1, <3>1, <3>2, <3>3
  <2> HIDE DEF o
  <2> QED BY <1>3, <1>4, <2>2, <2>3, DivisionOf
<1>6. w = W * (256 * h + g) + r BY <1>1, <1>2
<1>7. w + (x - g) * W = W * (256 * h + x) + r
  <2> DEFINE k == 256 * h + x
  <2>1. k \in Int /\ k = q + (x - g) BY <1>2
  <2> HIDE DEF k
  <2>2. W * k = W * q + W * (x - g) BY <1>1, <1>2, <2>1
  <2>3. (x - g) * W = W * (x - g) BY <1>2
  <2>4. W * q \in Int /\ W * (x - g) \in Int BY <1>1, <1>2
  <2>5. w + (x - g) * W = W * k + r BY <1>1, <2>2, <2>3, <2>4
  <2> QED BY <2>5 DEF k
<1>8. Put(w, W, x) = W * (256 * h + x) + r BY <1>7 DEF Put, g
<1>9. (W * (256 * h + x) + r) \div V = a BY <1>5
<1>10. (W * (256 * h + g) + r) \div V = a
  <2>1. g \in Nat /\ g < 256 BY <1>2
  <2> HIDE DEF g, h, r, a
  <2> QED BY <2>1, <1>5
<1>11. At(Put(w, W, x), V) = a % 256 BY <1>8, <1>9 DEF At
<1>12. At(w, V) = a % 256 BY <1>6, <1>10 DEF At
<1> QED BY <1>11, <1>12

\* The weights are powers of one another.
LEMMA WeightsApart ==
    ASSUME NEW i \in Nat, NEW j \in Nat, j % WORD_SIZE # i % WORD_SIZE
    PROVE  Above(Weight(i), Weight(j)) \/ Above(Weight(j), Weight(i))
<1> DEFINE n == i % WORD_SIZE
           k == j % WORD_SIZE
           W == Weight(i)
           V == Weight(j)
<1>1. \/ n = 0 /\ W = 1
      \/ n = 1 /\ W = 256
      \/ n = 2 /\ W = 65536
      \/ n = 3 /\ W = 16777216
      BY Weights
<1>2. \/ k = 0 /\ V = 1
      \/ k = 1 /\ V = 256
      \/ k = 2 /\ V = 65536
      \/ k = 3 /\ V = 16777216
      BY Weights
<1>3. n # k OBVIOUS
<1> HIDE DEF n, k, W, V
<1>4. \E M \in {1, 256, 65536} : W = V * (256 * M) \/ V = W * (256 * M)
      BY <1>1, <1>2, <1>3, SMT
<1> QED BY <1>4 DEF W, V, Above

LEMMA DigitFacts ==
    ASSUME NEW w \in Nat, NEW i \in Nat, NEW x \in Nat, x < 256
    PROVE  /\ WithDigit(w, i, x) \in Nat
           /\ Digit(WithDigit(w, i, x), i) = x
           /\ \A j \in Nat : j % WORD_SIZE # i % WORD_SIZE
                 => Digit(WithDigit(w, i, x), j) = Digit(w, j)
<1> DEFINE W == Weight(i)
<1>1. \A j \in Nat : Weight(j) \in Nat /\ Weight(j) > 0 BY Weights
<1>2. WithDigit(w, i, x) = Put(w, W, x)
      BY DEF Digit, WithDigit, Put, At
<1>3. \A u, j : Digit(u, j) = At(u, Weight(j)) BY DEF Digit, At
<1>4. W \in Nat /\ W > 0 BY <1>1
<1>5. ASSUME NEW j \in Nat, j % WORD_SIZE # i % WORD_SIZE
      PROVE  At(Put(w, W, x), Weight(j)) = At(w, Weight(j))
  <2> DEFINE V == Weight(j)
  <2>1. V \in Nat /\ V > 0 BY <1>1
  <2>2. Above(W, V) \/ Above(V, W) BY <1>5, WeightsApart
  <2> HIDE DEF V, W
  <2>3. Above(W, V) => At(Put(w, W, x), V) = At(w, V)
        BY <1>4, <2>1, DigitBelow
  <2>4. Above(V, W) => At(Put(w, W, x), V) = At(w, V)
        BY <1>4, <2>1, DigitAbove
  <2> QED BY <2>2, <2>3, <2>4 DEF V
<1> HIDE DEF W
<1>6. Put(w, W, x) \in Nat /\ At(Put(w, W, x), W) = x
      BY <1>4, DigitSelf
<1> QED BY <1>2, <1>3, <1>5, <1>6 DEF W

LEMMA HighWords ==
    ASSUME NEW n \in Nat, NEW r \in Nat
    PROVE  /\ r < 65536 => (65536 * n + r) \div 65536 = n
           /\ r < 16777216 => (16777216 * n + r) \div 16777216 = n
BY SMT

\* The bytes of a word that is put together.
LEMMA Digits ==
    ASSUME NEW a \in 0 .. 1, NEW b \in 0 .. 1, NEW c \in 0 .. 1,
           NEW d \in 0 .. 1, NEW w, w = a + 256 * b + 65536 * c + 16777216 * d,
           NEW i \in Nat
    PROVE  /\ w \in Nat
           /\ i % WORD_SIZE = 0 => Digit(w, i) = a
           /\ i % WORD_SIZE = 1 => Digit(w, i) = b
           /\ i % WORD_SIZE = 2 => Digit(w, i) = c
           /\ i % WORD_SIZE = 3 => Digit(w, i) = d
<1> DEFINE n1 == c + 256 * d
           n2 == b + 256 * n1
<1>1. n1 \in Nat /\ n2 \in Nat /\ w = 256 * n2 + a
      /\ n2 = 256 * n1 + b /\ n1 = 256 * d + c /\ w \in Nat
      BY SMT
<1>2. w = 65536 * n1 + (a + 256 * b)
      /\ w = 16777216 * d + (a + 256 * b + 65536 * c)
      BY SMT
<1> HIDE DEF n1, n2
<1>3. w % 256 = a /\ w \div 256 = n2 BY <1>1, DivisionOf
<1>4. n2 % 256 = b BY <1>1, DivisionOf
<1>5. w \div 65536 = n1
  <2> DEFINE r == a + 256 * b
  <2>1. r \in Nat /\ r < 65536 BY SMT
  <2> HIDE DEF r
  <2>2. (65536 * n1 + r) \div 65536 = n1 BY <1>1, <2>1, HighWords, SMT
  <2> QED BY <1>2, <2>2, SMT DEF r
<1>6. n1 % 256 = c BY <1>1, DivisionOf
<1>7. w \div 16777216 = d
  <2> DEFINE r == a + 256 * b + 65536 * c
  <2>1. r \in Nat /\ r < 16777216 BY SMT
  <2> HIDE DEF r
  <2>2. (16777216 * d + r) \div 16777216 = d BY <2>1, HighWords, SMT
  <2> QED BY <1>2, <2>2, SMT DEF r
<1>8. d % 256 = d OBVIOUS
<1>9. w \div 1 = w BY <1>1
<1> HIDE DEF n1, n2
<1>10. i % WORD_SIZE = 0 => Digit(w, i) = a
       BY <1>3, <1>9, Weights DEF Digit
<1>11. i % WORD_SIZE = 1 => Digit(w, i) = b
       BY <1>3, <1>4, Weights DEF Digit
<1>12. i % WORD_SIZE = 2 => Digit(w, i) = c
       BY <1>5, <1>6, Weights DEF Digit
<1>13. i % WORD_SIZE = 3 => Digit(w, i) = d
       BY <1>7, <1>8, Weights DEF Digit
<1> QED BY <1>1, <1>10, <1>11, <1>12, <1>13

-----------------------------------------------------------------------------
\* Where the byte of a frame lies.
LEMMA ByteWord ==
    ASSUME NEW i \in Nat
    PROVE  /\ i \div WORD_SIZE \in Nat /\ i % WORD_SIZE \in 0 .. 3
           /\ i = 4 * (i \div WORD_SIZE) + (i % WORD_SIZE)
           /\ ByteFrame(i) \in Nat /\ ByteSlot(i) \in Slots
           /\ i \div WORD_SIZE = Entries * (ByteFrame(i) - BitmapFrame)
                                    + ByteSlot(i)
<1> DEFINE n == i \div WORD_SIZE
<1>1. n \in Nat /\ i % WORD_SIZE \in 0 .. 3 /\ i = 4 * n + (i % WORD_SIZE)
      BY DEF WORD_SIZE
<1> HIDE DEF n
<1> DEFINE q == n \div Entries
           s == n % Entries
<1>2. q \in Nat /\ s \in Slots /\ n = Entries * q + s BY <1>1, Place
<1>3. ByteFrame(i) = BitmapFrame + q /\ ByteSlot(i) = s
      BY DEF ByteFrame, ByteSlot, n
<1> HIDE DEF q, s
<1>4. ByteFrame(i) - BitmapFrame = q /\ ByteFrame(i) \in Nat
      BY <1>2, <1>3, Constants
<1> QED BY <1>1, <1>2, <1>3, <1>4 DEF n

LEMMA ByteUnique ==
    ASSUME NEW i \in Nat, NEW j \in Nat, ByteFrame(i) = ByteFrame(j),
           ByteSlot(i) = ByteSlot(j), i % WORD_SIZE = j % WORD_SIZE
    PROVE  i = j
<1>1. i \div WORD_SIZE = j \div WORD_SIZE BY ByteWord
<1>2. i = 4 * (i \div WORD_SIZE) + (i % WORD_SIZE) BY ByteWord
<1>3. j = 4 * (j \div WORD_SIZE) + (j % WORD_SIZE) BY ByteWord
<1> QED BY <1>1, <1>2, <1>3

LEMMA ByteFrameGrows ==
    ASSUME NEW i \in Nat, NEW j \in Nat, i <= j
    PROVE  ByteFrame(i) <= ByteFrame(j)
<1> DEFINE a == i \div WORD_SIZE
           b == j \div WORD_SIZE
<1>1. a \in Nat /\ b \in Nat /\ a <= b BY DivisionGrows DEF WORD_SIZE
<1> HIDE DEF a, b
<1>2. a \div Entries <= b \div Entries BY <1>1, Constants, DivisionGrows
<1>3. a \div Entries \in Nat /\ b \div Entries \in Nat BY <1>1, Place
<1> QED BY <1>2, <1>3, Constants DEF ByteFrame, a, b

\* Where the parts of the layout are.
LEMMA Parts ==
    ASSUME Layout
    PROVE  /\ Kept \subseteq Pool /\ Spare \subseteq Pool
           /\ Kept \cap Spare = {} /\ Pool \subseteq Kept \cup Spare
           /\ Pool \subseteq Tracked /\ DirFrame \in Tracked
           /\ Tracked \subseteq Frames /\ Pool \subseteq Frames
           /\ Spare \subseteq Frames
           /\ DirFrame \notin Pool /\ 0 \notin Pool /\ DirFrame # 0
           /\ \A i \in Spare : i \in Nat /\ i \notin Ledger /\ i # DirFrame
           /\ DirFrame > FirstPage /\ FirstPage \in Pool
<1>1. /\ FirstPage \in Nat /\ FirstPage > 0 /\ DirFrame \in Nat
      /\ FirstPage + 3 < DirFrame /\ DirFrame + 1 < TotalPages
      /\ TotalPages \in Nat
      BY Constants DEF Layout
<1>2. /\ Kept \subseteq Pool /\ Spare \subseteq Pool
      /\ Kept \cap Spare = {} /\ Pool \subseteq Kept \cup Spare
      BY <1>1 DEF Kept, Pool, Spare
<1>3. /\ Pool \subseteq Tracked /\ DirFrame \in Tracked
      /\ Tracked \subseteq Frames
      BY <1>1 DEF Pool, Tracked, Frames
<1>4. DirFrame \notin Pool /\ 0 \notin Pool BY <1>1 DEF Pool
<1>5. /\ ByteFrame(DirFrame) < FirstPage + 3
      /\ ByteFrame(DirFrame) \in Nat /\ BitmapFrame \in Nat
      BY <1>1, ByteWord, Constants DEF Layout
<1>6. \A i \in Spare : i \in Nat /\ i \notin Ledger /\ i # DirFrame
      BY <1>1, <1>5 DEF Spare, Ledger
<1>7. FirstPage \in Pool BY <1>1 DEF Pool
<1> QED BY <1>1, <1>2, <1>3, <1>4, <1>6, <1>7

\* The byte of a frame up to the directory's is a cell of the ledger's.
LEMMA BytePlace ==
    ASSUME Layout, NEW i \in Tracked
    PROVE  /\ i \in Nat /\ ByteFrame(i) \in Ledger /\ ByteFrame(i) \in Frames
           /\ ByteSlot(i) \in Slots
<1>1. i \in Nat /\ i <= DirFrame /\ DirFrame \in Nat
      BY Constants DEF Tracked
<1>2. ByteFrame(i) <= ByteFrame(DirFrame) BY <1>1, ByteFrameGrows
<1>3. ByteFrame(i) \in Nat /\ ByteFrame(DirFrame) \in Nat BY <1>1, ByteWord
<1>4. BitmapFrame <= ByteFrame(i)
  <2>1. 0 \div WORD_SIZE = 0 /\ 0 \div Entries = 0
        BY Constants DEF WORD_SIZE
  <2>2. ByteFrame(0) = BitmapFrame BY <2>1, Constants DEF ByteFrame
  <2> QED BY <1>1, <2>2, ByteFrameGrows
<1>5. ByteFrame(i) \in Ledger BY <1>2, <1>3, <1>4, Constants DEF Ledger
<1>6. ByteFrame(i) \in Frames
  <2>1. DirFrame <= TotalPages - 1 /\ TotalPages - 1 \in Nat
        BY Constants DEF Frames
  <2>2. ByteFrame(DirFrame) <= ByteFrame(TotalPages - 1)
        /\ ByteFrame(TotalPages - 1) \in Nat
        BY <1>1, <2>1, ByteFrameGrows, ByteWord
  <2>3. ByteFrame(i) \in BitmapFrames
        BY <1>2, <1>3, <1>4, <2>2, Constants DEF BitmapFrames
  <2> QED BY <2>3, Constants
<1> QED BY <1>1, <1>5, <1>6, ByteWord

LEMMA LedgerFrames ==
    ASSUME Layout
    PROVE  Ledger \subseteq BitmapFrames /\ Ledger \subseteq Frames
           /\ DirFrame \notin Ledger
<1>1. DirFrame <= TotalPages - 1 /\ TotalPages - 1 \in Nat /\ DirFrame \in Nat
      BY Constants DEF Frames
<1>2. ByteFrame(DirFrame) <= ByteFrame(TotalPages - 1)
      /\ ByteFrame(TotalPages - 1) \in Nat /\ ByteFrame(DirFrame) \in Nat
      BY <1>1, ByteFrameGrows, ByteWord
<1>3. Ledger \subseteq BitmapFrames
      BY <1>2, Constants DEF Ledger, BitmapFrames
<1> QED BY <1>3, Constants

\* A byte that is written: no other changes, and nothing but the bitmap.
LEMMA SetByteFacts ==
    ASSUME Layout, NEW m \in Memory, NEW i \in Tracked,
           NEW x \in Nat, x < 256
    PROVE  /\ SetByte(m, i, x) \in Memory
           /\ Byte(SetByte(m, i, x), i) = x
           /\ \A j \in Tracked \ {i} : Byte(SetByte(m, i, x), j) = Byte(m, j)
           /\ \A f \in Frames \ Ledger : SetByte(m, i, x)[f] = m[f]
<1> DEFINE b == ByteFrame(i)
           s == ByteSlot(i)
           w == m[b][s]
           y == WithDigit(w, i, x)
           d == [m EXCEPT ![b][s] = y]
<1>1. i \in Nat /\ b \in Ledger /\ b \in Frames /\ s \in Slots
      BY BytePlace
<1>2. w \in Nat BY <1>1 DEF Memory
<1> HIDE DEF w
<1>3. /\ y \in Nat /\ Digit(y, i) = x
      /\ \A j \in Nat : j % WORD_SIZE # i % WORD_SIZE
            => Digit(y, j) = Digit(w, j)
      BY <1>1, <1>2, DigitFacts
<1>4. SetByte(m, i, x) = d BY <1>1 DEF SetByte, w, Memory
<1> HIDE DEF b, s, y
<1>5. /\ d \in Memory /\ d[b][s] = y
      /\ \A f \in Frames \ {b} : d[f] = m[f]
      /\ \A t \in Slots \ {s} : d[b][t] = m[b][t]
      BY <1>1, <1>3 DEF Memory
<1> HIDE DEF d
<1>6. Byte(d, i) = x BY <1>3, <1>5 DEF Byte, b, s
<1>7. ASSUME NEW j \in Tracked \ {i} PROVE Byte(d, j) = Byte(m, j)
  <2>1. j \in Nat /\ ByteFrame(j) \in Frames /\ ByteSlot(j) \in Slots
        BY BytePlace
  <2>2. CASE ByteFrame(j) = b /\ ByteSlot(j) = s
    <3>1. j % WORD_SIZE # i % WORD_SIZE
          BY <1>1, <2>1, <2>2, ByteUnique DEF b, s
    <3>2. Digit(y, j) = Digit(w, j) BY <1>3, <2>1, <3>1
    <3> QED BY <1>5, <2>2, <3>2 DEF Byte, w
  <2>3. CASE ~(ByteFrame(j) = b /\ ByteSlot(j) = s)
    <3>1. d[ByteFrame(j)][ByteSlot(j)] = m[ByteFrame(j)][ByteSlot(j)]
          BY <1>5, <2>1, <2>3
    <3> QED BY <3>1 DEF Byte
  <2> QED BY <2>2, <2>3
<1>8. \A f \in Frames \ Ledger : d[f] = m[f] BY <1>1, <1>5
<1> QED BY <1>4, <1>5, <1>6, <1>7, <1>8

LEMMA SetByteTaken ==
    ASSUME Layout, NEW m \in Memory, NEW T, Taken(m, T), NEW i \in Pool
    PROVE  /\ Taken(SetByte(m, i, 1), T \cup {i})
           /\ Taken(SetByte(m, i, 0), T \ {i})
<1>1. i \in Tracked /\ ~(i < FirstPage)
      BY Constants, Parts DEF Pool
<1> DEFINE a == SetByte(m, i, 0)
           b == SetByte(m, i, 1)
<1>2. Byte(a, i) = 0 /\ \A j \in Tracked \ {i} : Byte(a, j) = Byte(m, j)
      BY <1>1, SetByteFacts
<1>3. Byte(b, i) = 1 /\ \A j \in Tracked \ {i} : Byte(b, j) = Byte(m, j)
      BY <1>1, SetByteFacts
<1> HIDE DEF a, b
<1>4. Taken(a, T \ {i}) BY <1>1, <1>2 DEF Taken
<1>5. Taken(b, T \cup {i}) BY <1>1, <1>3 DEF Taken
<1> QED BY <1>4, <1>5 DEF a, b

LEMMA SetByteHeld ==
    ASSUME Layout, NEW m \in Memory, NEW T, Held(m, T), NEW i \in Spare
    PROVE  /\ Held(SetByte(m, i, 1), T \cup {i})
           /\ Held(SetByte(m, i, 0), T \ {i})
<1>1. i \in Pool /\ i \notin Kept BY Parts
<1>2. /\ (Kept \cup T) \cup {i} = Kept \cup (T \cup {i})
      /\ (Kept \cup T) \ {i} = Kept \cup (T \ {i})
      BY <1>1
<1>3. Taken(m, Kept \cup T) /\ T \subseteq Spare BY DEF Held
<1>4. /\ Taken(SetByte(m, i, 1), (Kept \cup T) \cup {i})
      /\ Taken(SetByte(m, i, 0), (Kept \cup T) \ {i})
      BY <1>1, <1>3, SetByteTaken
<1> QED BY <1>2, <1>3, <1>4 DEF Held

LEMMA TakenSame ==
    ASSUME Layout, NEW m, NEW d, \A f \in Ledger : d[f] = m[f]
    PROVE  /\ \A T : Taken(m, T) => Taken(d, T)
           /\ \A T : Held(m, T) => Held(d, T)
<1>1. \A i \in Tracked : Byte(d, i) = Byte(m, i) BY BytePlace DEF Byte
<1> QED BY <1>1 DEF Taken, Held

\* The search finds a frame below the directory that is free, the lowest one
\* from the hint on, or, when there is none, the directory's (PMM.c:48-86).
LEMMA FoundFree ==
    ASSUME Layout, NEW m, NEW T, Taken(m, T), NEW h \in Hints
    PROVE  /\ Found(m, h) # 0
           /\ Found(m, h) \in Pool \ T \/ Found(m, h) = DirFrame
           /\ h <= Found(m, h)
           /\ \A j \in Pool \ T : h <= j => Found(m, h) <= j
<1> DEFINE ahead == FreeIn(m, h, TotalPages)
           below == FreeIn(m, FirstPage, h)
<1>1. /\ h \in Nat /\ FirstPage <= h /\ h <= DirFrame /\ DirFrame \in Nat
      /\ FirstPage \in Nat /\ FirstPage > 0 /\ TotalPages \in Nat
      /\ DirFrame < TotalPages /\ DirFrame > FirstPage
      BY Constants, Parts DEF Hints, Frames
<1>2. Byte(m, DirFrame) = 0
  <2>1. DirFrame \in Tracked /\ DirFrame \notin T BY Parts DEF Taken
  <2> QED BY <1>1, <2>1 DEF Taken
<1>3. \A j \in Pool : Byte(m, j) = 0 <=> j \notin T
  <2>1. \A j \in Pool : j \in Tracked /\ ~(j < FirstPage)
        BY <1>1, Parts DEF Pool
  <2> QED BY <2>1 DEF Taken
<1>4. DirFrame \in ahead BY <1>1, <1>2 DEF FreeIn
<1>5. \A j \in Pool \ T : h <= j => j \in ahead
      BY <1>1, <1>3 DEF FreeIn, Pool
<1>6. \A j \in ahead : /\ j \in Nat /\ h <= j
                       /\ j < DirFrame => j \in Pool \ T
      BY <1>1, <1>3 DEF FreeIn, Pool
<1>7. Found(m, h) = IF ahead # {} THEN Min(ahead)
                    ELSE IF below # {} THEN Min(below) ELSE 0
      BY DEF Found
<1> HIDE DEF ahead, below
<1>8. ahead \in SUBSET Nat /\ ahead # {} BY <1>4, <1>6
<1>9. Min(ahead) \in ahead /\ \A y \in ahead : Min(ahead) <= y
      BY <1>8, Least
<1>10. Found(m, h) = Min(ahead) BY <1>7, <1>8
<1> DEFINE i == Found(m, h)
<1>11. i \in ahead /\ i <= DirFrame /\ \A y \in ahead : i <= y
       BY <1>4, <1>9, <1>10
<1> HIDE DEF i
<1>12. i \in Nat /\ h <= i /\ (i < DirFrame => i \in Pool \ T)
       BY <1>6, <1>11
<1>13. i # 0 BY <1>1, <1>12
<1>14. i \in Pool \ T \/ i = DirFrame BY <1>1, <1>11, <1>12
<1>15. \A j \in Pool \ T : h <= j => i <= j BY <1>5, <1>11
<1> QED BY <1>12, <1>13, <1>14, <1>15 DEF i

\* What a search takes that has not come past the directory.
LEMMA FoundSpare ==
    ASSUME Layout, NEW m, NEW T, Held(m, T), NEW h \in Hints,
           NextIndex(Found(m, h)) <= DirFrame
    PROVE  /\ Found(m, h) # 0 /\ Found(m, h) \in Spare \ T
           /\ NextIndex(Found(m, h)) = Found(m, h) + 1
           /\ NextIndex(Found(m, h)) \in Hints
           /\ \A j \in Spare \ T : h <= j => Found(m, h) <= j
<1> DEFINE i == Found(m, h)
<1>1. Taken(m, Kept \cup T) BY DEF Held
<1>2. /\ i # 0
      /\ i \in Pool \ (Kept \cup T) \/ i = DirFrame
      /\ \A j \in Pool \ (Kept \cup T) : h <= j => i <= j
      BY <1>1, FoundFree
<1>3. NextIndex(i) <= DirFrame OBVIOUS
<1> HIDE DEF i
<1>4. /\ DirFrame \in Nat /\ TotalPages \in Nat /\ DirFrame + 1 < TotalPages
      /\ FirstPage \in Nat /\ DirFrame > FirstPage
      BY Constants, Parts DEF Layout
<1>5. i # DirFrame BY <1>3, <1>4 DEF NextIndex
<1>6. i \in Pool \ (Kept \cup T) /\ i \in Spare \ T BY <1>2, <1>5, Parts
<1>7. NextIndex(i) = i + 1 /\ i + 1 \in Hints
      BY <1>4, <1>6 DEF NextIndex, Hints, Pool
<1>8. \A j \in Spare \ T : j \in Pool \ (Kept \cup T) BY Parts
<1> QED BY <1>2, <1>6, <1>7, <1>8, Parts DEF i

-----------------------------------------------------------------------------
(***************************************************************************)
(* The directory.                                                          *)
(***************************************************************************)

\* The window whose entry stands for v's: the first one's for its alias.
Home(v) == IF v \div Entries = AliasEntry THEN 0 ELSE v \div Entries

\* A translation, by windows.
LEMMA Translate ==
    ASSUME Layout, NEW m, NEW own, Good(m, own), NEW v \in VPages
    PROVE  /\ Home(v) \in Slots \ {AliasEntry} /\ v % Entries \in Slots
           /\ DirEntry(m, v) = m[DirFrame][Home(v)]
           /\ Present(DirEntry(m, v)) <=> Home(v) \in Open(m)
           /\ Table(m, v) = Tab(m, Home(v))
           /\ Home(v) \in Open(m)
                 => /\ Table(m, v) \in Spare
                    /\ PageEntry(m, v) = m[Tab(m, Home(v))][v % Entries]
<1>1. /\ v \div Entries \in Slots /\ v % Entries \in Slots
      BY PageWindow
<1>2. Home(v) \in Slots \ {AliasEntry} BY <1>1, Constants DEF Home
<1>3. DirEntry(m, v) = m[DirFrame][Home(v)]
      BY DEF DirEntry, Home, Good, Directory
<1>4. Present(DirEntry(m, v)) <=> Home(v) \in Open(m)
      BY <1>2, <1>3 DEF Open
<1>5. Table(m, v) = Tab(m, Home(v)) BY <1>3 DEF Table, Tab
<1>6. Home(v) \in Open(m) => Table(m, v) \in Spare
      BY <1>5 DEF Good, Directory, Tabs
<1>7. Home(v) \in Open(m)
        => PageEntry(m, v) = m[Tab(m, Home(v))][v % Entries]
      BY <1>5, <1>6, Parts DEF PageEntry, Read
<1> QED BY <1>1, <1>2, <1>3, <1>4, <1>5, <1>6, <1>7

\* The frames of tables: none of the kernel's.
LEMMA TablesApart ==
    ASSUME Layout, NEW m, NEW own, Good(m, own), NEW d \in Open(m)
    PROVE  /\ Tab(m, d) \in Spare /\ Tab(m, d) \in Frames
           /\ Tab(m, d) \notin Ledger /\ Tab(m, d) # DirFrame
           /\ Tab(m, d) \notin own
<1>1. Tab(m, d) \in Spare /\ Tab(m, d) \notin own
      BY DEF Good, Directory, Tabs
<1> QED BY <1>1, Parts

\* What is written elsewhere leaves directory and tables as they are.
LEMMA SameTables ==
    ASSUME Layout, NEW m, NEW own, Good(m, own), NEW d \in Memory, NEW now,
           d[DirFrame] = m[DirFrame], \A f \in Tabs(m) : d[f] = m[f],
           Held(d, Tabs(m) \cup now), Tabs(m) \cap now = {}
    PROVE  /\ Good(d, now) /\ Filled(d) = Filled(m) /\ Tabs(d) = Tabs(m)
           /\ \A v \in VPages : vmm_v_to_p(d, v) = vmm_v_to_p(m, v)
<1>1. Open(d) = Open(m) /\ \A w : Tab(d, w) = Tab(m, w)
      BY DEF Open, Tab
<1>2. Tabs(d) = Tabs(m) BY <1>1 DEF Tabs
<1>3. Directory(d, now) BY <1>1, <1>2 DEF Directory, Good
<1>4. Good(d, now) BY <1>2, <1>3 DEF Good, Held
<1>5. \A w \in Open(m) : d[Tab(m, w)] = m[Tab(m, w)] BY DEF Tabs
<1>6. Filled(d) = Filled(m) BY <1>1, <1>5 DEF Filled
<1>7. ASSUME NEW v \in VPages PROVE vmm_v_to_p(d, v) = vmm_v_to_p(m, v)
  <2>1. Present(DirEntry(d, v)) <=> Home(v) \in Open(m)
        BY <1>1, <1>4, Translate
  <2>2. Present(DirEntry(m, v)) <=> Home(v) \in Open(m) BY Translate
  <2>3. ASSUME Home(v) \in Open(m) PROVE PageEntry(d, v) = PageEntry(m, v)
    <3>1. PageEntry(m, v) = m[Tab(m, Home(v))][v % Entries]
          BY <2>3, Translate
    <3>2. PageEntry(d, v) = d[Tab(d, Home(v))][v % Entries]
          BY <1>1, <1>4, <2>3, Translate
    <3> QED BY <1>1, <1>5, <2>3, <3>1, <3>2
  <2> QED BY <2>1, <2>2, <2>3 DEF vmm_v_to_p
<1> QED BY <1>2, <1>4, <1>6, <1>7

LEMMA SameCore ==
    ASSUME Layout, NEW m, NEW own, Good(m, own), NEW d \in Memory,
           \A f \in Ledger : d[f] = m[f],
           d[DirFrame] = m[DirFrame], \A f \in Tabs(m) : d[f] = m[f]
    PROVE  /\ Good(d, own) /\ Filled(d) = Filled(m) /\ Tabs(d) = Tabs(m)
           /\ \A v \in VPages : vmm_v_to_p(d, v) = vmm_v_to_p(m, v)
<1>1. Held(d, Tabs(m) \cup own) BY TakenSame DEF Good
<1>2. Tabs(m) \cap own = {} BY DEF Good, Directory
<1> QED BY <1>1, <1>2, SameTables

\* What becomes of the directory: the windows that are open stay.
Grows(m, d) == \A s \in Slots : Present(m[DirFrame][s])
                                   => d[DirFrame][s] = m[DirFrame][s]

\* A table more: a free frame, cleared and entered (VMM.c:44-62).
LEMMA NewTable ==
    ASSUME Layout, NEW m, NEW own, Good(m, own),
           NEW e \in Slots \ {AliasEntry}, e \notin Open(m),
           NEW t \in Spare \ (Tabs(m) \cup own),
           NEW d, d = [EmptyTable(SetByte(m, t, 1), t)
                          EXCEPT ![DirFrame][e] = Entry(t)]
    PROVE  /\ Good(d, own) /\ Filled(d) = Filled(m)
           /\ Open(d) = Open(m) \cup {e} /\ Tab(d, e) = t
           /\ Tabs(d) = Tabs(m) \cup {t}
           /\ Grows(m, d)
           /\ \A s \in Slots : d[t][s] = 0
           /\ \A v \in VPages : vmm_v_to_p(d, v) = vmm_v_to_p(m, v)
<1> DEFINE b == SetByte(m, t, 1)
           c == EmptyTable(b, t)
<1>1. /\ m \in Memory /\ t \in Spare /\ t \in Frames /\ t \in Nat
      /\ t \notin Ledger /\ t # DirFrame /\ t \notin own
      /\ \A w \in Open(m) : Tab(m, w) # t
      BY Parts DEF Good, Tabs
<1>2. /\ b \in Memory /\ \A f \in Frames \ Ledger : b[f] = m[f]
      /\ Held(b, (Tabs(m) \cup own) \cup {t})
  <2>1. Held(m, Tabs(m) \cup own) BY DEF Good
  <2>2. 1 \in Nat /\ 1 < 256 /\ t \in Tracked BY <1>1, Parts
  <2>3. b \in Memory /\ \A f \in Frames \ Ledger : b[f] = m[f]
        BY <1>1, <2>2, SetByteFacts
  <2>4. Held(b, (Tabs(m) \cup own) \cup {t}) BY <1>1, <2>1, SetByteHeld
  <2> QED BY <2>3, <2>4
<1> HIDE DEF b
<1>3. /\ c \in Memory /\ c[t] = [s \in Slots |-> 0]
      /\ \A f \in Frames \ {t} : c[f] = b[f]
      BY <1>1, <1>2 DEF EmptyTable, Memory
<1> HIDE DEF c
<1>4. Entry(t) \in Nat /\ Present(Entry(t)) /\ FrameOf(Entry(t)) = t
      BY <1>1, EntryFacts
<1>5. /\ d \in Memory /\ d[DirFrame][e] = Entry(t)
      /\ \A f \in Frames \ {DirFrame} : d[f] = c[f]
      /\ \A s \in Slots \ {e} : d[DirFrame][s] = m[DirFrame][s]
  <2>1. d = [c EXCEPT ![DirFrame][e] = Entry(t)] BY DEF b, c
  <2>2. c[DirFrame] = m[DirFrame]
        BY <1>1, <1>2, <1>3, Constants, LedgerFrames
  <2>3. /\ d[DirFrame] = [c[DirFrame] EXCEPT ![e] = Entry(t)]
        /\ d \in [Frames -> [Slots -> Nat]]
        /\ \A f \in Frames \ {DirFrame} : d[f] = c[f]
    <3>1. c \in [Frames -> [Slots -> Nat]] BY <1>3 DEF Memory
    <3>2. DirFrame \in Frames BY Constants
    <3>3. c[DirFrame] \in [Slots -> Nat] BY <3>1, <3>2
    <3>4. [c[DirFrame] EXCEPT ![e] = Entry(t)] \in [Slots -> Nat]
          BY <1>4, <3>3
    <3>5. d = [c EXCEPT ![DirFrame] = [c[DirFrame] EXCEPT ![e] = Entry(t)]]
          BY <2>1
    <3>6. d[DirFrame] = [c[DirFrame] EXCEPT ![e] = Entry(t)]
          BY <3>1, <3>2, <3>5
    <3>7. d \in [Frames -> [Slots -> Nat]]
      <4> DEFINE row == [c[DirFrame] EXCEPT ![e] = Entry(t)]
      <4>1. d = [c EXCEPT ![DirFrame] = row] /\ row \in [Slots -> Nat]
            BY <3>4, <3>5
      <4> HIDE DEF row
      <4> QED BY <3>1, <3>2, <4>1
    <3>8. \A f \in Frames \ {DirFrame} : d[f] = c[f] BY <3>1, <3>5
    <3> QED BY <3>6, <3>7, <3>8
  <2>4. c[DirFrame] \in [Slots -> Nat] BY <1>3, Constants DEF Memory
  <2> QED BY <1>4, <2>2, <2>3, <2>4 DEF Memory
<1>6. Open(d) = Open(m) \cup {e} /\ Tab(d, e) = t
      BY <1>4, <1>5 DEF Open, Tab
<1>7. \A w \in Open(m) : Tab(d, w) = Tab(m, w) BY <1>5 DEF Tab, Open
<1>8. Tabs(d) = Tabs(m) \cup {t} BY <1>6, <1>7 DEF Tabs
<1>9. Held(d, Tabs(d) \cup own)
  <2>1. \A f \in Ledger : d[f] = b[f]
        BY <1>1, <1>3, <1>5, LedgerFrames
  <2>2. (Tabs(m) \cup own) \cup {t} = Tabs(d) \cup own BY <1>8
  <2>3. Held(b, Tabs(d) \cup own) BY <1>2, <2>2
  <2> QED BY <2>1, <2>3, TakenSame
<1>10. Directory(d, own)
  <2>1. d[DirFrame][AliasEntry] = d[DirFrame][0] /\ 0 \in Open(d)
    <3>1. 0 \in Open(m) /\ m[DirFrame][AliasEntry] = m[DirFrame][0]
          BY DEF Good, Directory
    <3>2. e # 0 /\ e # AliasEntry BY <3>1
    <3> QED BY <1>5, <1>6, <3>1, <3>2, Constants
  <2>2. \A w, x \in Open(d) : Tab(d, w) = Tab(d, x) => w = x
    <3>1. \A w, x \in Open(m) : Tab(m, w) = Tab(m, x) => w = x
          BY DEF Good, Directory
    <3> QED BY <1>1, <1>6, <1>7, <3>1
  <2>3. Tabs(d) \subseteq Spare /\ Tabs(d) \cap own = {}
        BY <1>1, <1>8 DEF Good, Directory
  <2> QED BY <2>1, <2>2, <2>3 DEF Directory
<1>11. Good(d, own) BY <1>5, <1>9, <1>10 DEF Good
<1>12. \A s \in Slots : d[t][s] = 0 BY <1>1, <1>3, <1>5
<1>13. \A w \in Open(m) : d[Tab(m, w)] = m[Tab(m, w)]
  <2>1. \A w \in Open(m) : /\ Tab(m, w) \in Frames
                           /\ Tab(m, w) \notin Ledger
                           /\ Tab(m, w) # DirFrame
        BY TablesApart
  <2> QED BY <1>1, <1>2, <1>3, <1>5, <2>1
<1>14. Filled(d) = Filled(m)
  <2>1. \A s \in Slots : ~Present(d[Tab(d, e)][s])
        BY <1>6, <1>12, NotPresent
  <2>2. \A w \in Open(m), s \in Slots :
           d[Tab(d, w)][s] = m[Tab(m, w)][s]
        BY <1>7, <1>13
  <2> QED BY <1>6, <2>1, <2>2 DEF Filled
<1>15. ASSUME NEW v \in VPages PROVE vmm_v_to_p(d, v) = vmm_v_to_p(m, v)
  <2>1. Present(DirEntry(d, v)) <=> Home(v) \in Open(d) BY <1>11, Translate
  <2>2. Present(DirEntry(m, v)) <=> Home(v) \in Open(m) BY Translate
  <2>3. CASE Home(v) \in Open(m)
    <3>1. PageEntry(m, v) = m[Tab(m, Home(v))][v % Entries]
          BY <2>3, Translate
    <3>2. PageEntry(d, v) = d[Tab(d, Home(v))][v % Entries]
          BY <1>6, <1>11, <2>3, Translate
    <3>3. PageEntry(d, v) = PageEntry(m, v)
          BY <1>7, <1>13, <2>3, <3>1, <3>2
    <3> QED BY <1>6, <2>1, <2>2, <2>3, <3>3 DEF vmm_v_to_p
  <2>4. CASE Home(v) = e
    <3>1. PageEntry(d, v) = d[Tab(d, e)][v % Entries] /\ v % Entries \in Slots
          BY <1>6, <1>11, <2>4, Translate
    <3>2. ~Present(PageEntry(d, v)) BY <1>6, <1>12, <3>1, NotPresent
    <3>3. ~Present(DirEntry(m, v)) BY <2>2, <2>4
    <3> QED BY <3>2, <3>3 DEF vmm_v_to_p
  <2>5. CASE Home(v) \notin Open(d)
    BY <1>6, <2>1, <2>2, <2>5 DEF vmm_v_to_p
  <2> QED BY <1>6, <2>3, <2>4, <2>5
<1>16. Grows(m, d) BY <1>5 DEF Grows, Open
<1> QED BY <1>6, <1>8, <1>11, <1>12, <1>14, <1>15, <1>16

\* An entry of a table that is written.
WithEntry(m, e, s, x) == [m EXCEPT ![Tab(m, e)][s] = x]

LEMMA NewEntry ==
    ASSUME Layout, NEW m, NEW own, Good(m, own), NEW e \in Open(m),
           NEW s \in Slots, NEW x \in Nat,
           NEW d, d = WithEntry(m, e, s, x)
    PROVE  /\ Good(d, own) /\ Tabs(d) = Tabs(m)
           /\ d[DirFrame] = m[DirFrame]
           /\ Filled(d) = IF Present(x) THEN Filled(m) \cup {<<e, s>>}
                                        ELSE Filled(m) \ {<<e, s>>}
           /\ \A v \in VPages :
                 vmm_v_to_p(d, v) =
                    IF Home(v) = e /\ v % Entries = s
                    THEN IF Present(x) THEN FrameOf(x) ELSE NONE
                    ELSE vmm_v_to_p(m, v)
<1> DEFINE t == Tab(m, e)
<1>1. /\ m \in Memory /\ t \in Frames
      /\ t \notin Ledger /\ t # DirFrame
      BY TablesApart DEF Good
<1>2. \A w \in Open(m) : Tab(m, w) \in Frames /\ (Tab(m, w) = t => w = e)
      BY TablesApart DEF Good, Directory
<1> HIDE DEF t
<1>3. /\ d \in Memory /\ d[t][s] = x
      /\ \A f \in Frames \ {t} : d[f] = m[f]
      /\ \A u \in Slots \ {s} : d[t][u] = m[t][u]
      BY <1>1 DEF WithEntry, Memory, t
<1>4. d[DirFrame] = m[DirFrame] /\ \A f \in Ledger : d[f] = m[f]
      BY <1>1, <1>3, Constants, LedgerFrames
<1>5. Open(d) = Open(m) /\ \A w : Tab(d, w) = Tab(m, w)
      BY <1>4 DEF Open, Tab
<1>6. Tabs(d) = Tabs(m) BY <1>5 DEF Tabs
<1>7. Good(d, own)
  <2>1. Directory(d, own) BY <1>4, <1>5, <1>6 DEF Good, Directory
  <2>2. Held(m, Tabs(d) \cup own) BY <1>6 DEF Good
  <2>3. Held(d, Tabs(d) \cup own) BY <1>4, <2>2, TakenSame
  <2> QED BY <1>3, <2>1, <2>3 DEF Good
<1>8. \A w \in Open(m), u \in Slots :
         d[Tab(m, w)][u] = IF w = e /\ u = s THEN x ELSE m[Tab(m, w)][u]
      BY <1>2, <1>3 DEF t
<1>9. Filled(d) = IF Present(x) THEN Filled(m) \cup {<<e, s>>}
                                ELSE Filled(m) \ {<<e, s>>}
  <2>1. \A q \in Open(m) \X Slots :
           Present(d[Tab(d, q[1])][q[2]])
              <=> IF q = <<e, s>> THEN Present(x)
                                  ELSE Present(m[Tab(m, q[1])][q[2]])
    <3>1. TAKE q \in Open(m) \X Slots
    <3>2. q[1] \in Open(m) /\ q[2] \in Slots
          /\ (q = <<e, s>> <=> q[1] = e /\ q[2] = s)
          BY <3>1
    <3>3. d[Tab(d, q[1])][q[2]]
             = IF q[1] = e /\ q[2] = s THEN x ELSE m[Tab(m, q[1])][q[2]]
          BY <1>5, <1>8, <3>2
    <3> QED BY <3>2, <3>3
  <2>2. Filled(d) = {q \in Open(m) \X Slots : Present(d[Tab(d, q[1])][q[2]])}
        BY <1>5 DEF Filled
  <2>3. <<e, s>> \in Open(m) \X Slots OBVIOUS
  <2>4. CASE Present(x) BY <2>1, <2>2, <2>3, <2>4 DEF Filled
  <2>5. CASE ~Present(x) BY <2>1, <2>2, <2>3, <2>5 DEF Filled
  <2> QED BY <2>4, <2>5
<1>10. ASSUME NEW v \in VPages
       PROVE  vmm_v_to_p(d, v) = IF Home(v) = e /\ v % Entries = s
                                 THEN IF Present(x) THEN FrameOf(x) ELSE NONE
                                 ELSE vmm_v_to_p(m, v)
  <2>1. Present(DirEntry(d, v)) <=> Home(v) \in Open(m)
        BY <1>5, <1>7, Translate
  <2>2. Present(DirEntry(m, v)) <=> Home(v) \in Open(m) BY Translate
  <2>3. CASE Home(v) \in Open(m)
    <3>1. PageEntry(m, v) = m[Tab(m, Home(v))][v % Entries]
          BY <2>3, Translate
    <3>2. PageEntry(d, v) = d[Tab(m, Home(v))][v % Entries]
          BY <1>5, <1>7, <2>3, Translate
    <3>3. v % Entries \in Slots BY Translate
    <3>4. PageEntry(d, v) = IF Home(v) = e /\ v % Entries = s
                            THEN x ELSE PageEntry(m, v)
          BY <1>8, <2>3, <3>1, <3>2, <3>3
    <3> QED BY <2>1, <2>2, <2>3, <3>4 DEF vmm_v_to_p
  <2>4. CASE Home(v) \notin Open(m) BY <2>1, <2>2, <2>4 DEF vmm_v_to_p
  <2> QED BY <2>3, <2>4
<1> QED BY <1>4, <1>6, <1>7, <1>9, <1>10

\* The write test of vmm_map_page hits nothing that is in use.
LEMMA WriteTest ==
    ASSUME Layout, NEW m, NEW own, Good(m, own), NEW v \in UserPages
    PROVE  LET d == Write(m, v, 0, DEADBEEF)
           IN  /\ Good(d, own) /\ Filled(d) = Filled(m) /\ Tabs(d) = Tabs(m)
               /\ d[DirFrame] = m[DirFrame]
               /\ \A w \in VPages : vmm_v_to_p(d, w) = vmm_v_to_p(m, w)
<1> DEFINE d == Write(m, v, 0, DEADBEEF)
<1>1. CASE v \notin Frames
  <2>1. d = m BY <1>1 DEF Write
  <2> QED BY <2>1
<1>2. CASE v \in Frames
  <2>1. v < FirstPage /\ v \notin Ledger /\ v # DirFrame
    <3>1. v < FirstPage /\ v \notin BitmapFrames BY <1>2 DEF Layout
    <3>2. v # DirFrame BY <3>1, Constants, Parts
    <3> QED BY <3>1, <3>2, LedgerFrames
  <2>2. d = [m EXCEPT ![v][0] = DEADBEEF] BY <1>2 DEF Write
  <2>3. DEADBEEF \in Nat BY Beef
  <2>4. d \in Memory /\ \A f \in Frames \ {v} : d[f] = m[f]
        BY <1>2, <2>2, <2>3, Constants DEF Memory, Good
  <2>5. \A f \in Tabs(m) : f \in Frames /\ f # v
    <3>1. \A f \in Tabs(m) : f \in Spare BY DEF Good, Directory
    <3>2. \A f \in Spare : f \in Nat /\ FirstPage <= f
          BY Constants DEF Spare
    <3>3. v \in Nat /\ FirstPage \in Nat BY <1>2, Constants
    <3>4. \A f \in Spare : f # v BY <2>1, <3>2, <3>3
    <3> QED BY <3>1, <3>4, Parts
  <2> HIDE DEF d
  <2>6. /\ \A f \in Ledger : d[f] = m[f]
        /\ d[DirFrame] = m[DirFrame]
        /\ \A f \in Tabs(m) : d[f] = m[f]
        BY <2>1, <2>4, <2>5, Constants, LedgerFrames
  <2>7. /\ Good(d, own) /\ Filled(d) = Filled(m) /\ Tabs(d) = Tabs(m)
        /\ \A w \in VPages : vmm_v_to_p(d, w) = vmm_v_to_p(m, w)
        BY <2>4, <2>6, SameCore
  <2> QED BY <2>6, <2>7 DEF d
<1> QED BY <1>1, <1>2

LEMMA FilledFinite ==
    ASSUME NEW m
    PROVE  IsFiniteSet(Filled(m)) /\ Cardinality(Filled(m)) \in Nat
<1>1. IsFiniteSet(Slots) BY Constants, FS_Interval DEF Slots
<1>2. IsFiniteSet(Slots \X Slots) BY <1>1, FS_Product
<1>3. Filled(m) \subseteq Slots \X Slots BY DEF Filled, Open
<1> QED BY <1>2, <1>3, FS_Subset, FS_CardinalityType

-----------------------------------------------------------------------------
(***************************************************************************)
(* The steps.                                                              *)
(***************************************************************************)
LEMMA PagesSame ==
    ASSUME ready' = ready,
           ready => \A v \in VPages : vmm_v_to_p(mem', v) = vmm_v_to_p(mem, v)
    PROVE  Pages' = Pages
BY DEF Pages

\* The invariant of a kernel that runs.
LEMMA Running ==
    ASSUME ready
    PROVE  IInv <=> /\ last_alloc_index \in Hints /\ kept = Kept
                    /\ Good(mem, owned)
                    /\ total_mapped = Cardinality(Filled(mem))
BY DEF IInv, Good, ready

\* A byte of the bitmap that changes with the holders it stands for.
LEMMA ByteStep ==
    ASSUME Layout, NEW m, NEW own, Good(m, own), NEW i \in Spare,
           NEW x \in {0, 1}, NEW now, Tabs(m) \cap now = {},
           Held(SetByte(m, i, x), Tabs(m) \cup now)
    PROVE  /\ Good(SetByte(m, i, x), now)
           /\ SetByte(m, i, x)[DirFrame] = m[DirFrame]
           /\ Tabs(SetByte(m, i, x)) = Tabs(m)
           /\ Filled(SetByte(m, i, x)) = Filled(m)
           /\ \A v \in VPages :
                 vmm_v_to_p(SetByte(m, i, x), v) = vmm_v_to_p(m, v)
<1> DEFINE d == SetByte(m, i, x)
<1>1. i \in Tracked /\ m \in Memory /\ x \in Nat /\ x < 256
      BY Parts DEF Good
<1>2. d \in Memory /\ \A f \in Frames \ Ledger : d[f] = m[f]
      BY <1>1, SetByteFacts
<1>3. \A f \in Tabs(m) : f \in Frames /\ f \notin Ledger
      BY TablesApart DEF Tabs
<1>4. d[DirFrame] = m[DirFrame] /\ \A f \in Tabs(m) : d[f] = m[f]
      BY <1>2, <1>3, Constants, LedgerFrames
<1> HIDE DEF d
<1>5. Held(d, Tabs(m) \cup now) BY DEF d
<1>6. /\ Good(d, now) /\ Filled(d) = Filled(m) /\ Tabs(d) = Tabs(m)
      /\ \A v \in VPages : vmm_v_to_p(d, v) = vmm_v_to_p(m, v)
      BY <1>2, <1>4, <1>5, SameTables
<1> QED BY <1>4, <1>6 DEF d

\* alloc_page hands out a frame that nothing is kept in.
LEMMA AllocStep ==
    ASSUME Layout, IInv, ready, alloc_page, Below'
    PROVE  /\ IInv' /\ Pages' = Pages
           /\ mem'[DirFrame] = mem[DirFrame] /\ Tabs(mem') = Tabs(mem)
           /\ LET i == Found(mem, last_alloc_index)
              IN  /\ i \in Spare \ (Tabs(mem) \cup owned)
                  /\ \A j \in Spare \ (Tabs(mem) \cup owned) :
                        last_alloc_index <= j => i <= j
                  /\ owned' = owned \cup {i}
                  /\ last_alloc_index' = i + 1
<1> DEFINE i == Found(mem, last_alloc_index)
<1>1. /\ i # 0 /\ mem' = SetByte(mem, i, 1) /\ owned' = owned \cup {i}
      /\ last_alloc_index' = NextIndex(i) /\ kept' = kept
      /\ total_mapped' = total_mapped /\ ready' = ready
      BY DEF alloc_page, Becomes, Alloc, Now, ready
<1>2. /\ Good(mem, owned) /\ total_mapped = Cardinality(Filled(mem))
      /\ last_alloc_index \in Hints /\ kept = Kept
      BY Running
<1>3. Held(mem, Tabs(mem) \cup owned) /\ mem \in Memory BY <1>2 DEF Good
<1>4. NextIndex(i) <= DirFrame BY <1>1 DEF Below
<1>5. /\ i \in Spare \ (Tabs(mem) \cup owned)
      /\ NextIndex(i) \in Hints /\ NextIndex(i) = i + 1
      /\ \A j \in Spare \ (Tabs(mem) \cup owned) :
            last_alloc_index <= j => i <= j
      BY <1>2, <1>3, <1>4, FoundSpare
<1> HIDE DEF i
<1>6. Held(SetByte(mem, i, 1), Tabs(mem) \cup owned')
  <2>1. (Tabs(mem) \cup owned) \cup {i} = Tabs(mem) \cup owned' BY <1>1
  <2>2. Held(SetByte(mem, i, 1), (Tabs(mem) \cup owned) \cup {i})
        BY <1>3, <1>5, SetByteHeld
  <2> QED BY <2>1, <2>2
<1>7. Tabs(mem) \cap owned' = {} BY <1>1, <1>2, <1>5 DEF Good, Directory
<1>8. /\ Good(mem', owned') /\ Filled(mem') = Filled(mem)
      /\ mem'[DirFrame] = mem[DirFrame] /\ Tabs(mem') = Tabs(mem)
      /\ \A v \in VPages : vmm_v_to_p(mem', v) = vmm_v_to_p(mem, v)
      BY <1>1, <1>2, <1>5, <1>6, <1>7, ByteStep
<1>9. IInv'
  <2>1. /\ stage' = stage /\ last_alloc_index' \in Hints /\ kept' = Kept
        /\ total_mapped' = Cardinality(Filled(mem'))
        BY <1>1, <1>2, <1>5, <1>8 DEF alloc_page
  <2> QED BY <1>8, <2>1 DEF IInv, Good, ready
<1>10. Pages' = Pages BY <1>1, <1>8, PagesSame
<1> QED BY <1>1, <1>5, <1>8, <1>9, <1>10 DEF i

\* pmm_free_page takes back what a caller holds, and no table.
LEMMA FreeStep ==
    ASSUME Layout, IInv, NEW i \in owned, pmm_free_page(i)
    PROVE  /\ IInv' /\ Pages' = Pages /\ ready
           /\ mem'[DirFrame] = mem[DirFrame] /\ Tabs(mem') = Tabs(mem)
           /\ i \in Spare \ Tabs(mem) /\ owned' = owned \ {i}
           /\ last_alloc_index' = IF i < last_alloc_index
                                  THEN i ELSE last_alloc_index
<1>1. ready BY DEF IInv
<1>2. /\ Good(mem, owned) /\ total_mapped = Cardinality(Filled(mem))
      /\ last_alloc_index \in Hints /\ kept = Kept
      BY <1>1, Running
<1>3. /\ Held(mem, Tabs(mem) \cup owned) /\ mem \in Memory
      /\ i \in Spare /\ i \notin Tabs(mem)
      BY <1>2 DEF Good, Directory
<1>4. ~(i < FirstPage) /\ i \in Tracked /\ i \in Nat /\ i \in Hints
      BY <1>3, Constants, Parts DEF Spare, Hints
<1>5. Byte(mem, i) = 1
      BY <1>3, <1>4 DEF Held, Taken
<1>6. /\ owned' = owned \ {i} /\ total_mapped' = total_mapped
      /\ kept' = kept /\ stage' = stage
      /\ mem' = SetByte(mem, i, 0)
      /\ last_alloc_index' = IF i < last_alloc_index
                             THEN i ELSE last_alloc_index
      BY <1>4, <1>5 DEF pmm_free_page, Becomes, Release, Now
<1>7. last_alloc_index' \in Hints BY <1>2, <1>4, <1>6
<1>8. Held(SetByte(mem, i, 0), Tabs(mem) \cup owned')
  <2>1. (Tabs(mem) \cup owned) \ {i} = Tabs(mem) \cup owned'
        BY <1>3, <1>6
  <2>2. Held(SetByte(mem, i, 0), (Tabs(mem) \cup owned) \ {i})
        BY <1>3, SetByteHeld
  <2> QED BY <2>1, <2>2
<1>9. Tabs(mem) \cap owned' = {} BY <1>2, <1>6 DEF Good, Directory
<1>10. /\ Good(mem', owned') /\ Filled(mem') = Filled(mem)
       /\ mem'[DirFrame] = mem[DirFrame] /\ Tabs(mem') = Tabs(mem)
       /\ \A v \in VPages : vmm_v_to_p(mem', v) = vmm_v_to_p(mem, v)
       BY <1>2, <1>3, <1>6, <1>8, <1>9, ByteStep
<1>11. IInv'
  <2>1. kept' = Kept /\ total_mapped' = Cardinality(Filled(mem'))
        BY <1>2, <1>6, <1>10
  <2> QED BY <1>1, <1>6, <1>7, <1>10, <2>1 DEF IInv, Good, ready
<1>12. Pages' = Pages BY <1>6, <1>10, PagesSame DEF ready
<1> QED BY <1>1, <1>3, <1>6, <1>10, <1>11, <1>12

\* Who holds a frame writes to no table, directory or byte that counts.
LEMMA UseStep ==
    ASSUME Layout, IInv, NEW i \in owned, Use(i)
    PROVE  /\ IInv' /\ Pages' = Pages /\ ready
           /\ mem'[DirFrame] = mem[DirFrame] /\ Tabs(mem') = Tabs(mem)
           /\ UNCHANGED <<owned, last_alloc_index>>
<1>1. ready BY DEF IInv
<1>2. /\ Good(mem, owned) /\ total_mapped = Cardinality(Filled(mem))
      /\ last_alloc_index \in Hints /\ kept = Kept
      BY <1>1, Running
<1>3. /\ mem \in Memory /\ i \in Spare /\ i \in Frames /\ i \notin Ledger
      /\ i # DirFrame
      BY <1>2, Parts DEF Good
<1>4. UNCHANGED <<last_alloc_index, total_mapped, stage, kept, owned>>
      BY DEF Use
<1>5. mem' \in Memory /\ \A f \in Frames \ {i} : mem'[f] = mem[f]
      BY <1>3, Beef DEF Use, Memory
<1>6. /\ \A f \in Ledger : mem'[f] = mem[f]
      /\ mem'[DirFrame] = mem[DirFrame]
      BY <1>3, <1>5, Constants, LedgerFrames
<1>7. \A f \in Tabs(mem) : f \in Frames /\ f # i
      BY <1>2, Parts DEF Good, Directory
<1>8. \A f \in Tabs(mem) : mem'[f] = mem[f] BY <1>5, <1>7
<1>9. /\ Good(mem', owned) /\ Filled(mem') = Filled(mem)
      /\ Tabs(mem') = Tabs(mem)
      /\ \A v \in VPages : vmm_v_to_p(mem', v) = vmm_v_to_p(mem, v)
      BY <1>2, <1>5, <1>6, <1>8, SameCore
<1>10. IInv'
  <2>1. Good(mem', owned') /\ total_mapped' = Cardinality(Filled(mem'))
        BY <1>2, <1>4, <1>9
  <2> QED BY <1>1, <1>2, <1>4, <2>1 DEF IInv, Good, ready
<1>11. Pages' = Pages BY <1>4, <1>9, PagesSame DEF ready
<1> QED BY <1>1, <1>4, <1>6, <1>9, <1>10, <1>11

\* alloc_page on a frame that is free at the hint.
LEMMA AllocAtHint ==
    ASSUME Layout, NEW m \in Memory, NEW T, Taken(m, T), NEW h \in Pool \ T,
           NEW s, s = [mem |-> m, hint |-> h]
    PROVE  /\ Found(s.mem, s.hint) = h
           /\ Alloc(s) = [mem |-> SetByte(m, h, 1), hint |-> h + 1]
           /\ SetByte(m, h, 1) \in Memory
           /\ Taken(SetByte(m, h, 1), T \cup {h})
<1>1. /\ h \in Hints /\ h \in Nat /\ h # 0 /\ h < DirFrame
      /\ DirFrame \in Nat /\ DirFrame + 1 < TotalPages /\ TotalPages \in Nat
      BY Constants, Parts DEF Pool, Hints, Layout
<1>2. Found(m, h) = h
  <2> DEFINE i == Found(m, h)
  <2>1. /\ h <= i
        /\ i \in Pool \/ i = DirFrame
        /\ \A j \in Pool \ T : h <= j => i <= j
        BY <1>1, FoundFree
  <2> HIDE DEF i
  <2>2. i \in Nat BY <1>1, <2>1, Parts DEF Pool
  <2>3. i <= h /\ h <= i BY <1>1, <2>1
  <2>4. i = h BY <1>1, <2>2, <2>3
  <2> QED BY <2>4 DEF i
<1>3. NextIndex(h) = h + 1 BY <1>1 DEF NextIndex
<1>4. SetByte(m, h, 1) \in Memory
  <2>1. h \in Tracked /\ 1 \in Nat /\ 1 < 256 BY Parts
  <2> QED BY <2>1, SetByteFacts
<1>5. Taken(SetByte(m, h, 1), T \cup {h}) BY SetByteTaken
<1>6. s.mem = m /\ s.hint = h OBVIOUS
<1> QED BY <1>1, <1>2, <1>3, <1>4, <1>5, <1>6 DEF Alloc

\* pmm_test leaves the first three frames allocated.
LEMMA TestStep ==
    ASSUME Layout, IInv, pmm_test
    PROVE  /\ IInv' /\ Pages' = Pages /\ ~ready
           /\ Taken(mem, {}) /\ Taken(mem', Kept)
           /\ kept' = Kept /\ last_alloc_index' = FirstPage + 2
<1> DEFINE F == FirstPage
           m1 == SetByte(mem, F, 1)
           m2 == SetByte(m1, F + 1, 1)
           m3 == SetByte(m2, F + 2, 1)
           m4 == SetByte(m3, F + 1, 0)
           m5 == SetByte(m4, F + 1, 1)
           one == Alloc(Now)
           two == Alloc(one)
           three == Alloc(two)
           freed == Release(three, Found(one.mem, one.hint))
<1>1. /\ stage = "pmm_test" /\ stage' = "vmm_init"
      /\ Becomes(Alloc(freed))
      /\ kept' = {Found(s.mem, s.hint) : s \in {Now, two, freed}} \ {0}
      /\ UNCHANGED <<total_mapped, owned>>
      BY DEF pmm_test
<1>2. /\ mem \in Memory /\ last_alloc_index = F /\ Taken(mem, {})
      /\ owned = {} /\ total_mapped = 0 /\ ~ready
      BY <1>1 DEF IInv, ready
<1>3. /\ F \in Nat /\ F > 0 /\ F \in Pool /\ F + 1 \in Pool /\ F + 2 \in Pool
      /\ Kept = {F, F + 1, F + 2} /\ F + 2 \in Hints
      BY Constants DEF Pool, Kept, Layout, Hints
<1>4. Now = [mem |-> mem, hint |-> F] BY <1>2 DEF Now
<1> HIDE DEF one, F
<1>5. /\ Found(Now.mem, Now.hint) = F /\ one = [mem |-> m1, hint |-> F + 1]
      /\ m1 \in Memory /\ Taken(m1, {F})
  <2>1. {} \cup {F} = {F} /\ F \in Pool \ {} BY <1>3
  <2> QED BY <1>2, <1>4, <2>1, AllocAtHint DEF one
<1> HIDE DEF m1, two
<1>6. /\ Found(one.mem, one.hint) = F + 1
      /\ two = [mem |-> m2, hint |-> F + 1 + 1]
      /\ m2 \in Memory /\ Taken(m2, {F, F + 1})
  <2>1. {F} \cup {F + 1} = {F, F + 1} /\ F + 1 \in Pool \ {F} BY <1>3
  <2> QED BY <1>5, <2>1, AllocAtHint DEF two
<1> HIDE DEF m2, three
<1>7. /\ Found(two.mem, two.hint) = F + 2
      /\ three = [mem |-> m3, hint |-> F + 2 + 1]
      /\ m3 \in Memory /\ Taken(m3, {F, F + 1, F + 2})
  <2>1. /\ {F, F + 1} \cup {F + 2} = {F, F + 1, F + 2}
        /\ F + 2 \in Pool \ {F, F + 1} /\ F + 1 + 1 = F + 2
        BY <1>3
  <2> QED BY <1>6, <2>1, AllocAtHint DEF three
<1> HIDE DEF m3, freed
<1>8. /\ freed = [mem |-> m4, hint |-> F + 1]
      /\ m4 \in Memory /\ Taken(m4, {F, F + 2})
  <2>1. /\ F + 1 \in Tracked /\ ~(F + 1 < FirstPage) /\ F + 1 < F + 2 + 1
        /\ 0 \in Nat /\ 0 < 256
        BY <1>3, Parts DEF F
  <2>2. Byte(m3, F + 1) = 1 BY <1>7, <2>1 DEF Taken
  <2>3. freed = [mem |-> m4, hint |-> F + 1]
        BY <1>6, <1>7, <2>1, <2>2 DEF freed, Release
  <2>4. m4 \in Memory BY <1>7, <2>1, SetByteFacts
  <2>5. {F, F + 1, F + 2} \ {F + 1} = {F, F + 2} BY <1>3
  <2>6. Taken(m4, {F, F + 2}) BY <1>3, <1>7, <2>5, SetByteTaken
  <2> QED BY <2>3, <2>4, <2>6
<1> HIDE DEF m4
<1>9. /\ Found(freed.mem, freed.hint) = F + 1
      /\ Alloc(freed) = [mem |-> m5, hint |-> F + 1 + 1]
      /\ m5 \in Memory /\ Taken(m5, Kept)
  <2>1. {F, F + 2} \cup {F + 1} = Kept /\ F + 1 \in Pool \ {F, F + 2}
        BY <1>3
  <2> QED BY <1>8, <2>1, AllocAtHint
<1> HIDE DEF m5
<1>10. mem' = m5 /\ last_alloc_index' = F + 2
       BY <1>1, <1>3, <1>9 DEF Becomes
<1>11. kept' = Kept
  <2>1. kept' = {F, F + 2, F + 1} \ {0} BY <1>1, <1>5, <1>7, <1>9
  <2> QED BY <1>3, <2>1
<1>12. Held(mem', {})
  <2>1. Kept \cup {} = Kept OBVIOUS
  <2> QED BY <1>9, <1>10, <2>1 DEF Held
<1>13. IInv' BY <1>1, <1>2, <1>3, <1>9, <1>10, <1>11, <1>12 DEF IInv, ready
<1>14. Pages' = Pages BY <1>1, <1>2, PagesSame DEF ready
<1> QED BY <1>2, <1>9, <1>10, <1>11, <1>13, <1>14 DEF F

\* The space as vmm_init hands it over: the first frames, twice.
LEMMA InitStep ==
    ASSUME Layout, IInv, vmm_init, Below'
    PROVE  /\ IInv' /\ ~ready
           /\ Pages = [v \in VPages |-> NONE]
           /\ Pages' = [v \in VPages |-> IF Home(v) = 0 THEN v % Entries
                                                        ELSE NONE]
           /\ Held(mem, {}) /\ UNCHANGED owned
           /\ \E t \in Spare : /\ Tabs(mem') = {t}
                               /\ \A j \in Spare : last_alloc_index <= j => t <= j
                               /\ last_alloc_index' = t + 1
<1> DEFINE m == Cleared(mem)
           t == Found(m, last_alloc_index)
           b == SetByte(m, t, 1)
           c == FirstTable(b, t)
<1>1. /\ stage = "vmm_init" /\ ~ready /\ mem \in Memory
      /\ last_alloc_index \in Hints /\ kept = Kept
      /\ owned = {} /\ total_mapped = 0 /\ Held(mem, {})
      BY DEF vmm_init, IInv, ready
<1>2. DirFrame \in Frames /\ 0 \in Slots /\ AliasEntry \in Slots
      /\ AliasEntry # 0
      BY Constants
<1>3. /\ m \in Memory /\ m[DirFrame] = [s \in Slots |-> PG_WRITABLE]
      /\ \A f \in Frames \ {DirFrame} : m[f] = mem[f]
      BY <1>1, <1>2, NotPresent DEF Cleared, Memory
<1>4. Held(m, {})
  <2>1. \A f \in Ledger : m[f] = mem[f] BY <1>3, LedgerFrames
  <2> HIDE DEF m
  <2> QED BY <1>1, <2>1, TakenSame
<1>5. t # 0
  <2>1. Taken(m, Kept \cup {}) BY <1>4 DEF Held
  <2> HIDE DEF m
  <2> QED BY <1>1, <2>1, FoundFree
<1>6. /\ stage' = "ready" /\ owned' = owned /\ kept' = kept
      /\ last_alloc_index' = NextIndex(t)
      /\ total_mapped' = Entries
      /\ mem' = [c EXCEPT ![DirFrame][0] = Entry(t),
                          ![DirFrame][AliasEntry] = Entry(t)]
      BY <1>5 DEF vmm_init
<1> HIDE DEF m
<1>7. NextIndex(t) <= DirFrame BY <1>6 DEF Below
<1>8. /\ t \in Spare /\ NextIndex(t) \in Hints /\ NextIndex(t) = t + 1
      /\ \A j \in Spare : last_alloc_index <= j => t <= j
      BY <1>1, <1>4, <1>7, FoundSpare
<1> HIDE DEF t
<1>9. t \in Frames /\ t \in Nat /\ t \notin Ledger /\ t # DirFrame
      BY <1>8, Parts
<1>10. /\ b \in Memory /\ \A f \in Frames \ Ledger : b[f] = m[f]
       /\ Held(b, {t})
  <2>1. 1 \in Nat /\ 1 < 256 /\ t \in Tracked BY <1>8, Parts
  <2>2. b \in Memory /\ \A f \in Frames \ Ledger : b[f] = m[f]
        BY <1>3, <2>1, SetByteFacts
  <2>3. {} \cup {t} = {t} OBVIOUS
  <2>4. Held(b, {} \cup {t}) BY <1>3, <1>4, <1>8, SetByteHeld
  <2> QED BY <2>2, <2>3, <2>4
<1> HIDE DEF b
<1>11. \A s \in Slots : Entry(s) \in Nat BY Constants, EntryFacts DEF Slots
<1>12. /\ c \in Memory /\ c[t] = [s \in Slots |-> Entry(s)]
       /\ \A f \in Frames \ {t} : c[f] = b[f]
       BY <1>9, <1>10, <1>11 DEF FirstTable, Memory
<1>13. c[DirFrame] = [s \in Slots |-> PG_WRITABLE]
       BY <1>2, <1>3, <1>9, <1>10, <1>12, LedgerFrames
<1>14. Entry(t) \in Nat /\ Present(Entry(t)) /\ FrameOf(Entry(t)) = t
       BY <1>9, EntryFacts
<1> HIDE DEF c
<1>15. /\ mem' \in Memory /\ \A f \in Frames \ {DirFrame} : mem'[f] = c[f]
       /\ \A s \in Slots : mem'[DirFrame][s] =
             IF s \in {0, AliasEntry} THEN Entry(t) ELSE PG_WRITABLE
  <2>1. c \in [Frames -> [Slots -> Nat]] BY <1>12 DEF Memory
  <2>2. c[DirFrame] \in [Slots -> Nat] BY <1>2, <2>1
  <2> DEFINE r == [c[DirFrame] EXCEPT ![0] = Entry(t),
                                      ![AliasEntry] = Entry(t)]
  <2>3. r \in [Slots -> Nat] BY <1>14, <2>2
  <2>4. \A s \in Slots : r[s] = IF s \in {0, AliasEntry} THEN Entry(t)
                                                         ELSE PG_WRITABLE
        BY <1>2, <1>13, <2>2
  <2>5. mem' = [c EXCEPT ![DirFrame] = r] BY <1>2, <1>6, <2>1
  <2> HIDE DEF r
  <2>6. /\ mem' \in [Frames -> [Slots -> Nat]] /\ mem'[DirFrame] = r
        /\ \A f \in Frames \ {DirFrame} : mem'[f] = c[f]
        BY <1>2, <2>1, <2>3, <2>5
  <2> QED BY <2>4, <2>6 DEF Memory
<1>16. Open(mem') = {0} /\ Tab(mem', 0) = t
       BY <1>2, <1>14, <1>15, NotPresent DEF Open, Tab
<1>17. Tabs(mem') = {t} BY <1>16 DEF Tabs
<1>18. Held(mem', Tabs(mem') \cup {})
  <2>1. \A f \in Ledger : mem'[f] = b[f]
        BY <1>9, <1>12, <1>15, LedgerFrames
  <2>2. Tabs(mem') \cup {} = {t} BY <1>17
  <2> QED BY <1>10, <2>1, <2>2, TakenSame
<1>19. Good(mem', {})
  <2>1. Directory(mem', {})
        BY <1>2, <1>8, <1>15, <1>16, <1>17 DEF Directory
  <2> QED BY <1>15, <1>18, <2>1 DEF Good
<1>20. \A s \in Slots : mem'[t][s] = Entry(s) BY <1>9, <1>12, <1>15
<1>21. \A s \in Slots : Present(Entry(s)) /\ FrameOf(Entry(s)) = s
       BY Constants, EntryFacts DEF Slots
<1>22. Cardinality(Filled(mem')) = Entries
  <2>1. Filled(mem') = {0} \X Slots
    <3>1. \A q \in {0} \X Slots : q[1] = 0 /\ q[2] \in Slots OBVIOUS
    <3>2. \A q \in {0} \X Slots : Present(mem'[Tab(mem', q[1])][q[2]])
          BY <1>16, <1>20, <1>21, <3>1
    <3>3. Filled(mem') =
             {q \in {0} \X Slots : Present(mem'[Tab(mem', q[1])][q[2]])}
          BY <1>16 DEF Filled
    <3> QED BY <3>2, <3>3
  <2>2. IsFiniteSet(Slots) /\ Cardinality(Slots) = Entries
        BY Constants, FS_Interval DEF Slots
  <2>3. IsFiniteSet({0}) /\ Cardinality({0}) = 1 BY FS_Singleton
  <2>4. Cardinality({0} \X Slots) = 1 * Entries
        BY <2>2, <2>3, FS_Product
  <2> QED BY <2>1, <2>4, Constants
<1>23. IInv'
  <2>1. Good(mem', owned') /\ total_mapped' = Cardinality(Filled(mem'))
        BY <1>1, <1>6, <1>19, <1>22
  <2> QED BY <1>1, <1>6, <1>8, <2>1 DEF IInv, Good, ready
<1>24. Pages = [v \in VPages |-> NONE] BY <1>1 DEF Pages
<1>25. ASSUME NEW v \in VPages
       PROVE  vmm_v_to_p(mem', v) = IF Home(v) = 0 THEN v % Entries ELSE NONE
  <2>1. /\ Present(DirEntry(mem', v)) <=> Home(v) = 0
        /\ v % Entries \in Slots
        BY <1>16, <1>19, Translate
  <2>2. Home(v) = 0 => PageEntry(mem', v) = mem'[t][v % Entries]
        BY <1>16, <1>19, Translate
  <2> QED BY <1>20, <1>21, <2>1, <2>2 DEF vmm_v_to_p
<1>26. Pages' = [v \in VPages |-> IF Home(v) = 0 THEN v % Entries ELSE NONE]
       BY <1>6, <1>25 DEF Pages, ready
<1> QED BY <1>1, <1>6, <1>8, <1>17, <1>23, <1>24, <1>26

\* A table that is made for a page, from the lowest free frame.
Extends(m, d, t) == /\ t \in Spare \ (Tabs(m) \cup owned)
                    /\ Tabs(d) = Tabs(m) \cup {t}
                    /\ last_alloc_index' = t + 1
                    /\ \A j \in Spare \ (Tabs(m) \cup owned) :
                          last_alloc_index <= j => t <= j

\* What vmm_map_page writes into: a memory with a table for the page.
LEMMA TableMade ==
    ASSUME Layout, IInv, ready, NEW v \in VPages, ~NoTable(v), Below',
           last_alloc_index' = IF Present(DirEntry(mem, v))
                               THEN last_alloc_index
                               ELSE NextIndex(Found(mem, last_alloc_index))
    PROVE  /\ Good(WithTable(v), owned) /\ Home(v) \in Open(WithTable(v))
           /\ Filled(WithTable(v)) = Filled(mem)
           /\ \A w \in VPages :
                 vmm_v_to_p(WithTable(v), w) = vmm_v_to_p(mem, w)
           /\ last_alloc_index' \in Hints
           /\ Grows(mem, WithTable(v))
           /\ \/ /\ Tabs(WithTable(v)) = Tabs(mem)
                 /\ last_alloc_index' = last_alloc_index
              \/ \E t \in Spare : Extends(mem, WithTable(v), t)
<1>1. Good(mem, owned) /\ last_alloc_index \in Hints BY Running
<1>2. Present(DirEntry(mem, v)) <=> Home(v) \in Open(mem)
      BY <1>1, Translate
<1>3. CASE Present(DirEntry(mem, v))
  <2>1. WithTable(v) = mem BY <1>3 DEF WithTable
  <2>2. last_alloc_index' = last_alloc_index BY <1>3
  <2> QED BY <1>1, <1>2, <1>3, <2>1, <2>2 DEF Grows
<1>4. CASE ~Present(DirEntry(mem, v))
  <2> DEFINE t == Found(mem, last_alloc_index)
             e == v \div Entries
             d == [EmptyTable(SetByte(mem, t, 1), t)
                      EXCEPT ![DirFrame][e] = Entry(t)]
  <2>1. last_alloc_index' = NextIndex(t) BY <1>4
  <2>2. NextIndex(t) <= DirFrame BY <2>1 DEF Below
  <2>3. /\ t \in Spare \ (Tabs(mem) \cup owned)
        /\ NextIndex(t) \in Hints /\ NextIndex(t) = t + 1
        /\ \A j \in Spare \ (Tabs(mem) \cup owned) :
              last_alloc_index <= j => t <= j
    <3>1. Held(mem, Tabs(mem) \cup owned) BY <1>1 DEF Good
    <3> QED BY <1>1, <2>2, <3>1, FoundSpare
  <2>4. e \in Slots \ {AliasEntry} /\ e \notin Open(mem) /\ Home(v) = e
    <3>1. 0 \in Open(mem) BY <1>1 DEF Good, Directory
    <3>2. e # AliasEntry BY <1>2, <1>4, <3>1 DEF Home
    <3> QED BY <1>2, <1>4, <3>2, PageWindow DEF Home
  <2>5. WithTable(v) = d BY <1>4 DEF WithTable
  <2> HIDE DEF t, e
  <2>6. /\ Good(d, owned) /\ Filled(d) = Filled(mem)
        /\ Open(d) = Open(mem) \cup {e}
        /\ Tabs(d) = Tabs(mem) \cup {t}
        /\ Grows(mem, d)
        /\ \A w \in VPages : vmm_v_to_p(d, w) = vmm_v_to_p(mem, w)
    <3>1. Layout /\ Good(mem, owned) /\ t \in Spare \ (Tabs(mem) \cup owned)
          BY <1>1, <2>3
    <3>2. d = [EmptyTable(SetByte(mem, t, 1), t)
                  EXCEPT ![DirFrame][e] = Entry(t)]
          OBVIOUS
    <3> HIDE DEF d
    <3> QED BY <3>1, <3>2, <2>4, NewTable
  <2> HIDE DEF d
  <2>7. Extends(mem, d, t) BY <2>1, <2>3, <2>6 DEF Extends
  <2> QED BY <2>1, <2>3, <2>4, <2>5, <2>6, <2>7
<1> QED BY <1>3, <1>4

\* A page, under both its names, that gets x.
OnePage(v, x) ==
    Pages' = [w \in VPages |-> IF Home(w) = Home(v) /\ w % Entries = v % Entries
                               THEN x ELSE Pages[w]]

LEMMA MapStep ==
    ASSUME Layout, IInv, NEW v \in UserPages, NEW p \in owned,
           vmm_map_page(v, p), Below'
    PROVE  /\ IInv' /\ ready
           /\ Pages[v] = NONE => OnePage(v, p)
           /\ Pages[v] # NONE => Pages' = Pages
           /\ Grows(mem, mem') /\ UNCHANGED owned
           /\ \/ /\ Tabs(mem') = Tabs(mem)
                 /\ last_alloc_index' = last_alloc_index
              \/ \E t \in Spare : Extends(mem, mem', t)
<1>1. /\ ready /\ ready' = ready /\ owned' = owned /\ kept' = kept
      /\ stage' = stage
      /\ mem \in Memory /\ last_alloc_index \in Hints /\ kept = Kept
      /\ owned \subseteq Spare /\ Good(mem, owned)
      /\ total_mapped = Cardinality(Filled(mem))
      BY DEF vmm_map_page, IInv, ready
<1>2. v \in VPages BY MemoryAssumption DEF VPages
<1>3. CASE NoTable(v)
  <2>1. Taken(mem, Kept \cup (Tabs(mem) \cup owned)) BY <1>1 DEF Good, Held
  <2>2. Found(mem, last_alloc_index) # 0 BY <1>1, <2>1, FoundFree
  <2> QED BY <1>3, <2>2 DEF NoTable
<1>4. CASE ~NoTable(v)
  <2> DEFINE W == WithTable(v)
             e == Home(v)
             s == v % Entries
             Same(d) == \/ /\ Tabs(d) = Tabs(mem)
                           /\ last_alloc_index' = last_alloc_index
                        \/ \E t \in Spare : Extends(mem, d, t)
  <2>1. PutPage(W, v, p)
        /\ last_alloc_index' = IF Present(DirEntry(mem, v))
                               THEN last_alloc_index
                               ELSE NextIndex(Found(mem, last_alloc_index))
        BY <1>4 DEF vmm_map_page
  <2>2. /\ Good(W, owned) /\ e \in Open(W) /\ Filled(W) = Filled(mem)
        /\ \A w \in VPages : vmm_v_to_p(W, w) = vmm_v_to_p(mem, w)
        /\ last_alloc_index' \in Hints /\ Grows(mem, W) /\ Same(W)
        BY <1>1, <1>2, <1>4, <2>1, TableMade
  <2> HIDE DEF W
  <2>3. CASE Present(PageEntry(W, v))
    <3>1. mem' = W /\ total_mapped' = total_mapped
          BY <2>1, <2>3 DEF PutPage
    <3>2. Pages' = Pages BY <1>1, <2>2, <3>1, PagesSame
    <3>3. mem' \in Memory BY <2>2, <3>1 DEF Good
    <3>4. IInv' BY <1>1, <2>2, <3>1, <3>3 DEF IInv, ready
    <3>5. Pages[v] # NONE
      <4>1. /\ Present(DirEntry(W, v)) /\ s \in Slots
            /\ PageEntry(W, v) = W[Tab(W, e)][s] /\ Tab(W, e) \in Frames
            BY <1>2, <2>2, Translate, TablesApart
      <4>2. PageEntry(W, v) \in Nat BY <2>2, <4>1 DEF Good, Memory
      <4>3. vmm_v_to_p(W, v) \in Nat
            BY <2>3, <4>1, <4>2, FrameOfNat DEF vmm_v_to_p
      <4>4. Pages[v] \in Nat BY <1>1, <1>2, <2>2, <4>3 DEF Pages
      <4> QED BY <4>4 DEF NONE
    <3> QED BY <1>1, <2>2, <3>1, <3>2, <3>4, <3>5
  <2>4. CASE ~Present(PageEntry(W, v))
    <3> DEFINE d == WithEntry(W, e, s, Entry(p))
    <3>1. /\ s \in Slots /\ Table(W, v) = Tab(W, e) /\ Tab(W, e) \in Frames
          /\ PageEntry(W, v) = W[Tab(W, e)][s]
          BY <1>2, <2>2, Translate, TablesApart
    <3>2. /\ mem' = Write(Write(W, Table(W, v), s, Entry(p)), v, 0, DEADBEEF)
          /\ total_mapped' = total_mapped + 1
          BY <2>1, <2>4 DEF PutPage
    <3>3. Write(W, Table(W, v), s, Entry(p)) = d BY <3>1 DEF Write, WithEntry
    <3>4. mem' = Write(d, v, 0, DEADBEEF) BY <3>2, <3>3
    <3>5. /\ Entry(p) \in Nat /\ Present(Entry(p)) /\ FrameOf(Entry(p)) = p
          /\ p \in Nat
          BY <1>1, Parts, EntryFacts
    <3> HIDE DEF e, s
    <3>6. /\ Good(d, owned) /\ Filled(d) = Filled(W) \cup {<<e, s>>}
          /\ Tabs(d) = Tabs(W) /\ d[DirFrame] = W[DirFrame]
          /\ \A w \in VPages :
                vmm_v_to_p(d, w) = IF Home(w) = e /\ w % Entries = s
                                   THEN p ELSE vmm_v_to_p(W, w)
          BY <2>2, <3>1, <3>5, NewEntry
    <3> HIDE DEF d
    <3>7. /\ Good(mem', owned) /\ Filled(mem') = Filled(d)
          /\ Tabs(mem') = Tabs(d) /\ mem'[DirFrame] = d[DirFrame]
          /\ \A w \in VPages : vmm_v_to_p(mem', w) = vmm_v_to_p(d, w)
          BY <3>4, <3>6, WriteTest
    <3>8. <<e, s>> \notin Filled(W)
          BY <2>4, <3>1 DEF Filled
    <3>9. total_mapped' = Cardinality(Filled(mem'))
          BY <1>1, <2>2, <3>2, <3>6, <3>7, <3>8, FilledFinite, FS_AddElement
    <3>10. mem' \in Memory BY <3>7 DEF Good
    <3>11. IInv' BY <1>1, <2>2, <3>7, <3>9, <3>10 DEF IInv, ready
    <3>12. \A w \in VPages :
              Pages'[w] = IF Home(w) = Home(v) /\ w % Entries = v % Entries
                          THEN p ELSE Pages[w]
           BY <1>1, <2>2, <3>6, <3>7 DEF Pages, e, s
    <3>13. OnePage(v, p) BY <3>12 DEF OnePage, Pages
    <3>14. Pages[v] = NONE
      <4>1. vmm_v_to_p(W, v) = NONE BY <2>4 DEF vmm_v_to_p
      <4> QED BY <1>1, <1>2, <2>2, <4>1 DEF Pages
    <3>15. Grows(mem, mem') BY <2>2, <3>6, <3>7 DEF Grows
    <3>16. Same(mem') BY <2>2, <3>6, <3>7 DEF Extends
    <3> QED BY <1>1, <1>4, <3>11, <3>13, <3>14, <3>15, <3>16
  <2> QED BY <2>3, <2>4
<1> QED BY <1>3, <1>4

LEMMA UnmapStep ==
    ASSUME Layout, IInv, NEW v \in UserPages, vmm_unmap_page(v)
    PROVE  /\ IInv' /\ OnePage(v, NONE) /\ ready
           /\ mem'[DirFrame] = mem[DirFrame] /\ Tabs(mem') = Tabs(mem)
           /\ UNCHANGED <<owned, last_alloc_index>>
<1> DEFINE e == Home(v)
           s == v % Entries
<1>1. /\ ready /\ ready' = ready /\ owned' = owned /\ kept' = kept
      /\ last_alloc_index' = last_alloc_index /\ last_alloc_index \in Hints
      /\ stage' = stage /\ kept = Kept
      /\ owned \subseteq Spare /\ Good(mem, owned)
      /\ total_mapped = Cardinality(Filled(mem))
      /\ total_mapped' = total_mapped - 1
      /\ Present(DirEntry(mem, v)) /\ Present(PageEntry(mem, v))
      BY DEF vmm_unmap_page, IInv, ready
<1>2. v \in VPages BY MemoryAssumption DEF VPages
<1>3. /\ e \in Open(mem) /\ s \in Slots /\ Table(mem, v) = Tab(mem, e)
      /\ Tab(mem, e) \in Frames /\ PageEntry(mem, v) = mem[Tab(mem, e)][s]
      BY <1>1, <1>2, Translate, TablesApart
<1>4. mem' = WithEntry(mem, e, s, 0)
      BY <1>3 DEF vmm_unmap_page, Write, WithEntry
<1> HIDE DEF e, s
<1>5. /\ Good(mem', owned) /\ Filled(mem') = Filled(mem) \ {<<e, s>>}
      /\ Tabs(mem') = Tabs(mem) /\ mem'[DirFrame] = mem[DirFrame]
      /\ \A w \in VPages :
            vmm_v_to_p(mem', w) = IF Home(w) = e /\ w % Entries = s
                                  THEN NONE ELSE vmm_v_to_p(mem, w)
      BY <1>1, <1>3, <1>4, NotPresent, NewEntry
<1>6. <<e, s>> \in Filled(mem)
  <2>1. <<e, s>> \in Open(mem) \X Slots BY <1>3
  <2> QED BY <1>1, <1>3, <2>1 DEF Filled
<1>7. total_mapped' = Cardinality(Filled(mem'))
  <2>1. /\ IsFiniteSet(Filled(mem))
        /\ Cardinality(Filled(mem)) \in Nat
        BY FilledFinite
  <2>2. Cardinality(Filled(mem) \ {<<e, s>>}) = Cardinality(Filled(mem)) - 1
        BY ONLY <1>6, <2>1, FS_RemoveElement
  <2> QED BY <1>1, <1>5, <2>2
<1>8. mem' \in Memory BY <1>5 DEF Good
<1>9. IInv' BY <1>1, <1>5, <1>7, <1>8 DEF IInv, ready
<1>10. \A w \in VPages :
          Pages'[w] = IF Home(w) = Home(v) /\ w % Entries = v % Entries
                      THEN NONE ELSE Pages[w]
       BY <1>1, <1>5 DEF Pages, e, s
<1>11. OnePage(v, NONE) BY <1>10 DEF OnePage, Pages
<1> QED BY <1>1, <1>5, <1>9, <1>11

-----------------------------------------------------------------------------
(***************************************************************************)
(* The invariant.                                                          *)
(***************************************************************************)

\* The bitmap as pmm_init leaves it: the kernel's bytes are set.
LEMMA ReservedWord ==
    ASSUME NEW n \in Nat, NEW f, NEW s, (f - BitmapFrame) * Entries + s = n
    PROVE  /\ Reserved(f, s) \in Nat
           /\ \A r \in 0 .. 3, i \in Nat : i = 4 * n + r /\ i % WORD_SIZE = r
                 => Digit(Reserved(f, s), i) = IF i < FirstPage THEN 1 ELSE 0
<1> DEFINE B(r) == IF 4 * n + r < FirstPage THEN 1 ELSE 0
           w == Reserved(f, s)
<1>1. \A r \in 0 .. 3 : B(r) \in 0 .. 1 OBVIOUS
<1>2. w = B(0) + 256 * B(1) + 65536 * B(2) + 16777216 * B(3)
  <2>1. /\ Weight(0) = 1 /\ Weight(1) = 256 /\ Weight(2) = 65536
        /\ Weight(3) = 16777216
    <3>1. 0 % WORD_SIZE = 0 /\ 1 % WORD_SIZE = 1 /\ 2 % WORD_SIZE = 2
          /\ 3 % WORD_SIZE = 3
          BY DEF WORD_SIZE
    <3> QED BY <3>1, Weights
  <2>2. ((f - BitmapFrame) * Entries + s) * WORD_SIZE = 4 * n
        BY DEF WORD_SIZE
  <2> DEFINE D(r) == IF 4 * n + r < FirstPage THEN Weight(r) ELSE 0
  <2>3. w = D(0) + D(1) + D(2) + D(3) BY <2>2 DEF Reserved
  <2>4. /\ D(0) = B(0) /\ D(1) = 256 * B(1) /\ D(2) = 65536 * B(2)
        /\ D(3) = 16777216 * B(3)
        BY <2>1, SMT
  <2> HIDE DEF D, B
  <2> QED BY <2>3, <2>4
<1>3. B(0) \in 0 .. 1 /\ B(1) \in 0 .. 1 /\ B(2) \in 0 .. 1 /\ B(3) \in 0 .. 1
      BY <1>1
<1> HIDE DEF B, w
<1>4. ASSUME NEW i \in Nat
      PROVE  /\ w \in Nat
             /\ i % WORD_SIZE = 0 => Digit(w, i) = B(0)
             /\ i % WORD_SIZE = 1 => Digit(w, i) = B(1)
             /\ i % WORD_SIZE = 2 => Digit(w, i) = B(2)
             /\ i % WORD_SIZE = 3 => Digit(w, i) = B(3)
      BY <1>2, <1>3, Digits
<1>5. w \in Nat
  <2>1. 0 \in Nat OBVIOUS
  <2> QED BY <1>4, <2>1
<1>6. ASSUME NEW r \in 0 .. 3, NEW i \in Nat, i = 4 * n + r,
             i % WORD_SIZE = r
      PROVE  Digit(w, i) = IF i < FirstPage THEN 1 ELSE 0
  <2>1. Digit(w, i) = B(r)
    <3>1. r \in {0, 1, 2, 3} OBVIOUS
    <3> QED BY <1>4, <1>6, <3>1
  <2> QED BY <1>6, <2>1 DEF B
<1> QED BY <1>5, <1>6 DEF w

LEMMA InitIInv == ASSUME Layout PROVE Init => IInv
<1> SUFFICES ASSUME Init PROVE IInv OBVIOUS
<1>1. mem \in Memory
  <2>1. ASSUME NEW f \in BitmapFrames, NEW s \in Slots
        PROVE  Reserved(f, s) \in Nat
    <3>1. f - BitmapFrame \in Nat /\ Entries \in Nat /\ s \in Nat
          BY Constants DEF BitmapFrames, Slots
    <3>2. (f - BitmapFrame) * Entries + s \in Nat BY <3>1
    <3> QED BY <3>2, ReservedWord
  <2> QED BY <2>1 DEF Init, Memory
<1>2. ASSUME NEW i \in Tracked
      PROVE  Byte(mem, i) = IF i < FirstPage THEN 1 ELSE 0
  <2> DEFINE f == ByteFrame(i)
             s == ByteSlot(i)
             n == i \div WORD_SIZE
             r == i % WORD_SIZE
  <2>1. /\ i \in Nat /\ f \in BitmapFrames /\ f \in Frames /\ s \in Slots
        BY BytePlace, LedgerFrames
  <2>2. /\ n \in Nat /\ r \in 0 .. 3 /\ i = 4 * n + r
        /\ n = Entries * (f - BitmapFrame) + s /\ f \in Nat
        BY <2>1, ByteWord
  <2>3. Byte(mem, i) = Digit(mem[f][s], i) BY DEF Byte
  <2>4. i % WORD_SIZE = r OBVIOUS
  <2> HIDE DEF f, s, n, r
  <2>5. (f - BitmapFrame) * Entries + s = n
    <3>1. f - BitmapFrame \in Int /\ Entries \in Int BY <2>2, Constants
    <3>2. (f - BitmapFrame) * Entries = Entries * (f - BitmapFrame) BY <3>1
    <3> QED BY <2>2, <3>2
  <2>6. Digit(Reserved(f, s), i) = IF i < FirstPage THEN 1 ELSE 0
        BY <2>1, <2>2, <2>4, <2>5, ReservedWord
  <2>7. mem[f][s] = Reserved(f, s) BY <2>1 DEF Init
  <2> QED BY <2>3, <2>6, <2>7
<1>3. Taken(mem, {}) BY <1>2 DEF Taken
<1>4. FirstPage \in Hints BY Constants, Parts DEF Hints
<1> QED BY <1>1, <1>3, <1>4 DEF Init, IInv, ready

LEMMA NextIInv == ASSUME Layout PROVE IInv /\ [Next /\ Below']_vars => IInv'
<1> SUFFICES ASSUME IInv, [Next /\ Below']_vars PROVE IInv' OBVIOUS
<1>1. CASE pmm_test BY <1>1, TestStep
<1>2. CASE vmm_init /\ Below' BY <1>2, InitStep
<1>3. CASE ready /\ alloc_page /\ Below' BY <1>3, AllocStep
<1>4. ASSUME NEW i \in owned, pmm_free_page(i) PROVE IInv'
      BY <1>4, FreeStep
<1>5. ASSUME NEW i \in owned, Use(i) PROVE IInv'
      BY <1>5, UseStep
<1>6. ASSUME NEW v \in UserPages, NEW p \in owned, vmm_map_page(v, p), Below'
      PROVE  IInv'
      BY <1>6, MapStep
<1>7. ASSUME NEW v \in UserPages, vmm_unmap_page(v) PROVE IInv'
      BY <1>7, UnmapStep
<1>8. CASE UNCHANGED vars BY <1>8 DEF vars, IInv, ready
<1> QED BY <1>1, <1>2, <1>3, <1>4, <1>5, <1>6, <1>7, <1>8 DEF Next

LEMMA Invariant == ASSUME Layout PROVE BelowSpec => []IInv
<1>1. Init => IInv BY InitIInv
<1>2. IInv /\ [Next /\ Below']_vars => IInv' BY NextIInv
<1> QED BY <1>1, <1>2, PTL DEF BelowSpec

LEMMA WindowsOpen ==
    /\ Windows = IF ready THEN Open(mem) ELSE {}
    /\ \A d : TableOf(d) = Tab(mem, d)
BY DEF Windows, Open, TableOf, Tab

LEMMA FrameBelow == \A v \in Frames : v \in Nat /\ v < TotalPages
BY Constants DEF Frames

(***************************************************************************)
(* The addresses of config.h are laid out like this: KERNEL_END is frame   *)
(* 4096 of 131072, and the bitmap's first; the directory is frame 8192     *)
(* (VMM_PD_ADDR).  vmm_map_page is called for page 2560 (kernel.c:112) and *)
(* for those of the heap, from 786688 on (HEAP.c:19-20); page_fault_handler*)
(* calls it with paging on only (see PageFault).                           *)
(***************************************************************************)
THEOREM ConfigLayout ==
    ASSUME FirstPage = 4096, TotalPages = 131072, Entries = 1024,
           BitmapFrame = 4096, DirFrame = 8192,
           \A v \in UserPages : v = 2560 \/ v >= 786688
    PROVE  Layout
<1>1. ByteFrame(DirFrame) = 4098
  <2>1. DirFrame \div WORD_SIZE = 2048 BY SMT DEF WORD_SIZE
  <2>2. 2048 \div Entries = 2 BY SMT
  <2> QED BY <2>1, <2>2, SMT DEF ByteFrame
<1>2. ASSUME NEW v \in UserPages, v \in Frames
      PROVE  v < FirstPage /\ v \notin BitmapFrames
  <2>1. v \in Nat /\ v < TotalPages BY <1>2, FrameBelow
  <2>2. v = 2560 BY <2>1, SMT
  <2>3. ~(4096 <= v) BY <2>2, SMT
  <2>4. v \in BitmapFrames => BitmapFrame <= v
        BY <2>1, Constants DEF BitmapFrames
  <2> QED BY <2>2, <2>3, <2>4, SMT
<1>3. \A v \in UserPages \cap Frames : v < FirstPage /\ v \notin BitmapFrames
      BY <1>2
<1> QED BY <1>1, <1>3, SMT DEF Layout

(***************************************************************************)
(* Below the directory, a frame has one use, and the bitmap in memory says *)
(* which are in use: alloc_page (PMM.c:46-90) hands out no frame of the    *)
(* kernel, of a page table, of another caller or of those pmm_test leaves, *)
(* and no frame is lost, though the bitmap and the tables lie among the    *)
(* frames it hands out.                                                    *)
(***************************************************************************)
THEOREM OneUseCorrect ==
    ASSUME Layout
    PROVE  BelowSpec => []OneUse
<1>1. ASSUME IInv PROVE OneUse
  <2> DEFINE W == IF ready THEN Open(mem) ELSE {}
             tables == {Tab(mem, d) : d \in W}
             kernel == 0 .. (FirstPage - 1)
             fixed == kernel \cup kept
  <2>1. /\ \A d, e \in W : Tab(mem, d) = Tab(mem, e) => d = e
        /\ tables \subseteq Spare /\ tables \cap owned = {}
        /\ owned \subseteq Spare /\ kept \subseteq Kept
        /\ Taken(mem, kept \cup (tables \cup owned))
    <3>1. CASE ready
      <4>1. /\ Good(mem, owned) /\ W = Open(mem) /\ tables = Tabs(mem)
            /\ kept = Kept
            BY <1>1, <3>1, Running DEF Tabs
      <4> QED BY <4>1 DEF Good, Directory, Held
    <3>2. CASE stage = "vmm_init"
      <4>1. Held(mem, {}) /\ owned = {} /\ kept = Kept /\ ~ready
            BY <1>1, <3>2 DEF IInv, ready
      <4>2. W = {} /\ tables = {} /\ tables \cup owned = {} BY <4>1
      <4> QED BY <4>1, <4>2 DEF Held
    <3>3. CASE stage = "pmm_test"
      <4>1. Taken(mem, {}) /\ owned = {} /\ kept = {} /\ ~ready
            BY <1>1, <3>3 DEF IInv, ready
      <4>2. W = {} /\ tables = {} /\ kept \cup (tables \cup owned) = {}
            BY <4>1
      <4> QED BY <4>1, <4>2
    <3> QED BY <1>1, <3>1, <3>2, <3>3 DEF IInv, ready
  <2> HIDE DEF tables
  <2>2. /\ kernel \cap Pool = {} /\ kernel \subseteq Tracked
        /\ \A i \in Tracked : i \in kernel <=> i < FirstPage
        /\ DirFrame \notin kernel
        BY Constants, Parts DEF Pool, Tracked
  <2>3. /\ tables \cap (owned \cup fixed) = {} /\ fixed \cap owned = {}
        /\ DirFrame \notin fixed \cup tables \cup owned
        BY <2>1, <2>2, Parts
  <2>4. {i \in 0 .. DirFrame : Byte(mem, i) # 0} = fixed \cup tables \cup owned
    <3>1. fixed \cup tables \cup owned \subseteq Tracked
          BY <2>1, <2>2, Parts
    <3>2. \A i \in Tracked : Byte(mem, i) # 0
             <=> i \in kernel \/ i \in kept \cup (tables \cup owned)
          BY <2>1, <2>2 DEF Taken
    <3> QED BY <3>1, <3>2 DEF Tracked
  <2>5. Windows = W /\ \A d : TableOf(d) = Tab(mem, d) BY WindowsOpen
  <2>6. {TableOf(d) : d \in Windows} = tables BY <2>5 DEF tables
  <2> QED BY <2>1, <2>3, <2>4, <2>5, <2>6 DEF OneUse
<1> QED BY <1>1, Invariant, PTL

(***************************************************************************)
(* total_mapped (VMM.c:6) is the number of pages the tables map, whatever  *)
(* is mapped and unmapped through either name of the shared window.        *)
(***************************************************************************)
THEOREM MappedCountCorrect ==
    ASSUME Layout
    PROVE  BelowSpec => []MappedCount
<1>1. ASSUME IInv PROVE MappedCount
  <2> DEFINE S == {p \in Windows \X Slots :
                      Present(Read(mem, TableOf(p[1]), p[2]))}
  <2>1. Windows = (IF ready THEN Open(mem) ELSE {})
        /\ \A d : TableOf(d) = Tab(mem, d)
        BY WindowsOpen
  <2>2. CASE ready
    <3>1. /\ Windows = Open(mem) /\ Good(mem, owned)
          /\ total_mapped = Cardinality(Filled(mem))
          BY <1>1, <2>1, <2>2, Running
    <3>2. \A d \in Open(mem) : Tab(mem, d) \in Frames
          BY <3>1, TablesApart
    <3>3. \A p \in Open(mem) \X Slots :
             Read(mem, TableOf(p[1]), p[2]) = mem[Tab(mem, p[1])][p[2]]
          BY <2>1, <3>2 DEF Read
    <3>4. S = Filled(mem) BY <3>1, <3>3 DEF Filled
    <3> QED BY <3>1, <3>4 DEF MappedCount
  <2>3. CASE ~ready
    <3>1. S = {} BY <2>1, <2>3
    <3>2. Cardinality(S) = 0 BY <3>1, FS_EmptySet
    <3> QED BY <1>1, <2>3, <3>2 DEF IInv, MappedCount
  <2> QED BY <2>2, <2>3
<1> QED BY <1>1, Invariant, PTL

\* The pages the space takes for the same one have one home and one entry.
LEMMA SameHome ==
    ASSUME NEW v \in VPages, NEW w \in VPages
    PROVE  w \in Space!Same(v)
              <=> Home(w) = Home(v) /\ w % Entries = v % Entries
<1> DEFINE q == v \div Entries
           r == v % Entries
           a == w \div Entries
           b == w % Entries
<1>1. /\ v \in Nat /\ w \in Nat /\ q \in Nat /\ a \in Nat
      /\ r \in Slots /\ b \in Slots
      /\ v = Entries * q + r /\ w = Entries * a + b
      BY Place, PageWindow
<1>2. /\ Entries \in Nat /\ AliasEntry \in Nat /\ AliasEntry # 0 /\ 0 \in Slots
      BY Constants DEF Slots
<1>3. Space!Window(v) = q BY DEF Space!Window
<1> HIDE DEF q, r, a, b
<1>4. \A n \in Nat, s \in Slots :
         w = Entries * n + s <=> a = n /\ b = s
  <2>1. ASSUME NEW n \in Nat, NEW s \in Slots
        PROVE  /\ (Entries * n + s) \div Entries = n
               /\ (Entries * n + s) % Entries = s
    <3>1. s \in Nat /\ s < Entries BY Constants DEF Slots
    <3> QED BY <3>1, Constants, DivisionOf
  <2> QED BY <1>1, <2>1 DEF a, b
<1>5. w = r <=> a = 0 /\ b = r
  <2>1. r = Entries * 0 + r BY <1>1, <1>2 DEF Slots
  <2> QED BY <1>1, <1>4, <2>1
<1>6. w = AliasEntry * Entries + r <=> a = AliasEntry /\ b = r
  <2>1. AliasEntry * Entries = Entries * AliasEntry BY <1>2
  <2> QED BY <1>1, <1>2, <1>4, <2>1
<1>7. Home(w) = (IF a = AliasEntry THEN 0 ELSE a)
      /\ Home(v) = (IF q = AliasEntry THEN 0 ELSE q)
      BY DEF Home, a, q
<1>8. CASE q \in {0, AliasEntry}
  <2>1. Space!Same(v) = {r, AliasEntry * Entries + r}
        BY <1>3, <1>8 DEF Space!Same, r
  <2>2. w \in Space!Same(v) <=> a \in {0, AliasEntry} /\ b = r
        BY <1>5, <1>6, <2>1
  <2>3. Home(v) = 0 BY <1>7, <1>8
  <2>4. Home(w) = 0 <=> a \in {0, AliasEntry} BY <1>7
  <2> QED BY <2>2, <2>3, <2>4 DEF b, r
<1>9. CASE q \notin {0, AliasEntry}
  <2>1. Space!Same(v) = {v} BY <1>3, <1>9 DEF Space!Same
  <2>2. w = v <=> a = q /\ b = r BY <1>1, <1>4
  <2>3. Home(w) = Home(v) <=> a = q BY <1>2, <1>7, <1>9
  <2> QED BY <2>1, <2>2, <2>3 DEF b, r
<1> QED BY <1>8, <1>9

\* A page that gets x, in the terms of the space.
LEMMA SpaceWith ==
    ASSUME NEW v \in VPages, NEW x, OnePage(v, x)
    PROVE  Pages' = Space!With(v, x)
<1>1. Space!VPages = VPages BY DEF Space!VPages, VPages
<1>2. \A w \in VPages : w \in Space!Same(v)
         <=> Home(w) = Home(v) /\ w % Entries = v % Entries
      BY SameHome
<1>3. Pages' = [w \in VPages |->
                  IF Home(w) = Home(v) /\ w % Entries = v % Entries
                  THEN x ELSE Pages[w]]
      BY DEF OnePage
<1>4. Space!With(v, x) = [w \in VPages |-> IF w \in Space!Same(v)
                                          THEN x ELSE Pages[w]]
      BY <1>1 DEF Space!With
<1> QED BY <1>2, <1>3, <1>4

LEMMA SpaceStart == ASSUME Layout, IInv, vmm_init, Below' PROVE Space!Start
<1>1. /\ Pages = [v \in VPages |-> NONE]
      /\ Pages' = [v \in VPages |-> IF Home(v) = 0 THEN v % Entries
                                                   ELSE NONE]
      BY InitStep
<1>2. \A v \in VPages : Home(v) = 0 <=> Space!Window(v) \in {0, AliasEntry}
      BY DEF Home, Space!Window
<1>3. Space!VPages = VPages /\ Space!NONE = NONE
      BY DEF Space!VPages, VPages, Space!NONE, NONE
<1>4. \A v \in Space!VPages : Pages[v] = Space!NONE BY <1>1, <1>3
<1>5. Pages' = [v \in Space!VPages |->
                  IF Space!Window(v) \in {0, AliasEntry}
                  THEN v % Entries ELSE Space!NONE]
      BY <1>1, <1>2, <1>3
<1> QED BY <1>4, <1>5 DEF Space!Start

LEMMA SpaceMap ==
    ASSUME Layout, IInv, NEW v \in UserPages, NEW p \in owned,
           vmm_map_page(v, p), Below'
    PROVE  Space!Map(v, p)
<1>1. v \in VPages BY MemoryAssumption DEF VPages
<1>2. Space!NONE = NONE BY DEF Space!NONE, NONE
<1>3. /\ Pages[v] = NONE => OnePage(v, p)
      /\ Pages[v] # NONE => Pages' = Pages
      BY MapStep
<1>4. Pages[v] = NONE => Pages' = Space!With(v, p)
      BY <1>1, <1>3, SpaceWith
<1> QED BY <1>2, <1>3, <1>4 DEF Space!Map

LEMMA SpaceUnmap ==
    ASSUME Layout, IInv, NEW v \in UserPages, vmm_unmap_page(v)
    PROVE  Space!Unmap(v)
<1>1. v \in VPages BY MemoryAssumption DEF VPages
<1>2. Space!NONE = NONE BY DEF Space!NONE, NONE
<1>3. OnePage(v, NONE) BY UnmapStep
<1> QED BY <1>1, <1>2, <1>3, SpaceWith DEF Space!Unmap

LEMMA SpaceElsewhere ==
    ASSUME Layout, IInv, Elsewhere, Below' PROVE UNCHANGED Pages
<1>1. CASE pmm_test BY <1>1, TestStep
<1>2. CASE alloc_page /\ ready BY <1>2, AllocStep
<1>3. CASE alloc_page /\ ~ready
  <2>1. ready' = ready BY <1>3 DEF alloc_page, ready
  <2> QED BY <1>3, <2>1, PagesSame
<1>4. ASSUME NEW i \in owned, pmm_free_page(i) \/ Use(i) PROVE Pages' = Pages
      BY <1>4, FreeStep, UseStep
<1> QED BY <1>1, <1>2, <1>3, <1>4 DEF Elsewhere

(***************************************************************************)
(* The page tables implement the address space, call by call: after        *)
(* vmm_map_page(v, p) page v goes to frame p, if it was not mapped, and    *)
(* after vmm_unmap_page(v) nowhere (kernel.c:111-121 tests it); no other   *)
(* page but v's other name changes, and none when a frame is allocated,    *)
(* freed or written to by its holder.                                      *)
(***************************************************************************)
THEOREM TranslationCorrect ==
    ASSUME Layout
    PROVE  BelowSpec => Translation
<1>1. Init => Space!Init
      BY DEF Init, Space!Init, Space!VPages, VPages, Space!NONE, NONE, Pages,
             ready
<1>2. ASSUME IInv, Next /\ Below'
      PROVE  /\ vmm_init => Space!Start
             /\ \A v \in UserPages, p \in owned :
                   vmm_map_page(v, p) => Space!Map(v, p)
             /\ \A v \in UserPages : vmm_unmap_page(v) => Space!Unmap(v)
             /\ Elsewhere => UNCHANGED Pages
  <2>1. vmm_init => Space!Start BY <1>2, SpaceStart
  <2>2. ASSUME NEW v \in UserPages, NEW p \in owned, vmm_map_page(v, p)
        PROVE  Space!Map(v, p)
        BY <1>2, <2>2, SpaceMap
  <2>3. ASSUME NEW v \in UserPages, vmm_unmap_page(v) PROVE Space!Unmap(v)
        BY <1>2, <2>3, SpaceUnmap
  <2>4. Elsewhere => UNCHANGED Pages BY <1>2, SpaceElsewhere
  <2> QED BY <2>1, <2>2, <2>3, <2>4
<1>3. IInv /\ [Next /\ Below']_vars
        => [/\ vmm_init => Space!Start
            /\ \A v \in UserPages, p \in owned :
                  vmm_map_page(v, p) => Space!Map(v, p)
            /\ \A v \in UserPages : vmm_unmap_page(v) => Space!Unmap(v)
            /\ Elsewhere => UNCHANGED Pages]_vars
      BY <1>2
<1> QED BY <1>1, <1>3, Invariant, PTL DEF BelowSpec, Translation

(***************************************************************************)
(* So the pages change as the specification of the address space says,     *)
(* whatever the calls and their order.                                     *)
(***************************************************************************)
THEOREM AddressSpaceImplemented ==
    ASSUME Layout
    PROVE  BelowSpec => Space!Spec
<1>1. Init => Space!Init
      BY DEF Init, Space!Init, Space!VPages, VPages, Space!NONE, NONE, Pages,
             ready
<1>2. ASSUME IInv, Next, Below' PROVE Space!Next \/ Pages' = Pages
  <2>1. \A v \in UserPages : v \in Space!VPages
        BY MemoryAssumption DEF Space!VPages
  <2>2. CASE vmm_init BY <1>2, <2>2, SpaceStart DEF Space!Next
  <2>3. ASSUME NEW v \in UserPages, NEW p \in owned, vmm_map_page(v, p)
        PROVE  Space!Next
    <3>1. Space!Map(v, p) BY <1>2, <2>3, SpaceMap
    <3>2. p \in Nat BY <1>2, Parts DEF IInv
    <3> QED BY <2>1, <3>1, <3>2 DEF Space!Next
  <2>4. ASSUME NEW v \in UserPages, vmm_unmap_page(v) PROVE Space!Next
    <3>1. Space!Unmap(v) BY <1>2, <2>4, SpaceUnmap
    <3> QED BY <2>1, <3>1 DEF Space!Next
  <2>5. CASE Elsewhere BY <1>2, <2>5, SpaceElsewhere
  <2> QED BY <1>2, <2>2, <2>3, <2>4, <2>5 DEF Next, Elsewhere
<1>3. IInv /\ [Next /\ Below']_vars => [Space!Next]_Pages
  <2>1. ASSUME UNCHANGED vars PROVE Pages' = Pages
        BY <2>1 DEF vars, Pages, ready
  <2> QED BY <1>2, <2>1
<1> QED BY <1>1, <1>3, Invariant, PTL DEF BelowSpec, Space!Spec

-----------------------------------------------------------------------------
(***************************************************************************)
(* The frames below the directory seen from the bitmap, and the directory  *)
(* seen from the tables, step by step.                                     *)
(***************************************************************************)
FramesTaken == {i \in Pool : Byte(mem, i) # 0}

FramesFree == Pool \ FramesTaken

FrameByFrame ==
    [][\/ pmm_test /\ FramesTaken = {} /\ FramesTaken' = kept'
       \/ \E i \in FramesFree : /\ \A j \in FramesFree : i <= j
                                /\ FramesTaken' = FramesTaken \cup {i}
       \/ \E i \in owned : FramesTaken' = FramesTaken \ {i}
       \/ FramesTaken' = FramesTaken]_vars

TablesStay ==
    [][\A d \in Windows : d \in Windows' /\ TableOf(d)' = TableOf(d)]_vars

\* No free frame below the hint (compare PMM).
HintOK == \A i \in Pool : i < last_alloc_index => i \in FramesTaken

LEMMA TakenIs ==
    ASSUME Layout
    PROVE  /\ \A T : Taken(mem, T) => FramesTaken = T
           /\ \A T : Taken(mem', T) => FramesTaken' = T
<1>1. \A i \in Pool : i \in Tracked /\ ~(i < FirstPage)
      BY Constants, Parts DEF Pool
<1> QED BY <1>1 DEF Taken, FramesTaken

LEMMA TakenRunning ==
    ASSUME Layout, IInv
    PROVE  ready => FramesTaken = Kept \cup (Tabs(mem) \cup owned)
<1> QED BY Running, TakenIs DEF Good, Held

LEMMA TakenRunningNext ==
    ASSUME Layout, IInv'
    PROVE  ready' => FramesTaken' = Kept \cup (Tabs(mem') \cup owned')
<1>1. SUFFICES ASSUME ready' PROVE Good(mem', owned')
      BY TakenIs DEF Good, Held
<1> QED BY <1>1 DEF IInv, ready

\* What a step does to the bitmap and the hint.
Tests == /\ pmm_test /\ FramesTaken = {} /\ FramesTaken' = Kept
         /\ kept' = Kept /\ last_alloc_index' = FirstPage + 2

Takes(t) == /\ t \in FramesFree /\ \A j \in FramesFree : t <= j
            /\ FramesTaken' = FramesTaken \cup {t}
            /\ last_alloc_index' = t + 1

Frees(i) == /\ FramesTaken' = FramesTaken \ {i}
            /\ last_alloc_index' = IF i < last_alloc_index
                                   THEN i ELSE last_alloc_index

Leaves == /\ FramesTaken' = FramesTaken
          /\ last_alloc_index' = last_alloc_index

FrameStep == \/ Tests
             \/ \E t \in Pool : Takes(t)
             \/ \E i \in owned : Frees(i)
             \/ Leaves

\* A frame that the search finds is the lowest of all that are free.
LEMMA TakesLowest ==
    ASSUME Layout, IInv, HintOK, NEW T, FramesTaken = Kept \cup T,
           NEW t \in Spare \ T,
           \A j \in Spare \ T : last_alloc_index <= j => t <= j,
           FramesTaken' = Kept \cup (T \cup {t}), last_alloc_index' = t + 1
    PROVE  FrameStep
<1>1. t \in Pool /\ t \in FramesFree BY Parts DEF FramesFree
<1>2. ASSUME NEW j \in FramesFree PROVE t <= j
  <2>1. j \in Spare \ T /\ j \in Pool /\ j \in Nat
        BY Parts DEF FramesFree
  <2>2. ~(j < last_alloc_index) BY <2>1 DEF HintOK, FramesFree
  <2>3. last_alloc_index \in Nat BY Constants DEF IInv, Hints
  <2> QED BY <2>1, <2>2, <2>3
<1>3. Takes(t) BY <1>1, <1>2 DEF Takes
<1> QED BY <1>1, <1>3 DEF FrameStep

LEMMA MapFrames ==
    ASSUME Layout, IInv, HintOK, NEW v \in UserPages, NEW p \in owned,
           vmm_map_page(v, p), Below'
    PROVE  FrameStep
<1>1. /\ IInv' /\ ready /\ owned' = owned /\ ready'
      /\ \/ /\ Tabs(mem') = Tabs(mem)
            /\ last_alloc_index' = last_alloc_index
         \/ \E t \in Spare : Extends(mem, mem', t)
      BY MapStep DEF vmm_map_page, ready
<1>2. /\ FramesTaken = Kept \cup (Tabs(mem) \cup owned)
      /\ FramesTaken' = Kept \cup (Tabs(mem') \cup owned)
      BY <1>1, TakenRunning, TakenRunningNext
<1>3. CASE Tabs(mem') = Tabs(mem) /\ last_alloc_index' = last_alloc_index
  <2>1. Leaves BY <1>2, <1>3 DEF Leaves
  <2> QED BY <2>1 DEF FrameStep
<1>4. ASSUME NEW t \in Spare, Extends(mem, mem', t) PROVE FrameStep
  <2> DEFINE T == Tabs(mem) \cup owned
  <2>1. /\ t \in Spare \ T /\ last_alloc_index' = t + 1
        /\ Tabs(mem') = Tabs(mem) \cup {t}
        /\ \A j \in Spare \ T : last_alloc_index <= j => t <= j
        BY <1>4 DEF Extends
  <2>2. Tabs(mem') \cup owned = T \cup {t} BY <2>1
  <2>3. FramesTaken = Kept \cup T /\ FramesTaken' = Kept \cup (T \cup {t})
        BY <1>2, <2>2
  <2> HIDE DEF T
  <2> QED BY <2>1, <2>3, TakesLowest
<1> QED BY <1>1, <1>3, <1>4

LEMMA FramesNext ==
    ASSUME Layout, IInv, HintOK, Next, Below'
    PROVE  FrameStep
<1>1. CASE pmm_test
  <2>1. /\ Taken(mem, {}) /\ Taken(mem', Kept)
        /\ kept' = Kept /\ last_alloc_index' = FirstPage + 2
        BY <1>1, TestStep
  <2>2. Tests BY <1>1, <2>1, TakenIs DEF Tests
  <2> QED BY <2>2 DEF FrameStep
<1>2. CASE vmm_init
  <2>1. /\ IInv' /\ Held(mem, {}) /\ owned' = owned /\ owned = {} /\ ready'
        /\ \E t \in Spare : /\ Tabs(mem') = {t}
                            /\ \A j \in Spare : last_alloc_index <= j => t <= j
                            /\ last_alloc_index' = t + 1
        BY <1>2, InitStep DEF vmm_init, IInv, ready
  <2>2. FramesTaken = Kept \cup {} BY <2>1, TakenIs DEF Held
  <2>3. PICK t \in Spare : /\ Tabs(mem') = {t}
                           /\ \A j \in Spare : last_alloc_index <= j => t <= j
                           /\ last_alloc_index' = t + 1
        BY <2>1
  <2>4. FramesTaken' = Kept \cup ({} \cup {t})
    <3>1. Tabs(mem') \cup owned' = {} \cup {t} BY <2>1, <2>3
    <3> QED BY <2>1, <3>1, TakenRunningNext
  <2> QED BY <2>2, <2>3, <2>4, TakesLowest
<1>3. CASE ready /\ alloc_page
  <2> DEFINE T == Tabs(mem) \cup owned
             i == Found(mem, last_alloc_index)
  <2>1. /\ IInv' /\ ready' /\ Tabs(mem') = Tabs(mem) /\ i \in Spare \ T
        /\ \A j \in Spare \ T : last_alloc_index <= j => i <= j
        /\ owned' = owned \cup {i} /\ last_alloc_index' = i + 1
        BY <1>3, AllocStep DEF alloc_page, ready
  <2>2. Tabs(mem') \cup owned' = T \cup {i} BY <2>1
  <2>3. /\ FramesTaken = Kept \cup T
        /\ FramesTaken' = Kept \cup (T \cup {i})
        BY <1>3, <2>1, <2>2, TakenRunning, TakenRunningNext
  <2> HIDE DEF T, i
  <2> QED BY <2>1, <2>3, TakesLowest
<1>4. ASSUME NEW i \in owned, pmm_free_page(i) PROVE FrameStep
  <2>1. /\ IInv' /\ ready /\ ready' /\ Tabs(mem') = Tabs(mem)
        /\ i \in Spare \ Tabs(mem) /\ owned' = owned \ {i}
        /\ last_alloc_index' = IF i < last_alloc_index
                               THEN i ELSE last_alloc_index
        BY <1>4, FreeStep DEF pmm_free_page, ready
  <2>2. /\ FramesTaken = Kept \cup (Tabs(mem) \cup owned)
        /\ FramesTaken' = Kept \cup (Tabs(mem) \cup (owned \ {i}))
        BY <2>1, TakenRunning, TakenRunningNext
  <2>3. FramesTaken' = FramesTaken \ {i} BY <2>1, <2>2, Parts
  <2>4. Frees(i) BY <2>1, <2>3 DEF Frees
  <2> QED BY <1>4, <2>4 DEF FrameStep
<1>5. ASSUME NEW i \in owned, Use(i) PROVE FrameStep
  <2>1. /\ IInv' /\ ready /\ ready' /\ Tabs(mem') = Tabs(mem)
        /\ owned' = owned /\ last_alloc_index' = last_alloc_index
        BY <1>5, UseStep DEF Use, ready
  <2>2. Leaves BY <2>1, TakenRunning, TakenRunningNext DEF Leaves
  <2> QED BY <2>2 DEF FrameStep
<1>6. ASSUME NEW v \in UserPages, NEW p \in owned, vmm_map_page(v, p)
      PROVE  FrameStep
      BY <1>6, MapFrames
<1>7. ASSUME NEW v \in UserPages, vmm_unmap_page(v) PROVE FrameStep
  <2>1. /\ IInv' /\ ready /\ ready' /\ Tabs(mem') = Tabs(mem)
        /\ owned' = owned /\ last_alloc_index' = last_alloc_index
        BY <1>7, UnmapStep DEF vmm_unmap_page, ready
  <2>2. Leaves BY <2>1, TakenRunning, TakenRunningNext DEF Leaves
  <2> QED BY <2>2 DEF FrameStep
<1> QED BY <1>1, <1>2, <1>3, <1>4, <1>5, <1>6, <1>7 DEF Next

\* The hint stays right: a taken frame was the lowest, a freed one moves it.
LEMMA HintKept ==
    ASSUME Layout, IInv, HintOK, FrameStep
    PROVE  HintOK'
<1>1. /\ last_alloc_index \in Nat /\ \A i \in Pool : i \in Nat
      /\ owned \subseteq Pool /\ FirstPage \in Nat
      BY Constants, Parts DEF IInv, Hints, Pool
<1>2. CASE Tests
  <2>1. \A i \in Pool : i < FirstPage + 2 => i \in Kept
        BY <1>1 DEF Pool, Kept
  <2> QED BY <1>2, <2>1 DEF Tests, HintOK
<1>3. ASSUME NEW t \in Pool, Takes(t) PROVE HintOK'
  <2>1. ASSUME NEW i \in Pool, i < t + 1 PROVE i \in FramesTaken \cup {t}
    <3>1. i \in Nat /\ t \in Nat BY <1>1
    <3>2. CASE i = t BY <3>2
    <3>3. CASE i # t
      <4>1. ~(t <= i) BY <2>1, <3>1, <3>3
      <4> QED BY <1>3, <4>1 DEF Takes, FramesFree
    <3> QED BY <3>2, <3>3
  <2> QED BY <1>3, <2>1 DEF Takes, HintOK
<1>4. ASSUME NEW i \in owned, Frees(i) PROVE HintOK'
  <2>1. i \in Nat BY <1>1
  <2>2. ASSUME NEW j \in Pool, j < last_alloc_index'
        PROVE  j < last_alloc_index /\ j # i
        BY <1>1, <1>4, <2>1, <2>2 DEF Frees
  <2>3. \A j \in Pool : j < last_alloc_index' => j \in FramesTaken \ {i}
        BY <2>2 DEF HintOK
  <2> QED BY <1>4, <2>3 DEF Frees, HintOK
<1>5. CASE Leaves BY <1>5 DEF Leaves, HintOK
<1> QED BY <1>2, <1>3, <1>4, <1>5 DEF FrameStep

LEMMA HintInvariant == ASSUME Layout PROVE BelowSpec => []HintOK
<1>1. Init => HintOK
  <2> SUFFICES ASSUME Init, NEW i \in Pool, i < FirstPage PROVE FALSE
      BY DEF Init, HintOK
  <2> QED BY Constants DEF Pool
<1>2. IInv /\ HintOK /\ [Next /\ Below']_vars => HintOK'
  <2> SUFFICES ASSUME IInv, HintOK, [Next /\ Below']_vars PROVE HintOK'
      OBVIOUS
  <2>1. CASE Next /\ Below' BY <2>1, FramesNext, HintKept
  <2>2. CASE UNCHANGED vars
        BY <2>2 DEF vars, HintOK, FramesTaken, Byte
  <2> QED BY <2>1, <2>2
<1> QED BY <1>1, <1>2, Invariant, PTL DEF BelowSpec

(***************************************************************************)
(* Below the directory the bitmap in memory changes by one frame at a      *)
(* time, whoever asks: a caller, vmm_init or vmm_map_page gets the lowest  *)
(* free frame (PMM.c:46), a frame comes back only from a caller that held  *)
(* it, and what the virtual memory manager and the holders of frames write *)
(* changes no byte of it.  pmm_test takes its three in one step.           *)
(***************************************************************************)
THEOREM FrameByFrameCorrect ==
    ASSUME Layout
    PROVE  BelowSpec => FrameByFrame
<1> DEFINE A == \/ pmm_test /\ FramesTaken = {} /\ FramesTaken' = kept'
                \/ \E i \in FramesFree : /\ \A j \in FramesFree : i <= j
                                         /\ FramesTaken' = FramesTaken \cup {i}
                \/ \E i \in owned : FramesTaken' = FramesTaken \ {i}
                \/ FramesTaken' = FramesTaken
<1>1. ASSUME IInv, HintOK, Next, Below' PROVE A
  <2>1. FrameStep BY <1>1, FramesNext
  <2>2. CASE Tests BY <2>2 DEF Tests
  <2>3. ASSUME NEW t \in Pool, Takes(t) PROVE A BY <2>3 DEF Takes
  <2>4. ASSUME NEW i \in owned, Frees(i) PROVE A BY <2>4 DEF Frees
  <2>5. CASE Leaves BY <2>5 DEF Leaves
  <2> QED BY <2>1, <2>2, <2>3, <2>4, <2>5 DEF FrameStep
<1>2. IInv /\ HintOK /\ [Next /\ Below']_vars => [A]_vars BY <1>1
<1> QED BY <1>2, Invariant, HintInvariant, PTL DEF BelowSpec, FrameByFrame

(***************************************************************************)
(* A page table stays where it is: no call gives its frame back or enters  *)
(* another one for its window, so that a pointer into it stays good        *)
(* (VMM.c:44-62).                                                          *)
(***************************************************************************)
THEOREM TablesStayCorrect ==
    ASSUME Layout
    PROVE  BelowSpec => TablesStay
<1>1. ASSUME IInv, Next, Below', ready PROVE Grows(mem, mem') /\ ready'
  <2>1. CASE pmm_test BY <1>1, <2>1 DEF pmm_test, ready
  <2>2. CASE vmm_init BY <1>1, <2>2 DEF vmm_init, ready
  <2>3. CASE alloc_page
    <3>1. mem'[DirFrame] = mem[DirFrame] BY <1>1, <2>3, AllocStep
    <3> QED BY <1>1, <2>3, <3>1 DEF Grows, alloc_page, ready
  <2>4. ASSUME NEW i \in owned, pmm_free_page(i)
        PROVE  Grows(mem, mem') /\ ready'
    <3>1. mem'[DirFrame] = mem[DirFrame] BY <1>1, <2>4, FreeStep
    <3> QED BY <1>1, <2>4, <3>1 DEF Grows, pmm_free_page, ready
  <2>5. ASSUME NEW i \in owned, Use(i) PROVE Grows(mem, mem') /\ ready'
    <3>1. mem'[DirFrame] = mem[DirFrame] BY <1>1, <2>5, UseStep
    <3> QED BY <1>1, <2>5, <3>1 DEF Grows, Use, ready
  <2>6. ASSUME NEW v \in UserPages, NEW p \in owned, vmm_map_page(v, p)
        PROVE  Grows(mem, mem') /\ ready'
    <3>1. Grows(mem, mem') BY <1>1, <2>6, MapStep
    <3> QED BY <1>1, <2>6, <3>1 DEF vmm_map_page, ready
  <2>7. ASSUME NEW v \in UserPages, vmm_unmap_page(v)
        PROVE  Grows(mem, mem') /\ ready'
    <3>1. mem'[DirFrame] = mem[DirFrame] BY <1>1, <2>7, UnmapStep
    <3> QED BY <1>1, <2>7, <3>1 DEF Grows, vmm_unmap_page, ready
  <2> QED BY <1>1, <2>1, <2>2, <2>3, <2>4, <2>5, <2>6, <2>7 DEF Next
<1>2. ASSUME IInv, Next, Below', NEW d \in Windows
      PROVE  d \in Windows' /\ TableOf(d)' = TableOf(d)
  <2>1. /\ ready /\ d \in Slots \ {AliasEntry} /\ Present(mem[DirFrame][d])
        BY DEF Windows
  <2>2. ready' /\ mem'[DirFrame][d] = mem[DirFrame][d]
        BY <1>1, <1>2, <2>1 DEF Grows
  <2> QED BY <2>1, <2>2 DEF Windows, TableOf
<1>3. IInv /\ [Next /\ Below']_vars
        => [\A d \in Windows : d \in Windows' /\ TableOf(d)' = TableOf(d)]_vars
      BY <1>2
<1> QED BY <1>3, Invariant, PTL DEF BelowSpec, TablesStay
=============================================================================
