-------------------------- MODULE LegacyHeap_proofs -------------------------
(***************************************************************************)
(* Proofs about the first kernel's heap, for every size of it, every       *)
(* rounding, every threshold and every order of calls by careful callers:  *)
(* blocks, lists and the callers' data share the words of one memory.      *)
(***************************************************************************)
EXTENDS LegacyHeap, FiniteSetTheorems, WellFoundedInduction, TLAPS

Memory == [Heap -> Int]

\* The fields of the header at h.
Nx(m, h) == Get(m, next(h))
Pv(m, h) == Get(m, prev(h))
Sz(m, h) == Get(m, size(h))
Us(m, h) == Get(m, used(h))

\* Headers that do not overlap.
Spread(bs) ==
    /\ \A h \in bs : h \in Nat /\ h + BLOCK_SIZE <= HEAP_SIZE
    /\ \A g, h \in bs : g < h => g + BLOCK_SIZE <= h

(***************************************************************************)
(* The blocks at bs lie one behind the other, from the first word of the   *)
(* heap to its last.                                                       *)
(***************************************************************************)
Tiled(m, bs) ==
    /\ bs \subseteq Heap /\ 0 \in bs
    /\ \A h \in bs : /\ Get(m, magic(h)) = BLOCK_MAGIC /\ Sz(m, h) \in Nat
                     /\ End(m, h) \in bs \cup {HEAP_SIZE}
    /\ \A g, h \in bs : g < h => End(m, g) <= h
    /\ \A h \in bs \ {0} : \E g \in bs : End(m, g) = h
    /\ \E g \in bs : End(m, g) = HEAP_SIZE

(***************************************************************************)
(* The headers in S are linked both ways, from first on, in the order of   *)
(* r, the highest first: next leads to the next lower one.                 *)
(***************************************************************************)
Chain(m, S, first, r) ==
    /\ first \in S \cup {NULL} /\ (first = NULL => S = {})
    /\ \A h \in S : r[h] <= r[first]
    /\ \A g, h \in S : r[g] = r[h] => g = h
    /\ \A h \in S : \/ Pv(m, h) = NULL /\ h = first
                    \/ Pv(m, h) \in S /\ Nx(m, Pv(m, h)) = h
    /\ \A h \in S : \/ Nx(m, h) = NULL
                    \/ /\ Nx(m, h) \in S /\ Pv(m, Nx(m, h)) = h
                       /\ r[Nx(m, h)] < r[h]
    /\ \A g, h \in S : r[g] < r[h] => Nx(m, h) # NULL /\ r[g] <= r[Nx(m, h)]

-----------------------------------------------------------------------------
(***************************************************************************)
(* Words and fields.                                                       *)
(***************************************************************************)
LEMMA Facts ==
    /\ HEAP_SIZE \in Nat /\ BLOCK_SIZE = 5 /\ BLOCK_SIZE < HEAP_SIZE
    /\ HEAP_SIZE < WORD /\ WORD \in Nat /\ MIN_SPLIT \in Nat
    /\ NULL \in Int /\ NULL \notin Heap /\ NULL < 0 /\ BLOCK_MAGIC \in Int
    /\ Heap \subseteq Nat /\ \A a \in Nat : a < HEAP_SIZE => a \in Heap
BY LegacyHeapAssumption DEF BLOCK_SIZE, NULL, Heap, BLOCK_MAGIC

\* What is read from memory is a number.
LEMMA GetType == \A m \in Memory, a \in Int : Get(m, a) \in Int
BY DEF Memory, Get

\* A word written is the one changed.
LEMMA GetPut ==
    ASSUME NEW m \in Memory, NEW a \in Int, NEW x \in Int
    PROVE  /\ Put(m, a, x) \in Memory
           /\ \A b \in Heap : Get(Put(m, a, x), b)
                                 = IF b = a THEN x ELSE Get(m, b)
BY DEF Memory, Get, Put

\* Fields of headers that do not overlap are different words.
LEMMA Fields ==
    ASSUME NEW bs, Spread(bs)
    PROVE  /\ bs \subseteq Heap /\ NULL \notin bs
           /\ \A h \in bs : /\ h \in Int
                            /\ magic(h) \in Heap /\ size(h) \in Heap
                            /\ used(h) \in Heap /\ next(h) \in Heap
                            /\ prev(h) \in Heap
           /\ \A g, h \in bs :
                 /\ magic(g) = magic(h) => g = h
                 /\ size(g) = size(h) => g = h
                 /\ used(g) = used(h) => g = h
                 /\ next(g) = next(h) => g = h
                 /\ prev(g) = prev(h) => g = h
                 /\ next(g) # prev(h)
                 /\ next(g) # magic(h) /\ next(g) # size(h) /\ next(g) # used(h)
                 /\ prev(g) # magic(h) /\ prev(g) # size(h) /\ prev(g) # used(h)
                 /\ used(g) # magic(h) /\ used(g) # size(h)
                 /\ size(g) # magic(h)
<1>1. \A h \in bs : h \in Nat /\ h + 5 <= HEAP_SIZE BY Facts DEF Spread
<1>2. \A g, h \in bs : g < h => g + 5 <= h BY Facts DEF Spread
<1>3. bs \subseteq Heap /\ NULL \notin bs BY <1>1, Facts
<1>4. ASSUME NEW h \in bs
      PROVE  /\ h \in Int /\ magic(h) \in Heap /\ size(h) \in Heap
             /\ used(h) \in Heap /\ next(h) \in Heap /\ prev(h) \in Heap
      BY <1>1, LegacyHeapAssumption DEF magic, size, used, next, prev, Heap
<1>5. ASSUME NEW g \in bs, NEW h \in bs
      PROVE  /\ magic(g) = magic(h) => g = h
             /\ size(g) = size(h) => g = h
             /\ used(g) = used(h) => g = h
             /\ next(g) = next(h) => g = h
             /\ prev(g) = prev(h) => g = h
             /\ next(g) # prev(h)
             /\ next(g) # magic(h) /\ next(g) # size(h) /\ next(g) # used(h)
             /\ prev(g) # magic(h) /\ prev(g) # size(h) /\ prev(g) # used(h)
             /\ used(g) # magic(h) /\ used(g) # size(h)
             /\ size(g) # magic(h)
  <2>1. g \in Nat /\ h \in Nat /\ (g = h \/ g + 5 <= h \/ h + 5 <= g)
        BY <1>1, <1>2
  <2> QED BY <2>1 DEF magic, size, used, next, prev
<1> QED BY <1>3, <1>4, <1>5

\* Nothing but links of the headers at bs changes from m to m1.
Relinked(m, m1, bs) ==
    /\ m1 \in Memory
    /\ \A a \in Heap : (\A h \in bs : a # next(h) /\ a # prev(h))
                          => Get(m1, a) = Get(m, a)

\* Writing next, of a header or of none, changes that link only.
LEMMA PutNext ==
    ASSUME NEW bs, Spread(bs), NEW m \in Memory, NEW h \in bs \cup {NULL},
           NEW x \in Int
    PROVE  LET m1 == PutIf(m, h, next(h), x)
           IN  /\ Relinked(m, m1, bs)
               /\ \A g \in bs : /\ Nx(m1, g) = IF g = h THEN x ELSE Nx(m, g)
                                /\ Pv(m1, g) = Pv(m, g)
<1>1. CASE h = NULL
  <2>1. PutIf(m, h, next(h), x) = m /\ h \notin bs BY <1>1, Fields DEF PutIf
  <2>2. Relinked(m, m, bs) BY DEF Relinked
  <2> QED BY <2>1, <2>2
<1>2. CASE h # NULL
  <2> DEFINE m1 == Put(m, next(h), x)
  <2>0. h \in bs BY <1>2
  <2>1. h \in bs /\ next(h) \in Int /\ next(h) \in Heap
        BY <2>0, Fields DEF Heap
  <2>2. /\ m1 \in Memory
        /\ \A b \in Heap : Get(m1, b) = IF b = next(h) THEN x ELSE Get(m, b)
        BY <2>1, GetPut
  <2>3. PutIf(m, h, next(h), x) = m1 BY <1>2 DEF PutIf
  <2> HIDE DEF m1
  <2>4. ASSUME NEW g \in bs
        PROVE  /\ Nx(m1, g) = IF g = h THEN x ELSE Nx(m, g)
               /\ Pv(m1, g) = Pv(m, g)
    <3>1. /\ next(g) \in Heap /\ prev(g) \in Heap /\ prev(g) # next(h)
          /\ next(g) = next(h) <=> g = h
          BY <2>1, Fields
    <3> QED BY <2>2, <3>1 DEF Nx, Pv
  <2>5. Relinked(m, m1, bs) BY <2>1, <2>2 DEF Relinked
  <2> QED BY <2>3, <2>4, <2>5
<1> QED BY <1>1, <1>2

\* Writing prev, of a header or of none, changes that link only.
LEMMA PutPrev ==
    ASSUME NEW bs, Spread(bs), NEW m \in Memory, NEW h \in bs \cup {NULL},
           NEW x \in Int
    PROVE  LET m1 == PutIf(m, h, prev(h), x)
           IN  /\ Relinked(m, m1, bs)
               /\ \A g \in bs : /\ Pv(m1, g) = IF g = h THEN x ELSE Pv(m, g)
                                /\ Nx(m1, g) = Nx(m, g)
<1>1. CASE h = NULL
  <2>1. PutIf(m, h, prev(h), x) = m /\ h \notin bs BY <1>1, Fields DEF PutIf
  <2>2. Relinked(m, m, bs) BY DEF Relinked
  <2> QED BY <2>1, <2>2
<1>2. CASE h # NULL
  <2> DEFINE m1 == Put(m, prev(h), x)
  <2>0. h \in bs BY <1>2
  <2>1. h \in bs /\ prev(h) \in Int /\ prev(h) \in Heap
        BY <2>0, Fields DEF Heap
  <2>2. /\ m1 \in Memory
        /\ \A b \in Heap : Get(m1, b) = IF b = prev(h) THEN x ELSE Get(m, b)
        BY <2>1, GetPut
  <2>3. PutIf(m, h, prev(h), x) = m1 BY <1>2 DEF PutIf
  <2> HIDE DEF m1
  <2>4. ASSUME NEW g \in bs
        PROVE  /\ Pv(m1, g) = IF g = h THEN x ELSE Pv(m, g)
               /\ Nx(m1, g) = Nx(m, g)
    <3>1. /\ next(g) \in Heap /\ prev(g) \in Heap /\ next(g) # prev(h)
          /\ prev(g) = prev(h) <=> g = h
          BY <2>1, Fields
    <3> QED BY <2>2, <3>1 DEF Nx, Pv
  <2>5. Relinked(m, m1, bs) BY <2>1, <2>2 DEF Relinked
  <2> QED BY <2>3, <2>4, <2>5
<1> QED BY <1>1, <1>2

\* Relinking keeps the other fields.
LEMMA RelinkedFields ==
    ASSUME NEW bs, Spread(bs), NEW m, NEW m1, Relinked(m, m1, bs)
    PROVE  \A g \in bs : /\ Sz(m1, g) = Sz(m, g) /\ Us(m1, g) = Us(m, g)
                         /\ Get(m1, magic(g)) = Get(m, magic(g))
                         /\ End(m1, g) = End(m, g)
<1> SUFFICES ASSUME NEW g \in bs
             PROVE  /\ Sz(m1, g) = Sz(m, g) /\ Us(m1, g) = Us(m, g)
                    /\ Get(m1, magic(g)) = Get(m, magic(g))
                    /\ End(m1, g) = End(m, g)
    OBVIOUS
<1>1. /\ size(g) \in Heap /\ used(g) \in Heap /\ magic(g) \in Heap
      /\ \A h \in bs : /\ size(g) # next(h) /\ size(g) # prev(h)
                       /\ used(g) # next(h) /\ used(g) # prev(h)
                       /\ magic(g) # next(h) /\ magic(g) # prev(h)
      BY Fields
<1> QED BY <1>1 DEF Relinked, Sz, Us, End

\* Links changed twice are links changed.
LEMMA RelinkedTwice ==
    ASSUME NEW bs, NEW m, NEW m1, NEW m2,
           Relinked(m, m1, bs), Relinked(m1, m2, bs)
    PROVE  Relinked(m, m2, bs)
BY DEF Relinked

-----------------------------------------------------------------------------
(***************************************************************************)
(* Lists.                                                                  *)
(***************************************************************************)
LEMMA ChainFrame ==
    ASSUME NEW m, NEW m1, NEW S, NEW first, NEW r, NEW r1,
           Chain(m, S, first, r),
           \A h \in S : /\ Nx(m1, h) = Nx(m, h) /\ Pv(m1, h) = Pv(m, h)
                        /\ r1[h] = r[h]
    PROVE  Chain(m1, S, first, r1)
<1>1. first \in S \cup {NULL} /\ (first = NULL => S = {}) BY DEF Chain
<1>2. \A h \in S : first \in S BY <1>1
<1>3. \A h \in S : r1[h] <= r1[first] BY <1>2 DEF Chain
<1>4. \A g, h \in S : r1[g] = r1[h] => g = h BY DEF Chain
<1>5. \A h \in S : \/ Pv(m1, h) = NULL /\ h = first
                   \/ Pv(m1, h) \in S /\ Nx(m1, Pv(m1, h)) = h
      BY DEF Chain
<1>6. \A h \in S : \/ Nx(m1, h) = NULL
                   \/ /\ Nx(m1, h) \in S /\ Pv(m1, Nx(m1, h)) = h
                      /\ r1[Nx(m1, h)] < r1[h]
      BY DEF Chain
<1>7. \A g, h \in S : r1[g] < r1[h]
                        => Nx(m1, h) # NULL /\ r1[g] <= r1[Nx(m1, h)]
  <2> SUFFICES ASSUME NEW g \in S, NEW h \in S, r1[g] < r1[h]
               PROVE  Nx(m1, h) # NULL /\ r1[g] <= r1[Nx(m1, h)]
      OBVIOUS
  <2>1. Nx(m, h) # NULL /\ r[g] <= r[Nx(m, h)] BY DEF Chain
  <2>2. Nx(m, h) \in S BY <2>1 DEF Chain
  <2> QED BY <2>1, <2>2
<1> QED BY <1>1, <1>3, <1>4, <1>5, <1>6, <1>7 DEF Chain

\* What the neighbours of h have of it.
Beside(m, S, first, r, h) ==
    /\ \A g \in S : Nx(m, g) = h <=> g = Pv(m, h)
    /\ \A g \in S : Pv(m, g) = h <=> g = Nx(m, h)
    /\ Pv(m, h) \in S \cup {NULL} /\ Nx(m, h) \in S \cup {NULL}
    /\ Pv(m, h) = NULL <=> h = first
    /\ Pv(m, h) # h /\ Nx(m, h) # h
    /\ Pv(m, h) # NULL => r[h] < r[Pv(m, h)]
    /\ Nx(m, h) # NULL => r[Nx(m, h)] < r[h]
    /\ Pv(m, h) # Nx(m, h) \/ Pv(m, h) = NULL

\* The neighbours on a list point at each other, and at nobody else.
LEMMA Neighbours ==
    ASSUME NEW m, NEW S, NULL \notin S, NEW first, NEW r \in [Heap -> Int],
           S \subseteq Heap, Chain(m, S, first, r), NEW h \in S
    PROVE  Beside(m, S, first, r, h)
<1>0. \A g \in S : r[g] \in Int OBVIOUS
<1>1. /\ Pv(m, h) \in S \cup {NULL} /\ Nx(m, h) \in S \cup {NULL}
      /\ Nx(m, h) # NULL => Pv(m, Nx(m, h)) = h /\ r[Nx(m, h)] < r[h]
      /\ Pv(m, h) # NULL => Nx(m, Pv(m, h)) = h
      BY DEF Chain
<1>2. Pv(m, h) # NULL => r[h] < r[Pv(m, h)]
  <2> SUFFICES ASSUME Pv(m, h) # NULL PROVE r[h] < r[Pv(m, h)] OBVIOUS
  <2>1. Pv(m, h) \in S /\ Nx(m, Pv(m, h)) = h BY <1>1
  <2> QED BY <2>1 DEF Chain
<1>3. \A g \in S : Nx(m, g) = h <=> g = Pv(m, h)
  <2>1. ASSUME NEW g \in S, Nx(m, g) = h PROVE g = Pv(m, h)
        BY <2>1 DEF Chain
  <2>2. ASSUME NEW g \in S, g = Pv(m, h) PROVE Nx(m, g) = h
        BY <2>2 DEF Chain
  <2> QED BY <2>1, <2>2
<1>4. \A g \in S : Pv(m, g) = h <=> g = Nx(m, h)
  <2>1. ASSUME NEW g \in S, Pv(m, g) = h PROVE g = Nx(m, h)
        BY <2>1 DEF Chain
  <2>2. ASSUME NEW g \in S, g = Nx(m, h) PROVE Pv(m, g) = h
        BY <2>2 DEF Chain
  <2> QED BY <2>1, <2>2
<1>5. Pv(m, h) = NULL <=> h = first
  <2>1. ASSUME Pv(m, h) = NULL PROVE h = first BY <2>1 DEF Chain
  <2>2. ASSUME h = first, Pv(m, h) # NULL PROVE FALSE
    <3>1. Pv(m, h) \in S /\ r[h] < r[Pv(m, h)] BY <1>1, <1>2, <2>2
    <3>2. r[Pv(m, h)] <= r[h] BY <2>2, <3>1 DEF Chain
    <3> QED BY <1>0, <3>1, <3>2
  <2> QED BY <2>1, <2>2
<1>6. Pv(m, h) # h /\ Nx(m, h) # h BY <1>0, <1>1, <1>2
<1>7. Pv(m, h) # Nx(m, h) \/ Pv(m, h) = NULL
  <2> SUFFICES ASSUME Pv(m, h) = Nx(m, h), Pv(m, h) # NULL PROVE FALSE
      OBVIOUS
  <2>1. Pv(m, h) \in S BY <1>1
  <2> QED BY <1>0, <1>1, <1>2, <2>1
<1> QED BY <1>1, <1>2, <1>3, <1>4, <1>5, <1>6, <1>7 DEF Beside

\* Taking h off its list.
LEMMA ChainRemove ==
    ASSUME NEW m, NEW m1, NEW S, NULL \notin S, S \subseteq Heap,
           NEW first, NEW r \in [Heap -> Int],
           Chain(m, S, first, r), NEW h \in S,
           \A g \in S \ {h} :
              /\ Nx(m1, g) = IF g = Pv(m, h) THEN Nx(m, h) ELSE Nx(m, g)
              /\ Pv(m1, g) = IF g = Nx(m, h) THEN Pv(m, h) ELSE Pv(m, g)
    PROVE  Chain(m1, S \ {h}, IF Pv(m, h) = NULL THEN Nx(m, h) ELSE first, r)
<1> DEFINE T == S \ {h}
           p == Pv(m, h)
           n == Nx(m, h)
           f == IF p = NULL THEN n ELSE first
<1>0. \A g \in S : r[g] \in Int OBVIOUS
<1>1. /\ p \in T \cup {NULL} /\ n \in T \cup {NULL}
      /\ p = NULL <=> h = first
      /\ p # NULL => r[h] < r[p] /\ Nx(m, p) = h
      /\ n # NULL => r[n] < r[h] /\ Pv(m, n) = h
      /\ \A g \in S : Nx(m, g) = h <=> g = p
      /\ \A g \in S : Pv(m, g) = h <=> g = n
      /\ p # n \/ p = NULL
      BY Neighbours DEF Beside
<1>2. \A g \in T : /\ Nx(m1, g) = IF g = p THEN n ELSE Nx(m, g)
                   /\ Pv(m1, g) = IF g = n THEN p ELSE Pv(m, g)
      OBVIOUS
<1>3. /\ first \in S \cup {NULL} /\ (first = NULL => S = {})
      /\ \A g \in S : r[g] <= r[first]
      /\ \A g, k \in S : r[g] = r[k] => g = k
      /\ \A g \in S : \/ Pv(m, g) = NULL /\ g = first
                      \/ Pv(m, g) \in S /\ Nx(m, Pv(m, g)) = g
      /\ \A g \in S : \/ Nx(m, g) = NULL
                      \/ /\ Nx(m, g) \in S /\ Pv(m, Nx(m, g)) = g
                         /\ r[Nx(m, g)] < r[g]
      /\ \A g, k \in S : r[g] < r[k] => Nx(m, k) # NULL /\ r[g] <= r[Nx(m, k)]
      BY DEF Chain
<1> HIDE DEF p, n
\* What was below h is below n.
<1>4. \A g \in T : r[g] < r[h] => n # NULL /\ r[g] <= r[n]
      BY <1>3 DEF n
<1>5. \A g \in T : r[g] < r[h] \/ r[h] < r[g] BY <1>0, <1>3
<1>6. f \in T \cup {NULL} /\ (f = NULL => T = {})
  <2>1. CASE p = NULL
    <3>1. \A g \in T : r[g] < r[h]
      <4> SUFFICES ASSUME NEW g \in T PROVE r[g] < r[h] OBVIOUS
      <4>1. r[g] <= r[h] BY <1>1, <1>3, <2>1
      <4> QED BY <1>0, <1>5, <4>1
    <3> QED BY <1>1, <1>4, <2>1, <3>1
  <2>2. CASE p # NULL BY <1>1, <1>3, <2>2
  <2> QED BY <2>1, <2>2
<1>7. \A g \in T : r[g] <= r[f]
  <2> SUFFICES ASSUME NEW g \in T PROVE r[g] <= r[f] OBVIOUS
  <2>1. CASE p = NULL
    <3>1. r[g] <= r[h] BY <1>1, <1>3, <2>1
    <3>2. r[g] < r[h] BY <1>0, <1>5, <3>1
    <3> QED BY <1>4, <2>1, <3>2
  <2>2. CASE p # NULL BY <1>3, <2>2
  <2> QED BY <2>1, <2>2
<1>8. \A g, k \in T : r[g] = r[k] => g = k BY <1>3
<1>9. ASSUME NEW g \in T
      PROVE  \/ Pv(m1, g) = NULL /\ g = f
             \/ Pv(m1, g) \in T /\ Nx(m1, Pv(m1, g)) = g
  <2>1. CASE g = n
    <3>1. Pv(m1, g) = p BY <1>2, <2>1
    <3>2. CASE p = NULL BY <2>1, <3>1, <3>2
    <3>3. CASE p # NULL
      <4>1. p \in T BY <1>1, <3>3
      <4>2. Nx(m1, p) = n BY <1>2, <4>1
      <4> QED BY <2>1, <3>1, <4>1, <4>2
    <3> QED BY <3>2, <3>3
  <2>2. CASE g # n
    <3>1. Pv(m1, g) = Pv(m, g) /\ Pv(m, g) # h BY <1>1, <1>2, <2>2
    <3>2. CASE Pv(m, g) = NULL
      <4>1. g = first
        <5>1. Beside(m, S, first, r, g) BY Neighbours
        <5> QED BY <3>2, <5>1 DEF Beside
      <4>2. p # NULL BY <1>1, <4>1
      <4> QED BY <3>1, <3>2, <4>1, <4>2
    <3>3. CASE Pv(m, g) # NULL
      <4>1. Pv(m, g) \in T /\ Nx(m, Pv(m, g)) = g BY <1>3, <3>1, <3>3
      <4>2. Pv(m, g) # p BY <1>1, <4>1
      <4> QED BY <1>2, <3>1, <4>1, <4>2
    <3> QED BY <3>2, <3>3
  <2> QED BY <2>1, <2>2
<1>10. ASSUME NEW g \in T
       PROVE  \/ Nx(m1, g) = NULL
              \/ /\ Nx(m1, g) \in T /\ Pv(m1, Nx(m1, g)) = g
                 /\ r[Nx(m1, g)] < r[g]
  <2>1. CASE g = p
    <3>1. Nx(m1, g) = n BY <1>2, <2>1
    <3>2. CASE n # NULL
      <4>1. n \in T /\ Pv(m1, n) = p BY <1>1, <1>2, <3>2
      <4>2. r[n] < r[h] /\ r[h] < r[p] BY <1>1, <2>1, <3>2, Facts
      <4>3. r[n] < r[p] BY <1>0, <1>1, <2>1, <4>1, <4>2
      <4> QED BY <2>1, <3>1, <4>1, <4>3
    <3> QED BY <3>1, <3>2
  <2>2. CASE g # p
    <3>1. Nx(m1, g) = Nx(m, g) /\ Nx(m, g) # h BY <1>1, <1>2, <2>2
    <3>2. CASE Nx(m, g) # NULL
      <4>1. Nx(m, g) \in T /\ Pv(m, Nx(m, g)) = g /\ r[Nx(m, g)] < r[g]
            BY <1>3, <3>1, <3>2
      <4>2. Nx(m, g) # n BY <1>1, <4>1
      <4> QED BY <1>2, <3>1, <4>1, <4>2
    <3> QED BY <3>1, <3>2
  <2> QED BY <2>1, <2>2
<1>11. ASSUME NEW g \in T, NEW k \in T, r[g] < r[k]
       PROVE  Nx(m1, k) # NULL /\ r[g] <= r[Nx(m1, k)]
  <2>1. Nx(m, k) # NULL /\ r[g] <= r[Nx(m, k)] BY <1>3, <1>11
  <2>2. CASE k = p
    <3>1. Nx(m, k) = h BY <1>1, <2>2
    <3>2. r[g] < r[h] BY <1>0, <1>5, <2>1, <3>1
    <3> QED BY <1>2, <1>4, <2>2, <3>2
  <2>3. CASE k # p BY <1>2, <2>1, <2>3
  <2> QED BY <2>2, <2>3
<1>12. Chain(m1, T, f, r)
  <2> HIDE DEF T, f
  <2> QED BY <1>6, <1>7, <1>8, <1>9, <1>10, <1>11 DEF Chain
<1> QED BY <1>12 DEF p, n

\* Putting h between p and c, neighbours on the list.
LEMMA ChainInsertion ==
    ASSUME NEW m, NEW m1, NEW S, NULL \notin S, S \subseteq Heap,
           NEW first, NEW r \in [Heap -> Int],
           Chain(m, S, first, r), NEW h \in Heap \ S,
           NEW p \in S \cup {NULL}, NEW c \in S \cup {NULL},
           p = NULL => c = first,
           p # NULL => Nx(m, p) = c /\ r[h] < r[p],
           c # NULL => r[c] < r[h],
           \A g \in S : /\ Nx(m1, g) = IF g = p THEN h ELSE Nx(m, g)
                        /\ Pv(m1, g) = IF g = c THEN h ELSE Pv(m, g),
           Nx(m1, h) = c, Pv(m1, h) = p
    PROVE  Chain(m1, S \cup {h}, IF p = NULL THEN h ELSE first, r)
<1> DEFINE T == S \cup {h}
           f == IF p = NULL THEN h ELSE first
<1>0. (\A g \in T : r[g] \in Int) /\ h # NULL /\ h \notin S BY Facts
<1>1. /\ first \in S \cup {NULL} /\ (first = NULL => S = {})
      /\ \A g \in S : r[g] <= r[first]
      /\ \A g, k \in S : r[g] = r[k] => g = k
      /\ \A g \in S : \/ Pv(m, g) = NULL /\ g = first
                      \/ Pv(m, g) \in S /\ Nx(m, Pv(m, g)) = g
      /\ \A g \in S : \/ Nx(m, g) = NULL
                      \/ /\ Nx(m, g) \in S /\ Pv(m, Nx(m, g)) = g
                         /\ r[Nx(m, g)] < r[g]
      /\ \A g, k \in S : r[g] < r[k] => Nx(m, k) # NULL /\ r[g] <= r[Nx(m, k)]
      BY DEF Chain
\* Those from c on are below h, the others above it.
<1>2. ASSUME NEW g \in S
      PROVE  \/ c # NULL /\ r[g] <= r[c] /\ r[g] < r[h]
             \/ p # NULL /\ r[p] <= r[g] /\ r[h] < r[g]
  <2>1. CASE p = NULL
    <3>1. c # NULL /\ c \in S /\ r[g] <= r[c] BY <1>1, <2>1
    <3> QED BY <1>0, <3>1
  <2>2. CASE p # NULL
    <3>1. p \in S BY <2>2
    <3>2. CASE r[g] < r[p]
      <4>1. c # NULL /\ c \in S /\ r[g] <= r[c] BY <1>1, <2>2, <3>1, <3>2
      <4> QED BY <1>0, <4>1
    <3>3. CASE ~(r[g] < r[p]) BY <1>0, <2>2, <3>1, <3>3
    <3> QED BY <3>2, <3>3
  <2> QED BY <2>1, <2>2
<1>3. f \in T \cup {NULL} /\ f # NULL
      BY <1>0, <1>1
<1>4. \A g \in T : r[g] <= r[f]
  <2>1. CASE p = NULL
    <3>1. \A g \in S : r[g] < r[h] BY <1>2, <2>1
    <3> QED BY <1>0, <2>1, <3>1
  <2>2. CASE p # NULL
    <3>1. p \in S /\ first \in S /\ r[p] <= r[first] /\ r[h] < r[p]
          BY <1>1, <2>2
    <3>2. r[h] <= r[first] BY <1>0, <3>1
    <3> QED BY <1>1, <2>2, <3>2
  <2> QED BY <2>1, <2>2
<1>5. \A g, k \in T : r[g] = r[k] => g = k
  <2>1. \A g \in S : r[g] # r[h] BY <1>0, <1>2
  <2> QED BY <1>1, <2>1
<1>6. p # NULL /\ c # NULL => Pv(m, c) = p BY <1>1
<1>7. p = NULL /\ c # NULL => Pv(m, c) = NULL
  <2> SUFFICES ASSUME p = NULL, c # NULL, Pv(m, c) # NULL PROVE FALSE
      OBVIOUS
  <2>1. c = first /\ c \in S /\ Pv(m, c) \in S /\ Nx(m, Pv(m, c)) = c
        BY <1>1
  <2>2. r[c] < r[Pv(m, c)] BY <1>0, <1>1, <2>1
  <2>3. r[Pv(m, c)] <= r[c] BY <1>1, <2>1
  <2> QED BY <1>0, <2>1, <2>2, <2>3
<1>8. ASSUME NEW g \in T
      PROVE  \/ Pv(m1, g) = NULL /\ g = f
             \/ Pv(m1, g) \in T /\ Nx(m1, Pv(m1, g)) = g
  <2>1. CASE g = h BY <2>1
  <2>2. CASE g \in S /\ g = c BY <2>2
  <2>3. CASE g \in S /\ g # c
    <3>1. Pv(m1, g) = Pv(m, g) BY <2>3
    <3>2. CASE Pv(m, g) = NULL
      <4>1. g = first BY <1>0, <1>1, <2>3, <3>2
      <4>2. p # NULL BY <2>3, <4>1
      <4> QED BY <3>1, <3>2, <4>1, <4>2
    <3>3. CASE Pv(m, g) # NULL
      <4>1. Pv(m, g) \in S /\ Nx(m, Pv(m, g)) = g BY <1>1, <2>3, <3>3
      <4>2. Pv(m, g) # p BY <1>0, <2>3, <4>1
      <4> QED BY <3>1, <4>1, <4>2
    <3> QED BY <3>2, <3>3
  <2> QED BY <2>1, <2>2, <2>3
<1>9. ASSUME NEW g \in T
      PROVE  \/ Nx(m1, g) = NULL
             \/ /\ Nx(m1, g) \in T /\ Pv(m1, Nx(m1, g)) = g
                /\ r[Nx(m1, g)] < r[g]
  <2>1. CASE g = h
    <3>1. Nx(m1, g) = c BY <2>1
    <3> QED BY <1>0, <2>1, <3>1
  <2>2. CASE g \in S /\ g = p BY <1>0, <2>2
  <2>3. CASE g \in S /\ g # p
    <3>1. Nx(m1, g) = Nx(m, g) BY <2>3
    <3>2. CASE Nx(m, g) # NULL
      <4>1. Nx(m, g) \in S /\ Pv(m, Nx(m, g)) = g /\ r[Nx(m, g)] < r[g]
            BY <1>1, <2>3, <3>2
      <4>2. Nx(m, g) # c BY <1>0, <1>6, <1>7, <2>3, <4>1
      <4> QED BY <3>1, <4>1, <4>2
    <3> QED BY <3>1, <3>2
  <2> QED BY <2>1, <2>2, <2>3
<1>10. ASSUME NEW g \in T, NEW k \in T, r[g] < r[k]
       PROVE  Nx(m1, k) # NULL /\ r[g] <= r[Nx(m1, k)]
  <2>1. CASE k = h
    <3>1. g \in S BY <1>0, <1>10, <2>1
    <3>2. c # NULL /\ r[g] <= r[c] BY <1>0, <1>2, <1>10, <2>1, <3>1
    <3> QED BY <2>1, <3>2
  <2>2. CASE k \in S /\ k = p
    <3>1. Nx(m1, k) = h BY <2>2
    <3>2. CASE g = h BY <1>0, <3>1, <3>2
    <3>3. CASE g \in S
      <4>1. r[g] < r[h] BY <1>0, <1>2, <1>10, <2>2, <3>3
      <4> QED BY <1>0, <3>1, <4>1
    <3> QED BY <3>2, <3>3
  <2>3. CASE k \in S /\ k # p
    <3>1. Nx(m1, k) = Nx(m, k) BY <2>3
    <3>2. CASE g \in S BY <1>1, <1>10, <2>3, <3>1, <3>2
    <3>3. CASE g = h
      <4>1. p # NULL /\ p \in S /\ r[p] <= r[k] BY <1>0, <1>2, <1>10, <2>3, <3>3
      <4>2. r[p] # r[k] BY <1>1, <2>3, <4>1
      <4>3. r[p] < r[k] BY <1>0, <2>3, <4>1, <4>2
      <4>4. Nx(m, k) # NULL /\ Nx(m, k) \in S /\ r[p] <= r[Nx(m, k)]
            BY <1>1, <2>3, <4>1, <4>3
      <4>5. r[h] <= r[Nx(m, k)] BY <1>0, <4>1, <4>4
      <4> QED BY <3>1, <3>3, <4>4, <4>5
    <3> QED BY <3>2, <3>3
  <2> QED BY <2>1, <2>2, <2>3
<1>11. Chain(m1, T, f, r)
  <2> HIDE DEF T, f
  <2> QED BY <1>3, <1>4, <1>5, <1>8, <1>9, <1>10 DEF Chain
<1> QED BY <1>11

\* From m to m1, h is put between p and c, neighbours on the list.
Between(m, m1, S, first, r, h, p, c) ==
    /\ h \in Heap \ S /\ p \in S \cup {NULL} /\ c \in S \cup {NULL}
    /\ p = NULL => c = first
    /\ p # NULL => Nx(m, p) = c /\ r[h] < r[p]
    /\ c # NULL => r[c] < r[h]
    /\ \A g \in S : /\ Nx(m1, g) = IF g = p THEN h ELSE Nx(m, g)
                    /\ Pv(m1, g) = IF g = c THEN h ELSE Pv(m, g)
    /\ Nx(m1, h) = c /\ Pv(m1, h) = p

\* A list's links from p over h to c, where h lies between the two.
LEMMA ChainInsert ==
    ASSUME NEW m, NEW m1, NEW S, NULL \notin S, S \subseteq Heap,
           NEW first, NEW r \in [Heap -> Int],
           Chain(m, S, first, r), NEW h, NEW p, NEW c,
           Between(m, m1, S, first, r, h, p, c)
    PROVE  Chain(m1, S \cup {h}, IF p = NULL THEN h ELSE first, r)
<1>1. /\ h \in Heap \ S /\ p \in S \cup {NULL} /\ c \in S \cup {NULL}
      /\ p = NULL => c = first
      /\ p # NULL => Nx(m, p) = c /\ r[h] < r[p]
      /\ c # NULL => r[c] < r[h]
      /\ \A g \in S : /\ Nx(m1, g) = IF g = p THEN h ELSE Nx(m, g)
                      /\ Pv(m1, g) = IF g = c THEN h ELSE Pv(m, g)
      /\ Nx(m1, h) = c /\ Pv(m1, h) = p
      BY DEF Between
<1> QED BY <1>1, ChainInsertion

\* The code that takes h off its list (HEAP.c:77-84, 115-118).
Unlinked(m, m1, bs, h) ==
    /\ Relinked(m, m1, bs)
    /\ \A g \in bs :
          /\ Nx(m1, g) = IF g = Pv(m, h) THEN Nx(m, h) ELSE Nx(m, g)
          /\ Pv(m1, g) = IF g = Nx(m, h) THEN Pv(m, h) ELSE Pv(m, g)

\* That code takes h out of its list and no other list notices.
LEMMA Unlinking ==
    ASSUME NEW bs, Spread(bs), NEW m \in Memory, NEW S \in SUBSET bs,
           NEW first, NEW r \in [Heap -> Int],
           Chain(m, S, first, r), NEW h \in S
    PROVE  Unlinked(m, Unlink(m, h), bs, h)
<1> DEFINE p == Pv(m, h)
           n == Nx(m, h)
           m1 == PutIf(m, p, next(p), n)
           m2 == PutIf(m1, n, prev(n), p)
<1>1. S \subseteq Heap /\ NULL \notin S /\ h \in bs BY Fields
<1>2. p \in bs \cup {NULL} /\ n \in bs \cup {NULL} /\ p # h /\ n # h
  <2>1. Beside(m, S, first, r, h) BY <1>1, Neighbours
  <2> QED BY <2>1 DEF Beside
<1>3. p \in Int /\ n \in Int BY <1>1, GetType, Fields DEF Pv, Nx, Heap
<1> HIDE DEF p, n
<1>4. /\ Relinked(m, m1, bs)
      /\ \A g \in bs : /\ Nx(m1, g) = IF g = p THEN n ELSE Nx(m, g)
                       /\ Pv(m1, g) = Pv(m, g)
      BY <1>2, <1>3, PutNext
<1>5. m1 \in Memory BY <1>4 DEF Relinked
<1> HIDE DEF m1
<1>6. /\ Relinked(m1, m2, bs)
      /\ \A g \in bs : /\ Pv(m2, g) = IF g = n THEN p ELSE Pv(m1, g)
                       /\ Nx(m2, g) = Nx(m1, g)
      BY <1>2, <1>3, <1>5, PutPrev
<1>7. Nx(m1, h) = n /\ Pv(m1, h) = p BY <1>1, <1>2, <1>4 DEF n, p
<1>8. Unlink(m, h) = m2 BY <1>7 DEF Unlink, m1, n, p, Nx, Pv
<1>9. Relinked(m, m2, bs) BY <1>4, <1>6, RelinkedTwice
<1> HIDE DEF m2
<1> QED BY <1>4, <1>6, <1>8, <1>9 DEF p, n, Unlinked

-----------------------------------------------------------------------------
(***************************************************************************)
(* Blocks.                                                                 *)
(***************************************************************************)
LEMMA TiledFacts ==
    ASSUME NEW m, NEW bs, Tiled(m, bs)
    PROVE  /\ Spread(bs)
           /\ \A h \in bs : /\ h \in Nat /\ Sz(m, h) \in Nat
                            /\ End(m, h) = h + 5 + Sz(m, h)
                            /\ End(m, h) \in Nat /\ End(m, h) <= HEAP_SIZE
                            /\ End(m, h) \in bs \/ End(m, h) = HEAP_SIZE
           /\ \A g, h \in bs : g < h => End(m, g) <= h
<1>1. \A h \in bs : h \in Nat /\ h < HEAP_SIZE /\ Sz(m, h) \in Nat
      BY Facts DEF Tiled, Heap
<1>2. \A h \in bs : End(m, h) = h + 5 + Sz(m, h) BY Facts DEF End, Sz
<1>3. \A h \in bs : End(m, h) \in bs \/ End(m, h) = HEAP_SIZE BY DEF Tiled
<1>4. \A h \in bs : End(m, h) \in Nat /\ End(m, h) <= HEAP_SIZE
      BY <1>1, <1>3, Facts
<1>5. \A g, h \in bs : g < h => End(m, g) <= h BY DEF Tiled
<1>6. Spread(bs)
  <2>1. \A h \in bs : h \in Nat /\ h + 5 <= HEAP_SIZE
        BY <1>1, <1>2, <1>4, Facts
  <2>2. \A g, h \in bs : g < h => g + 5 <= h
        BY <1>1, <1>2, <1>5
  <2> QED BY <2>1, <2>2, Facts DEF Spread
<1> QED BY <1>1, <1>2, <1>3, <1>4, <1>5, <1>6

\* Blocks stay blocks when no magic and no size changes.
LEMMA TiledFrame ==
    ASSUME NEW m, NEW m1, NEW bs, Tiled(m, bs),
           \A h \in bs : /\ Sz(m1, h) = Sz(m, h)
                         /\ Get(m1, magic(h)) = Get(m, magic(h))
    PROVE  Tiled(m1, bs) /\ \A h \in bs : End(m1, h) = End(m, h)
<1>1. \A h \in bs : End(m1, h) = End(m, h) BY DEF End, Sz
<1> QED BY <1>1 DEF Tiled

\* The words behind a header are no field of any, and no other block's.
LEMMA Data ==
    ASSUME NEW m, NEW bs, Tiled(m, bs), NEW h \in bs,
           NEW w \in Int, h + 5 <= w, w < End(m, h)
    PROVE  /\ w \in Heap
           /\ \A g \in bs : /\ w # magic(g) /\ w # size(g) /\ w # used(g)
                            /\ w # next(g) /\ w # prev(g)
           /\ \A g \in bs : g # h => ~(g <= w /\ w < End(m, g))
<1>1. /\ h \in Nat /\ End(m, h) \in Nat /\ End(m, h) <= HEAP_SIZE
      /\ w \in Nat
      BY TiledFacts
<1>2. ASSUME NEW g \in bs
      PROVE  \/ g = h
             \/ g \in Nat /\ End(m, g) \in Nat /\ g + 5 <= End(m, g)
                /\ (End(m, g) <= h \/ End(m, h) <= g)
  <2>1. g \in Nat /\ End(m, g) \in Nat /\ g + 5 <= End(m, g) BY TiledFacts
  <2>2. g < h \/ h < g \/ g = h BY <1>1, <2>1
  <2> QED BY <2>1, <2>2, TiledFacts
<1>3. w \in Heap BY <1>1, Facts
<1>4. ASSUME NEW g \in bs
      PROVE  /\ w # magic(g) /\ w # size(g) /\ w # used(g)
             /\ w # next(g) /\ w # prev(g)
             /\ g # h => ~(g <= w /\ w < End(m, g))
      BY <1>1, <1>2 DEF magic, size, used, next, prev
<1> QED BY <1>3, <1>4

\* A block cut in two by a header is two blocks.
LEMMA TiledSplit ==
    ASSUME NEW m, NEW m1, NEW bs, Tiled(m, bs), NEW h \in bs,
           NEW k \in Nat, NEW new, new = h + 5 + k, new + 5 <= End(m, h),
           \A g \in bs : Get(m1, magic(g)) = Get(m, magic(g)),
           \A g \in bs \ {h} : Sz(m1, g) = Sz(m, g),
           Sz(m1, h) = k, Get(m1, magic(new)) = BLOCK_MAGIC,
           Sz(m1, new) = End(m, h) - new - 5
    PROVE  /\ Tiled(m1, bs \cup {new}) /\ new \notin bs
           /\ End(m1, h) = new /\ End(m1, new) = End(m, h)
           /\ \A g \in bs \ {h} : End(m1, g) = End(m, g)
<1>1. \A g \in bs : g \in Nat /\ End(m, g) \in Nat /\ g + 5 <= End(m, g)
                    /\ End(m, g) <= HEAP_SIZE
      BY TiledFacts
<1>2. \A g, i \in bs : g < i => End(m, g) <= i BY TiledFacts
<1>3. h \in Nat /\ new \in Nat /\ h < new BY <1>1
<1>4. /\ End(m1, h) = new /\ End(m1, new) = End(m, h)
      /\ \A g \in bs \ {h} : End(m1, g) = End(m, g)
  <2>1. End(m1, h) = h + 5 + Sz(m1, h) BY Facts DEF End, Sz
  <2>2. End(m1, new) = new + 5 + Sz(m1, new) BY Facts DEF End, Sz
  <2>3. \A g \in bs \ {h} : End(m1, g) = End(m, g) BY DEF End, Sz
  <2> QED BY <1>1, <1>3, <2>1, <2>2, <2>3
<1>5. ASSUME NEW g \in bs, g # h PROVE End(m, g) <= h \/ End(m, h) <= g
  <2>1. g \in Nat /\ h \in Nat BY <1>1
  <2>2. g < h \/ h < g BY ONLY <1>5, <2>1
  <2> QED BY <1>2, <2>2
<1>6. new \notin bs
  <2> SUFFICES ASSUME new \in bs PROVE FALSE OBVIOUS
  <2>1. End(m, h) <= new BY <1>2, <1>3
  <2> QED BY <1>1, <1>3, <2>1
<1>7. new \in Heap /\ bs \subseteq Heap
  <2>1. new < HEAP_SIZE BY <1>1, <1>3, Facts
  <2> QED BY <1>3, <2>1, Facts DEF Tiled
<1>8. \A g \in bs \cup {new} :
         /\ Get(m1, magic(g)) = BLOCK_MAGIC /\ Sz(m1, g) \in Nat
         /\ End(m1, g) \in (bs \cup {new}) \cup {HEAP_SIZE}
  <2>1. Sz(m1, new) \in Nat BY <1>1, <1>3
  <2> QED BY <1>4, <2>1 DEF Tiled
<1>9. ASSUME NEW g \in bs \cup {new}, NEW i \in bs \cup {new}, g < i
      PROVE  End(m1, g) <= i
  <2>1. CASE g = new
    <3>1. i \in bs /\ i # h BY <1>1, <1>3, <1>9, <2>1
    <3>2. End(m, h) <= i
      <4>1. End(m, i) <= h \/ End(m, h) <= i BY <1>5, <3>1
      <4> QED BY <1>1, <1>3, <1>9, <2>1, <3>1, <4>1
    <3> QED BY <1>4, <2>1, <3>2
  <2>2. CASE g = h /\ i = new BY <1>3, <1>4, <2>2
  <2>3. CASE g = h /\ i \in bs
    <3>1. End(m, h) <= i BY <1>2, <1>9, <2>3
    <3> QED BY <1>1, <1>3, <1>4, <2>3, <3>1
  <2>4. CASE g \in bs /\ g # h /\ i = new
    <3>1. End(m, g) <= h \/ End(m, h) <= g BY <1>5, <2>4
    <3> QED BY <1>1, <1>3, <1>4, <1>9, <2>4, <3>1
  <2>5. CASE g \in bs /\ g # h /\ i \in bs BY <1>2, <1>4, <1>9, <2>5
  <2> QED BY <2>1, <2>2, <2>3, <2>4, <2>5
<1>10. ASSUME NEW i \in (bs \cup {new}) \ {0}
       PROVE  \E g \in bs \cup {new} : End(m1, g) = i
  <2>1. CASE i = new BY <1>4, <2>1
  <2>2. CASE i # new
    <3>1. PICK g \in bs : End(m, g) = i BY <2>2 DEF Tiled
    <3> QED BY <1>4, <3>1
  <2> QED BY <2>1, <2>2
<1>11. \E g \in bs \cup {new} : End(m1, g) = HEAP_SIZE
  <2>1. PICK g \in bs : End(m, g) = HEAP_SIZE BY DEF Tiled
  <2> QED BY <1>4, <2>1
<1>12. 0 \in bs BY DEF Tiled
<1>13. Tiled(m1, bs \cup {new})
       BY <1>7, <1>8, <1>9, <1>10, <1>11, <1>12 DEF Tiled
<1> QED BY <1>4, <1>6, <1>13

\* A block and the one behind it, made one.
LEMMA TiledMerge ==
    ASSUME NEW m, NEW m1, NEW bs, Tiled(m, bs), NEW h \in bs, NEW n \in bs,
           End(m, h) = n,
           \A g \in bs : Get(m1, magic(g)) = Get(m, magic(g)),
           \A g \in bs \ {h} : Sz(m1, g) = Sz(m, g),
           Sz(m1, h) = Sz(m, h) + 5 + Sz(m, n)
    PROVE  /\ Tiled(m1, bs \ {n}) /\ h # n
           /\ End(m1, h) = End(m, n)
           /\ \A g \in bs \ {h} : End(m1, g) = End(m, g)
<1>1. \A g \in bs : /\ g \in Nat /\ End(m, g) \in Nat /\ g + 5 <= End(m, g)
                    /\ End(m, g) = g + 5 + Sz(m, g) /\ Sz(m, g) \in Nat
      BY TiledFacts
<1>2. \A g, i \in bs : g < i => End(m, g) <= i BY TiledFacts
<1>3. h # n /\ h < n /\ n # 0 BY <1>1
<1>4. /\ End(m1, h) = End(m, n)
      /\ \A g \in bs \ {h} : End(m1, g) = End(m, g)
  <2>1. End(m1, h) = h + 5 + Sz(m1, h) BY Facts DEF End, Sz
  <2>2. \A g \in bs \ {h} : End(m1, g) = End(m, g) BY DEF End, Sz
  <2>3. End(m, n) = h + 5 + Sz(m, h) + 5 + Sz(m, n) BY <1>1
  <2> QED BY <1>1, <2>1, <2>2, <2>3
<1>5. ASSUME NEW g \in bs, g # h PROVE End(m, g) # n
  <2>1. g < h \/ h < g BY <1>1, <1>5
  <2>2. CASE g < h BY <1>1, <1>2, <1>3, <2>2
  <2>3. CASE h < g BY <1>1, <1>2, <2>3
  <2> QED BY <2>1, <2>2, <2>3
<1>6. \A g \in bs \ {n} :
         /\ Get(m1, magic(g)) = BLOCK_MAGIC /\ Sz(m1, g) \in Nat
         /\ End(m1, g) \in (bs \ {n}) \cup {HEAP_SIZE}
  <2>1. Sz(m1, h) \in Nat BY <1>1
  <2>2. \A g \in bs \ {n} : Sz(m1, g) \in Nat BY <1>1, <2>1
  <2>3. End(m, n) # n BY <1>1
  <2>4. \A g \in bs : End(m, g) \in bs \cup {HEAP_SIZE}
                      /\ Get(m, magic(g)) = BLOCK_MAGIC
        BY DEF Tiled
  <2>5. \A g \in bs \ {n} : End(m1, g) \in (bs \ {n}) \cup {HEAP_SIZE}
        BY <1>4, <1>5, <2>3, <2>4
  <2> QED BY <2>2, <2>4, <2>5
<1>7. ASSUME NEW g \in bs \ {n}, NEW i \in bs \ {n}, g < i
      PROVE  End(m1, g) <= i
  <2>1. CASE g = h
    <3>1. n <= i BY <1>2, <1>7, <2>1
    <3>2. n < i BY <1>1, <3>1
    <3> QED BY <1>2, <1>4, <2>1, <3>2
  <2>2. CASE g # h BY <1>2, <1>4, <1>7, <2>2
  <2> QED BY <2>1, <2>2
<1>8. ASSUME NEW i \in (bs \ {n}) \ {0}
      PROVE  \E g \in bs \ {n} : End(m1, g) = i
  <2>1. PICK g \in bs : End(m, g) = i BY DEF Tiled
  <2>2. CASE g = n BY <1>3, <1>4, <2>1, <2>2
  <2>3. CASE g # n BY <1>4, <2>1, <2>3
  <2> QED BY <2>2, <2>3
<1>9. \E g \in bs \ {n} : End(m1, g) = HEAP_SIZE
  <2>1. PICK g \in bs : End(m, g) = HEAP_SIZE BY DEF Tiled
  <2>2. CASE g = n BY <1>3, <1>4, <2>1, <2>2
  <2>3. CASE g # n
    <3>1. g # h \/ n = HEAP_SIZE BY <2>1
    <3>2. n # HEAP_SIZE BY Facts DEF Tiled, Heap
    <3> QED BY <1>4, <2>1, <2>3, <3>1, <3>2
  <2> QED BY <2>2, <2>3
<1>10. bs \ {n} \subseteq Heap /\ 0 \in bs \ {n} BY <1>3 DEF Tiled
<1>11. Tiled(m1, bs \ {n})
       BY <1>6, <1>7, <1>8, <1>9, <1>10 DEF Tiled
<1> QED BY <1>3, <1>4, <1>11

-----------------------------------------------------------------------------
(***************************************************************************)
(* Splitting a block and joining two.                                      *)
(***************************************************************************)

\* Nothing but links and sizes of the headers at bs changes.
Reshaped(m, m1, bs) ==
    /\ m1 \in Memory
    /\ \A a \in Heap :
          (\A h \in bs : a # size(h) /\ a # next(h) /\ a # prev(h))
             => Get(m1, a) = Get(m, a)

\* Changes of links are changes of this kind, and two of them are one.
LEMMA ReshapedFacts ==
    /\ \A bs, m, m1 : Relinked(m, m1, bs) => Reshaped(m, m1, bs)
    /\ \A bs, m, m1, m2 : Reshaped(m, m1, bs) /\ Reshaped(m1, m2, bs)
                             => Reshaped(m, m2, bs)
    /\ \A cs : \A bs \in SUBSET cs : \A m, m1 :
          Reshaped(m, m1, bs) => Reshaped(m, m1, cs)
<1>1. \A bs, m, m1 : Relinked(m, m1, bs) => Reshaped(m, m1, bs)
      BY DEF Relinked, Reshaped
<1>2. ASSUME NEW bs, NEW m, NEW m1, NEW m2, Reshaped(m, m1, bs),
             Reshaped(m1, m2, bs)
      PROVE  Reshaped(m, m2, bs)
      BY <1>2 DEF Reshaped
<1>3. ASSUME NEW cs, NEW bs \in SUBSET cs, NEW m, NEW m1, Reshaped(m, m1, bs)
      PROVE  Reshaped(m, m1, cs)
      BY <1>3 DEF Reshaped
<1> QED BY <1>1, <1>2, <1>3

\* Used bytes and magics stay.
LEMMA ReshapedUsed ==
    ASSUME NEW bs, Spread(bs), NEW m, NEW m1, Reshaped(m, m1, bs)
    PROVE  \A g \in bs : /\ Us(m1, g) = Us(m, g)
                         /\ Get(m1, magic(g)) = Get(m, magic(g))
<1> SUFFICES ASSUME NEW g \in bs
             PROVE  /\ Us(m1, g) = Us(m, g)
                    /\ Get(m1, magic(g)) = Get(m, magic(g))
    OBVIOUS
<1>1. /\ used(g) \in Heap /\ magic(g) \in Heap
      /\ \A h \in bs : /\ used(g) # next(h) /\ used(g) # prev(h)
                       /\ magic(g) # next(h) /\ magic(g) # prev(h)
                       /\ used(g) # size(h) /\ magic(g) # size(h)
      BY Fields
<1> QED BY <1>1 DEF Reshaped, Us

\* Writing a size changes no other field.
LEMMA PutSize ==
    ASSUME NEW bs, Spread(bs), NEW m \in Memory, NEW h \in bs, NEW x \in Int
    PROVE  /\ Reshaped(m, Put(m, size(h), x), bs)
           /\ \A g \in bs :
                 /\ Sz(Put(m, size(h), x), g) = IF g = h THEN x ELSE Sz(m, g)
                 /\ Nx(Put(m, size(h), x), g) = Nx(m, g)
                 /\ Pv(Put(m, size(h), x), g) = Pv(m, g)
<1> DEFINE m1 == Put(m, size(h), x)
<1>1. size(h) \in Int BY Fields DEF Heap
<1>2. /\ m1 \in Memory
      /\ \A b \in Heap : Get(m1, b) = IF b = size(h) THEN x ELSE Get(m, b)
      BY <1>1, GetPut
<1> HIDE DEF m1
<1>3. ASSUME NEW g \in bs
      PROVE  /\ Sz(m1, g) = IF g = h THEN x ELSE Sz(m, g)
             /\ Nx(m1, g) = Nx(m, g) /\ Pv(m1, g) = Pv(m, g)
  <2>1. /\ size(g) \in Heap /\ next(g) \in Heap /\ prev(g) \in Heap
        /\ next(g) # size(h) /\ prev(g) # size(h)
        /\ size(g) = size(h) <=> g = h
        BY Fields
  <2> QED BY <1>2, <2>1 DEF Sz, Nx, Pv
<1>4. Reshaped(m, m1, bs) BY <1>2 DEF Reshaped
<1> QED BY <1>3, <1>4 DEF m1

(***************************************************************************)
(* A block and the next one on the list, which lies behind it, made one    *)
(* (HEAP.c:125-137).                                                       *)
(***************************************************************************)
Joined(m, m1, bs, S, first, r, h, n) ==
    /\ Reshaped(m, m1, bs) /\ Tiled(m1, bs \ {n})
    /\ Chain(m1, S \ {n}, first, r)
    /\ h # n /\ End(m1, h) = End(m, n)
    /\ \A g \in bs \ {h} : End(m1, g) = End(m, g)
    /\ \A g \in bs \ S : Nx(m1, g) = Nx(m, g) /\ Pv(m1, g) = Pv(m, g)

\* Join makes one block of h and the n behind it, and takes n off the list.
LEMMA Joining ==
    ASSUME NEW m \in Memory, NEW bs, Tiled(m, bs), NEW S \in SUBSET bs,
           NEW first, NEW r \in [Heap -> Int], Chain(m, S, first, r),
           NEW h \in S, NEW n \in S, n = Nx(m, h), End(m, h) = n
    PROVE  Joined(m, Join(m, h, n), bs, S, first, r, h, n)
<1> DEFINE s == Sz(m, h) + 5 + Sz(m, n)
           k == Nx(m, n)
           m1 == Put(m, size(h), s)
           m2 == PutIf(m1, h, next(h), k)
           m3 == PutIf(m2, k, prev(k), h)
<1>1. /\ Spread(bs) /\ h \in bs /\ n \in bs /\ h \in Nat /\ h # NULL
      /\ s \in Nat
  <2>1. Spread(bs) /\ Sz(m, h) \in Nat /\ Sz(m, n) \in Nat /\ h \in Nat
        BY TiledFacts
  <2> QED BY <2>1, Fields
<1>2. S \subseteq Heap /\ NULL \notin S BY <1>1, Fields
<1>3. /\ k \in S \cup {NULL} /\ k # n /\ Pv(m, n) = h /\ h # n
      /\ Nx(m, h) = n /\ n # NULL
  <2>1. Beside(m, S, first, r, h) /\ Beside(m, S, first, r, n)
        BY <1>2, Neighbours
  <2> QED BY <1>2, <2>1 DEF Beside
<1>4. k # h
  <2> SUFFICES ASSUME k = h PROVE FALSE OBVIOUS
  <2>1. Beside(m, S, first, r, h) /\ Beside(m, S, first, r, n)
        BY <1>2, Neighbours
  <2>3. r[k] < r[n] /\ r[n] < r[h]
    <3>1. h # NULL BY <1>2
    <3> QED BY <1>3, <2>1, <3>1 DEF Beside
  <2>2. r[h] \in Int /\ r[n] \in Int BY <1>2
  <2> QED BY <2>3, <2>2
<1> HIDE DEF s, k
<1>5. k \in Int /\ k \in bs \cup {NULL}
  <2>1. k \in Heap \cup {NULL} /\ k \in bs \cup {NULL} BY <1>2, <1>3
  <2> QED BY <2>1, Facts
<1>6. /\ Reshaped(m, m1, bs)
      /\ \A g \in bs : /\ Sz(m1, g) = IF g = h THEN s ELSE Sz(m, g)
                       /\ Nx(m1, g) = Nx(m, g) /\ Pv(m1, g) = Pv(m, g)
      BY <1>1, PutSize
<1>7. m1 \in Memory BY <1>6 DEF Reshaped
<1> HIDE DEF m1
<1>8. /\ Relinked(m1, m2, bs)
      /\ \A g \in bs : /\ Nx(m2, g) = IF g = h THEN k ELSE Nx(m1, g)
                       /\ Pv(m2, g) = Pv(m1, g)
      BY <1>1, <1>5, <1>7, PutNext
<1>9. m2 \in Memory BY <1>8 DEF Relinked
<1> HIDE DEF m2
<1>10. /\ Relinked(m2, m3, bs)
       /\ \A g \in bs : /\ Pv(m3, g) = IF g = k THEN h ELSE Pv(m2, g)
                        /\ Nx(m3, g) = Nx(m2, g)
       BY <1>1, <1>5, <1>9, PutPrev
<1> HIDE DEF m3
<1>11. Join(m, h, n) = m3
  <2>1. Get(m, next(n)) = k BY DEF Nx, k
  <2>2. Get(m2, next(h)) = k BY <1>1, <1>8 DEF Nx
  <2>3. Get(m, size(h)) + BLOCK_SIZE + Get(m, size(n)) = s
        BY Facts DEF s, Sz
  <2>4. m2 = Put(m1, next(h), k) BY <1>1 DEF m2, PutIf
  <2>5. /\ m1 = Put(m, size(h), Get(m, size(h)) + BLOCK_SIZE + Get(m, size(n)))
        /\ m2 = Put(m1, next(h), Get(m, next(n)))
        /\ m3 = PutIf(m2, Get(m2, next(h)), prev(Get(m2, next(h))), h)
        BY <2>1, <2>2, <2>3, <2>4 DEF m1, m3
  <2> QED BY <2>5 DEF Join
<1>12. Reshaped(m, m3, bs) BY <1>6, <1>8, <1>10, ReshapedFacts
<1>13. \A g \in bs : /\ Nx(m3, g) = IF g = h THEN k ELSE Nx(m, g)
                     /\ Pv(m3, g) = IF g = k THEN h ELSE Pv(m, g)
       BY <1>6, <1>8, <1>10
<1>14. \A g \in bs : Sz(m3, g) = IF g = h THEN s ELSE Sz(m, g)
       BY <1>1, <1>6, <1>8, <1>10, RelinkedFields
<1>15. \A g \in bs : Get(m3, magic(g)) = Get(m, magic(g))
       BY <1>1, <1>12, ReshapedUsed
<1>16. /\ Tiled(m3, bs \ {n}) /\ End(m3, h) = End(m, n)
       /\ \A g \in bs \ {h} : End(m3, g) = End(m, g)
  <2>1. \A g \in bs \ {h} : Sz(m3, g) = Sz(m, g) BY <1>14
  <2>2. Sz(m3, h) = Sz(m, h) + 5 + Sz(m, n) BY <1>1, <1>14 DEF s
  <2>3. h \in bs /\ n \in bs BY <1>1
  <2> QED BY <1>15, <2>1, <2>2, <2>3, TiledMerge
<1>17. Chain(m3, S \ {n}, first, r)
  <2>1. \A g \in S \ {n} :
           /\ Nx(m3, g) = IF g = Pv(m, n) THEN Nx(m, n) ELSE Nx(m, g)
           /\ Pv(m3, g) = IF g = Nx(m, n) THEN Pv(m, n) ELSE Pv(m, g)
        BY <1>3, <1>13 DEF k
  <2>2. Chain(m3, S \ {n}, IF Pv(m, n) = NULL THEN Nx(m, n) ELSE first, r)
        BY <1>2, <2>1, ChainRemove
  <2> QED BY <1>1, <1>3, <2>2
<1>18. \A g \in bs \ S : Nx(m3, g) = Nx(m, g) /\ Pv(m3, g) = Pv(m, g)
  <2>1. \A g \in bs \ S : g # k
    <3>1. \A g \in bs : g # NULL BY <1>1, Fields
    <3> QED BY <1>3, <3>1
  <2> QED BY <1>13, <2>1
<1> QED BY <1>3, <1>11, <1>12, <1>16, <1>17, <1>18 DEF Joined


\* A new header.
LEMMA HeaderPut ==
    ASSUME NEW m \in Memory, NEW h \in Nat, h + 5 <= HEAP_SIZE,
           NEW s \in Int, NEW n \in Int, NEW p \in Int
    PROVE  LET m1 == Header(m, h, s, n, p)
           IN  /\ m1 \in Memory
               /\ Get(m1, magic(h)) = BLOCK_MAGIC
               /\ Sz(m1, h) = s /\ Us(m1, h) = 0
               /\ Nx(m1, h) = n /\ Pv(m1, h) = p
               /\ \A b \in Heap : (b < h \/ b >= h + 5)
                                     => Get(m1, b) = Get(m, b)
<1> DEFINE m1 == Put(m, magic(h), BLOCK_MAGIC)
           m2 == Put(m1, size(h), s)
           m3 == Put(m2, used(h), 0)
           m4 == Put(m3, next(h), n)
           m5 == Put(m4, prev(h), p)
<1>1. /\ magic(h) \in Heap /\ size(h) \in Heap /\ used(h) \in Heap
      /\ next(h) \in Heap /\ prev(h) \in Heap
      /\ magic(h) \in Int /\ size(h) \in Int /\ used(h) \in Int
      /\ next(h) \in Int /\ prev(h) \in Int
      BY LegacyHeapAssumption DEF magic, size, used, next, prev, Heap
<1>2. Heap \subseteq Int /\ BLOCK_MAGIC \in Int BY Facts
<1>3. /\ m1 \in Memory
      /\ \A b \in Heap : Get(m1, b)
                            = IF b = magic(h) THEN BLOCK_MAGIC ELSE Get(m, b)
      BY <1>1, <1>2, GetPut
<1> HIDE DEF m1
<1>4. /\ m2 \in Memory
      /\ \A b \in Heap : Get(m2, b) = IF b = size(h) THEN s ELSE Get(m1, b)
      BY <1>1, <1>3, GetPut
<1> HIDE DEF m2
<1>5. /\ m3 \in Memory
      /\ \A b \in Heap : Get(m3, b) = IF b = used(h) THEN 0 ELSE Get(m2, b)
      BY <1>1, <1>4, GetPut
<1> HIDE DEF m3
<1>6. /\ m4 \in Memory
      /\ \A b \in Heap : Get(m4, b) = IF b = next(h) THEN n ELSE Get(m3, b)
      BY <1>1, <1>5, GetPut
<1> HIDE DEF m4
<1>7. /\ m5 \in Memory
      /\ \A b \in Heap : Get(m5, b) = IF b = prev(h) THEN p ELSE Get(m4, b)
      BY <1>1, <1>6, GetPut
<1>8. m5 = Header(m, h, s, n, p) BY DEF Header, m1, m2, m3, m4
<1> HIDE DEF m5
<1>9. /\ Get(m5, magic(h)) = BLOCK_MAGIC
      /\ Get(m5, size(h)) = s /\ Get(m5, used(h)) = 0
      /\ Get(m5, next(h)) = n /\ Get(m5, prev(h)) = p
      BY <1>1, <1>3, <1>4, <1>5, <1>6, <1>7
      DEF magic, size, used, next, prev
<1>10. ASSUME NEW b \in Heap, b < h \/ b >= h + 5
       PROVE  Get(m5, b) = Get(m, b)
  <2>1. /\ b # magic(h) /\ b # size(h) /\ b # used(h) /\ b # next(h)
        /\ b # prev(h)
        BY <1>2, <1>10 DEF magic, size, used, next, prev
  <2> QED BY <1>3, <1>4, <1>5, <1>6, <1>7, <2>1
<1> QED BY <1>7, <1>8, <1>9, <1>10 DEF Sz, Us, Nx, Pv

\* Nothing but the headers at bs changes.
Framed(m, m1, bs) ==
    /\ m1 \in Memory
    /\ \A a \in Heap : (\A h \in bs : a < h \/ a >= h + 5)
                          => Get(m1, a) = Get(m, a)

\* The words a header's fields are.
LEMMA Within ==
    ASSUME NEW h \in Int, NEW a \in Int, a < h \/ a >= h + 5
    PROVE  a # magic(h) /\ a # size(h) /\ a # used(h) /\ a # next(h) /\ a # prev(h)
BY DEF magic, size, used, next, prev

\* What has the shape of blocks changed in headers only.
LEMMA ReshapedFramed ==
    ASSUME NEW bs, bs \subseteq Int, NEW m, NEW m1, Reshaped(m, m1, bs)
    PROVE  Framed(m, m1, bs)
<1> SUFFICES ASSUME NEW a \in Heap, \A h \in bs : a < h \/ a >= h + 5
             PROVE  Get(m1, a) = Get(m, a)
    BY DEF Framed, Reshaped
<1>1. a \in Int BY Facts
<1>2. \A h \in bs : a # size(h) /\ a # next(h) /\ a # prev(h)
      BY <1>1, Within
<1> QED BY <1>2 DEF Reshaped

\* Two changes in headers are one, and with more headers it stays one.
LEMMA FramedFacts ==
    /\ \A bs, m, m1, m2 : Framed(m, m1, bs) /\ Framed(m1, m2, bs)
                             => Framed(m, m2, bs)
    /\ \A cs : \A bs \in SUBSET cs : \A m, m1 :
          Framed(m, m1, bs) => Framed(m, m1, cs)
<1>1. ASSUME NEW bs, NEW m, NEW m1, NEW m2, Framed(m, m1, bs),
             Framed(m1, m2, bs)
      PROVE  Framed(m, m2, bs)
      BY <1>1 DEF Framed
<1>2. ASSUME NEW cs, NEW bs \in SUBSET cs, NEW m, NEW m1, Framed(m, m1, bs)
      PROVE  Framed(m, m1, cs)
      BY <1>2 DEF Framed
<1> QED BY <1>1, <1>2


\* The order of addresses, the lowest first.
Address(r) == /\ r \in [Heap -> Int]
              /\ \A g, h \in Heap : r[g] < r[h] <=> h < g

(***************************************************************************)
(* The words behind the first want of the unused block at h become an      *)
(* unused block of their own (HEAP.c:54-71).                               *)
(***************************************************************************)
Cut(m, m1, bs, S, first, r, h, new) ==
    /\ Framed(m, m1, bs \cup {new}) /\ Tiled(m1, bs \cup {new})
    /\ Chain(m1, S \cup {new}, first, r)
    /\ new \notin bs /\ Us(m1, new) = 0
    /\ Sz(m1, h) = want /\ End(m1, h) = new /\ End(m1, new) = End(m, h)
    /\ \A g \in bs : Us(m1, g) = Us(m, g)
    /\ \A g \in bs \ {h} : Sz(m1, g) = Sz(m, g) /\ End(m1, g) = End(m, g)
    /\ \A g \in bs \ S : Nx(m1, g) = Nx(m, g) /\ Pv(m1, g) = Pv(m, g)

\* Split makes two blocks of h, neighbours on its list.
LEMMA Splitting ==
    ASSUME NEW m \in Memory, m = mem, NEW bs, Tiled(m, bs), NEW S \in SUBSET bs,
           NEW first, 
           NEW r \in [Heap -> Int], Address(r), Chain(m, S, first, r), NEW h \in S,
           want \in Nat, want + 5 <= Sz(m, h)
    PROVE  Cut(m, Split(m, h), bs, S, first, r, h, h + 5 + want)
<1> DEFINE new == h + 5 + want
           cs == bs \cup {new}
           s == Sz(m, h) - want - 5
           c == Nx(m, h)
           m1 == Header(m, new, s, c, h)
           m2 == PutIf(m1, c, prev(c), new)
           m3 == PutIf(m2, h, next(h), new)
           m4 == Put(m3, size(h), want)
<1> HIDE DEF cs, c, m1, m2, m3, m4
<1>1. /\ Spread(bs) /\ h \in bs /\ h \in Nat /\ h # NULL
      /\ Sz(m, h) \in Nat /\ End(m, h) = h + 5 + Sz(m, h)
      /\ End(m, h) \in Nat /\ End(m, h) <= HEAP_SIZE
      /\ S \subseteq Heap /\ NULL \notin S
  <2>1. Spread(bs) BY TiledFacts
  <2> QED BY <2>1, TiledFacts, Fields
<1>2. Remaining(h) = s /\ s \in Nat
  <2>1. s \in Nat /\ s < WORD BY <1>1, Facts
  <2>2. \A x \in Nat : x < WORD => x % WORD = x BY Facts
  <2> QED BY <2>1, <2>2, Facts DEF Remaining, Sz
<1>3. new \in Nat /\ h + 5 <= new /\ new + 5 <= End(m, h)
      /\ new + 5 <= HEAP_SIZE /\ new + 5 + s = End(m, h)
      BY <1>1, Facts
<1>4. \A g \in bs : g \in Nat /\ g + 5 <= HEAP_SIZE
                    /\ (g + 5 <= new \/ new + 5 <= g)
  <2> SUFFICES ASSUME NEW g \in bs
               PROVE  g \in Nat /\ g + 5 <= HEAP_SIZE
                      /\ (g + 5 <= new \/ new + 5 <= g)
      OBVIOUS
  <2>1. g \in Nat /\ g + 5 <= HEAP_SIZE BY <1>1, Facts DEF Spread
  <2>2. CASE g = h BY <1>3, <2>1, <2>2
  <2>3. CASE g < h
    <3>1. g + 5 <= h BY <1>1, <2>3, Facts DEF Spread
    <3> QED BY <1>1, <1>3, <2>1, <3>1
  <2>4. CASE h < g
    <3>1. End(m, h) <= g BY <1>1, <2>4, TiledFacts
    <3> QED BY <1>1, <1>3, <2>1, <3>1
  <2> QED BY <1>1, <2>1, <2>2, <2>3, <2>4
<1> HIDE DEF s
<1>5. Spread(cs)
  <2>1. \A g \in cs : g \in Nat /\ g + 5 <= HEAP_SIZE BY <1>3, <1>4 DEF cs
  <2>2. \A g, i \in cs : g < i => g + 5 <= i
    <3>1. \A g, i \in bs : g < i => g + 5 <= i BY <1>1, Facts DEF Spread
    <3>2. \A g \in bs : /\ g < new => g + 5 <= new
                        /\ new < g => new + 5 <= g
          BY <1>3, <1>4
    <3>3. ~(new < new) BY <1>3
    <3> QED BY <3>1, <3>2, <3>3 DEF cs
  <2> QED BY <2>1, <2>2, Facts DEF Spread
<1>6. new \notin bs /\ new \in cs /\ new \in Heap
  <2>1. new \notin bs BY <1>3, <1>4
  <2> QED BY <1>5, <2>1, Fields DEF cs
<1>7. /\ c \in S \cup {NULL} /\ c # h /\ c \in Int /\ h \in Int
      /\ c # NULL => r[c] < r[h]
  <2>1. /\ c \in S \cup {NULL} /\ c # h
        /\ c # NULL => r[c] < r[h]
    <3>1. NULL \notin S /\ S \subseteq Heap BY <1>1
    <3>2. Beside(m, S, first, r, h) BY <3>1, Neighbours
    <3> QED BY <3>2 DEF c, Beside
  <2>2. c \in Int
    <3>1. c \in Heap \/ c = NULL BY <1>1, <2>1
    <3>2. CASE c = NULL BY <3>2, Facts
    <3>3. CASE c \in Heap BY <3>3, Facts
    <3> QED BY <3>1, <3>2, <3>3
  <2> QED BY <1>1, <2>1, <2>2
<1>8. c # NULL => new + 5 <= c
  <2> SUFFICES ASSUME c # NULL PROVE new + 5 <= c OBVIOUS
  <2>1. h < c /\ c \in bs BY <1>1, <1>7 DEF Address
  <2>2. End(m, h) <= c BY <1>1, <2>1, TiledFacts
  <2> QED BY <1>1, <1>3, <1>7, <2>2
<1> HIDE DEF new
<1>9. /\ m1 \in Memory
      /\ Get(m1, magic(new)) = BLOCK_MAGIC
      /\ Sz(m1, new) = s /\ Us(m1, new) = 0 /\ Nx(m1, new) = c /\ Pv(m1, new) = h
      /\ \A b \in Heap : (b < new \/ b >= new + 5) => Get(m1, b) = Get(m, b)
  <2>1. s \in Int BY <1>2
  <2>2. new \in Nat /\ new + 5 <= HEAP_SIZE BY <1>3
  <2> QED BY <1>7, <2>1, <2>2, HeaderPut DEF m1
<1>10. Framed(m, m1, cs)
       BY <1>9 DEF Framed, cs
<1>11. ASSUME NEW g \in bs
       PROVE  /\ Sz(m1, g) = Sz(m, g) /\ Us(m1, g) = Us(m, g)
              /\ Nx(m1, g) = Nx(m, g) /\ Pv(m1, g) = Pv(m, g)
              /\ Get(m1, magic(g)) = Get(m, magic(g))
  <2>1. /\ magic(g) \in Heap /\ size(g) \in Heap /\ used(g) \in Heap
        /\ next(g) \in Heap /\ prev(g) \in Heap
        BY <1>1, Fields
  <2>2. g \in Nat /\ new \in Nat /\ (g + 5 <= new \/ new + 5 <= g)
        BY <1>3, <1>4
  <2>3. \A a \in {magic(g), size(g), used(g), next(g), prev(g)} :
           a < new \/ a >= new + 5
        BY <2>2 DEF magic, size, used, next, prev
  <2>4. \A a \in {magic(g), size(g), used(g), next(g), prev(g)} :
           Get(m1, a) = Get(m, a)
        BY <1>9, <2>1, <2>3
  <2> QED BY <2>4 DEF Sz, Us, Nx, Pv
<1>12. c \in cs \cup {NULL} /\ h \in cs \cup {NULL} /\ new \in Int /\ h \in cs
       BY <1>1, <1>3, <1>7 DEF cs
<1>13. /\ Relinked(m1, m2, cs)
       /\ \A g \in cs : /\ Pv(m2, g) = IF g = c THEN new ELSE Pv(m1, g)
                        /\ Nx(m2, g) = Nx(m1, g)
       BY <1>5, <1>9, <1>12, PutPrev DEF m2
<1>14. m2 \in Memory BY <1>13 DEF Relinked
<1>15. /\ Relinked(m2, m3, cs)
       /\ \A g \in cs : /\ Nx(m3, g) = IF g = h THEN new ELSE Nx(m2, g)
                        /\ Pv(m3, g) = Pv(m2, g)
       BY <1>5, <1>12, <1>14, PutNext DEF m3
<1>16. m3 \in Memory /\ want \in Int BY <1>15 DEF Relinked
<1>17. /\ Reshaped(m3, m4, cs)
       /\ \A g \in cs : /\ Sz(m4, g) = IF g = h THEN want ELSE Sz(m3, g)
                        /\ Nx(m4, g) = Nx(m3, g) /\ Pv(m4, g) = Pv(m3, g)
       BY <1>5, <1>12, <1>16, PutSize DEF m4
<1>18. Split(m, h) = m4
  <2>1. Get(m, next(h)) = c BY DEF Nx, c
  <2>2. Get(m1, next(h)) = c BY <1>1, <1>11, <2>1 DEF Nx
  <2>3. h + BLOCK_SIZE + want = new BY Facts DEF new
  <2>4. m3 = Put(m2, next(h), new) BY <1>1 DEF m3, PutIf
  <2>5. m1 = Header(m, h + BLOCK_SIZE + want, Remaining(h), Get(m, next(h)), h)
        BY <1>2, <2>1, <2>3 DEF m1
  <2> QED BY <2>2, <2>3, <2>4, <2>5 DEF Split, m2, m4
<1>19. Reshaped(m1, m4, cs)
       BY <1>13, <1>15, <1>17, ReshapedFacts
<1>20. cs \subseteq Int BY <1>5, Fields
<1>21. Framed(m, m4, cs)
       BY <1>10, <1>19, <1>20, ReshapedFramed, FramedFacts
<1>22. \A g \in cs : Us(m4, g) = Us(m1, g) /\ Get(m4, magic(g)) = Get(m1, magic(g))
       BY <1>5, <1>19, ReshapedUsed
<1>23. \A g \in cs : Sz(m4, g) = IF g = h THEN want ELSE Sz(m1, g)
       BY <1>5, <1>13, <1>15, <1>17, RelinkedFields
<1>24. \A g \in cs : /\ Nx(m4, g) = IF g = h THEN new ELSE Nx(m1, g)
                     /\ Pv(m4, g) = IF g = c THEN new ELSE Pv(m1, g)
       BY <1>13, <1>15, <1>17
<1>25. bs \subseteq cs /\ cs = bs \cup {new} BY DEF cs
<1>26. h # new BY <1>1, <1>6
<1>27. /\ Tiled(m4, bs \cup {new}) /\ End(m4, h) = new
       /\ End(m4, new) = End(m, h)
       /\ \A g \in bs \ {h} : End(m4, g) = End(m, g)
  <2>1. \A g \in bs : Get(m4, magic(g)) = Get(m, magic(g))
        BY <1>11, <1>22, <1>25
  <2>2. \A g \in bs \ {h} : Sz(m4, g) = Sz(m, g) BY <1>11, <1>23, <1>25
  <2>3. Sz(m4, h) = want BY <1>12, <1>23
  <2>4. Get(m4, magic(new)) = BLOCK_MAGIC BY <1>9, <1>22, <1>25
  <2>5. Sz(m4, new) = End(m, h) - new - 5
    <3>1. Sz(m4, new) = s BY <1>6, <1>9, <1>23, <1>25, <1>26
    <3> QED BY <1>1, <1>2, <1>3, <3>1
  <2>6. new = h + 5 + want /\ new + 5 <= End(m, h) BY <1>3 DEF new
  <2>7. h \in bs BY <1>1
  <2> QED BY <2>1, <2>2, <2>3, <2>4, <2>5, <2>6, <2>7, TiledSplit
<1>28. Chain(m4, S \cup {new}, first, r)
  <2>1. \A g \in S : /\ Nx(m4, g) = IF g = h THEN new ELSE Nx(m, g)
                     /\ Pv(m4, g) = IF g = c THEN new ELSE Pv(m, g)
        BY <1>11, <1>24, <1>25
  <2>2. Nx(m4, new) = c /\ Pv(m4, new) = h
    <3>1. c # new BY <1>6, <1>7, <1>1, Facts
    <3> QED BY <1>6, <1>9, <1>24, <1>25, <1>26, <3>1
  <2>3. r[new] < r[h]
    <3>1. h < new BY <1>1, <1>3
    <3> QED BY <1>1, <1>6, <3>1 DEF Address
  <2>4. c # NULL => r[c] < r[new]
    <3> SUFFICES ASSUME c # NULL PROVE r[c] < r[new] OBVIOUS
    <3>1. new < c /\ c \in Heap BY <1>1, <1>3, <1>7, <1>8
    <3> QED BY <1>6, <3>1 DEF Address
  <2>5. new \in Heap \ S BY <1>6
  <2>6. /\ h \in S \cup {NULL} /\ c \in S \cup {NULL} /\ h # NULL
        /\ Nx(m, h) = c
        BY <1>1, <1>7 DEF c
  <2>7. Chain(m4, S \cup {new}, IF h = NULL THEN new ELSE first, r)
    <3>1. S \subseteq Heap /\ NULL \notin S BY <1>1
    <3>2. Between(m, m4, S, first, r, new, h, c)
      <4>1. /\ h = NULL => c = first
            /\ h # NULL => Nx(m, h) = c /\ r[new] < r[h]
            BY <2>3, <2>6
      <4> QED BY <2>1, <2>2, <2>4, <2>5, <2>6, <4>1 DEF Between
    <3> QED BY <3>1, <3>2, ChainInsert
  <2> QED BY <1>1, <2>7
<1>29. \A g \in bs \ S : Nx(m4, g) = Nx(m, g) /\ Pv(m4, g) = Pv(m, g)
  <2>1. \A g \in bs : g # NULL BY <1>1, Fields
  <2>2. \A g \in bs \ S : g # h /\ g # c BY <1>7, <2>1
  <2> QED BY <1>11, <1>24, <1>25, <2>2
<1>30. Us(m4, new) = 0 /\ (\A g \in bs : Us(m4, g) = Us(m, g))
       /\ Sz(m4, h) = want /\ \A g \in bs \ {h} : Sz(m4, g) = Sz(m, g)
       BY <1>6, <1>9, <1>11, <1>12, <1>22, <1>23, <1>25
<1> QED BY <1>6, <1>18, <1>21, <1>25, <1>27, <1>28, <1>29, <1>30 DEF new, Cut


-----------------------------------------------------------------------------
(***************************************************************************)
(* Writes that leave the blocks where they are.                            *)
(***************************************************************************)
Standing(m, m1, bs) ==
    /\ Framed(m, m1, bs)
    /\ \A g \in bs : /\ Sz(m1, g) = Sz(m, g) /\ End(m1, g) = End(m, g)
                     /\ Get(m1, magic(g)) = Get(m, magic(g))

\* Blocks stay where they are when links and used bytes change.
LEMMA StandingFacts ==
    ASSUME NEW bs, NEW m, NEW m1, Standing(m, m1, bs)
    PROVE  /\ m1 \in Memory
           /\ Tiled(m, bs) => Tiled(m1, bs)
           /\ \A m2 : Standing(m1, m2, bs) => Standing(m, m2, bs)
<1>1. m1 \in Memory BY DEF Standing, Framed
<1>2. ASSUME Tiled(m, bs) PROVE Tiled(m1, bs)
  <2>1. \A h \in bs : /\ Sz(m1, h) = Sz(m, h)
                      /\ Get(m1, magic(h)) = Get(m, magic(h))
        BY DEF Standing
  <2> QED BY <1>2, <2>1, TiledFrame
<1>3. ASSUME NEW m2, Standing(m1, m2, bs) PROVE Standing(m, m2, bs)
      BY <1>3, FramedFacts DEF Standing
<1> QED BY <1>1, <1>2, <1>3

\* Changing links moves no block.
LEMMA RelinkedStanding ==
    ASSUME NEW bs, Spread(bs), NEW m, NEW m1, Relinked(m, m1, bs)
    PROVE  Standing(m, m1, bs) /\ \A g \in bs : Us(m1, g) = Us(m, g)
<1>1. bs \subseteq Int BY Fields
<1>2. Reshaped(m, m1, bs) BY ReshapedFacts
<1>3. Framed(m, m1, bs) BY <1>1, <1>2, ReshapedFramed
<1>4. \A g \in bs : /\ Sz(m1, g) = Sz(m, g) /\ Us(m1, g) = Us(m, g)
                    /\ Get(m1, magic(g)) = Get(m, magic(g))
                    /\ End(m1, g) = End(m, g)
      BY RelinkedFields
<1> QED BY <1>3, <1>4 DEF Standing

\* The words behind a header hold what they held.
LEMMA DataFramed ==
    ASSUME NEW m, NEW bs, Tiled(m, bs), NEW m1, Framed(m, m1, bs),
           NEW h \in bs, NEW w \in Int, h + 5 <= w, w < End(m, h)
    PROVE  Get(m1, w) = Get(m, w)
<1>1. /\ w \in Heap
      /\ \A g \in bs : g # h => ~(g <= w /\ w < End(m, g))
      BY Data
<1>2. \A g \in bs : g \in Nat /\ End(m, g) \in Nat /\ g + 5 <= End(m, g)
      BY TiledFacts
<1>3. \A g \in bs : w < g \/ w >= g + 5 BY <1>1, <1>2
<1> QED BY <1>1, <1>3 DEF Framed

\* Writing a used byte moves no block and changes no link.
LEMMA PutUsed ==
    ASSUME NEW bs, Spread(bs), NEW m \in Memory, NEW h \in bs, NEW x \in Int
    PROVE  LET m1 == Put(m, used(h), x)
           IN  /\ Standing(m, m1, bs)
               /\ \A g \in bs : /\ Us(m1, g) = IF g = h THEN x ELSE Us(m, g)
                                /\ Nx(m1, g) = Nx(m, g) /\ Pv(m1, g) = Pv(m, g)
<1> DEFINE m1 == Put(m, used(h), x)
<1>1. used(h) \in Int BY Fields DEF Heap
<1>2. /\ m1 \in Memory
      /\ \A b \in Heap : Get(m1, b) = IF b = used(h) THEN x ELSE Get(m, b)
      BY <1>1, GetPut
<1> HIDE DEF m1
<1>3. ASSUME NEW g \in bs
      PROVE  /\ Us(m1, g) = IF g = h THEN x ELSE Us(m, g)
             /\ Nx(m1, g) = Nx(m, g) /\ Pv(m1, g) = Pv(m, g)
             /\ Sz(m1, g) = Sz(m, g) /\ Get(m1, magic(g)) = Get(m, magic(g))
  <2>1. /\ size(g) \in Heap /\ next(g) \in Heap /\ prev(g) \in Heap
        /\ used(g) \in Heap /\ magic(g) \in Heap
        /\ next(g) # used(h) /\ prev(g) # used(h)
        /\ size(g) # used(h) /\ magic(g) # used(h)
        /\ used(g) = used(h) <=> g = h
        BY Fields DEF used, magic, size
  <2> QED BY <1>2, <2>1 DEF Sz, Nx, Pv, Us
<1>4. Framed(m, m1, bs)
  <2>1. ASSUME NEW a \in Heap, \A g \in bs : a < g \/ a >= g + 5
        PROVE  Get(m1, a) = Get(m, a)
    <3>1. h \in Int /\ a \in Int BY Fields, Facts
    <3>2. a # used(h) BY <2>1, <3>1, Within
    <3> QED BY <1>2, <3>2
  <2> QED BY <1>2, <2>1 DEF Framed
<1>5. \A g \in bs : End(m1, g) = End(m, g) BY <1>3 DEF End, Sz
<1> QED BY <1>3, <1>4, <1>5 DEF m1, Standing

\* A caller writes to the words it has.
LEMMA Painting ==
    ASSUME NEW bs, NEW m \in Memory, Tiled(m, bs), NEW h \in bs,
           NEW n \in Nat, n <= Sz(m, h), NEW x \in Int
    PROVE  LET m1 == Filled(m, h + 5, n, x)
           IN  /\ m1 \in Memory /\ Tiled(m1, bs)
               /\ \A g \in bs :
                     /\ Sz(m1, g) = Sz(m, g) /\ Us(m1, g) = Us(m, g)
                     /\ Nx(m1, g) = Nx(m, g) /\ Pv(m1, g) = Pv(m, g)
                     /\ End(m1, g) = End(m, g)
                     /\ Get(m1, magic(g)) = Get(m, magic(g))
               /\ \A w \in (h + 5) .. (h + 5 + n - 1) : Get(m1, w) = x
               /\ \A w \in Heap : (w < h + 5 \/ w >= End(m, h))
                                     => Get(m1, w) = Get(m, w)
<1> DEFINE m1 == Filled(m, h + 5, n, x)
<1>1. /\ h \in Nat /\ End(m, h) = h + 5 + Sz(m, h) /\ Sz(m, h) \in Nat
      /\ Spread(bs)
      BY TiledFacts
<1>2. m1 \in Memory BY DEF Filled, Memory
<1>3. \A w \in Heap : Get(m1, w) = IF w \in (h + 5) .. (h + 5 + n - 1)
                                   THEN x ELSE Get(m, w)
      BY DEF Filled, Get
<1> HIDE DEF m1
<1>4. ASSUME NEW w \in (h + 5) .. (h + 5 + n - 1)
      PROVE  /\ w \in Heap
             /\ \A g \in bs : /\ w # magic(g) /\ w # size(g) /\ w # used(g)
                              /\ w # next(g) /\ w # prev(g)
  <2>1. w \in Int /\ h + 5 <= w /\ w < End(m, h) BY <1>1
  <2> QED BY <2>1, Data
<1>5. ASSUME NEW g \in bs
      PROVE  /\ Sz(m1, g) = Sz(m, g) /\ Us(m1, g) = Us(m, g)
             /\ Nx(m1, g) = Nx(m, g) /\ Pv(m1, g) = Pv(m, g)
             /\ Get(m1, magic(g)) = Get(m, magic(g))
  <2>1. /\ magic(g) \in Heap /\ size(g) \in Heap /\ used(g) \in Heap
        /\ next(g) \in Heap /\ prev(g) \in Heap
        BY <1>1, Fields
  <2>2. \A a \in {magic(g), size(g), used(g), next(g), prev(g)} :
           a \notin (h + 5) .. (h + 5 + n - 1)
        BY <1>4
  <2>3. \A a \in {magic(g), size(g), used(g), next(g), prev(g)} :
           Get(m1, a) = Get(m, a)
        BY <1>3, <2>1, <2>2
  <2> QED BY <2>3 DEF Sz, Us, Nx, Pv
<1>6. Tiled(m1, bs) /\ \A g \in bs : End(m1, g) = End(m, g)
  <2>1. \A g \in bs : /\ Sz(m1, g) = Sz(m, g)
                      /\ Get(m1, magic(g)) = Get(m, magic(g))
        BY <1>5
  <2>2. Tiled(m, bs) OBVIOUS
  <2>3. Tiled(m1, bs) BY ONLY <2>1, <2>2, TiledFrame
  <2>4. \A g \in bs : End(m1, g) = End(m, g) BY <2>1 DEF End, Sz
  <2> QED BY <2>3, <2>4
<1>7. \A w \in (h + 5) .. (h + 5 + n - 1) : Get(m1, w) = x BY <1>3, <1>4
<1>8. ASSUME NEW w \in Heap, w < h + 5 \/ w >= End(m, h)
      PROVE  Get(m1, w) = Get(m, w)
  <2>1. w \in Nat BY Facts
  <2>2. w \notin (h + 5) .. (h + 5 + n - 1) BY <1>1, <1>8, <2>1
  <2> QED BY <1>3, <2>2
<1> QED BY <1>2, <1>5, <1>6, <1>7, <1>8 DEF m1


-----------------------------------------------------------------------------
(***************************************************************************)
(* KFREE up to insert_free_block: the caller has zeroed its words, the     *)
(* block leaves the list of those in use (HEAP.c:113-121).                 *)
(***************************************************************************)
Release(m, h, n) ==
    Put(Filled(m, h + 5, n, 0), used(h), 0)

Released(m, h, n) ==
    Put(Put(Unlink(Release(m, h, n), h), prev(h), NULL), next(h), NULL)

Unbound(m, m1, bs, U, first1, r, h) ==
    /\ m1 \in Memory /\ Tiled(m1, bs)
    /\ Chain(m1, U \ {h}, first1, r)
    /\ \A g \in bs : /\ Sz(m1, g) = Sz(m, g) /\ End(m1, g) = End(m, g)
                     /\ Us(m1, g) = IF g = h THEN 0 ELSE Us(m, g)
    /\ \A g \in bs \ U : Nx(m1, g) = Nx(m, g) /\ Pv(m1, g) = Pv(m, g)
    /\ \A g \in bs \ {h} : \A w \in (g + 5) .. (End(m, g) - 1) :
          Get(m1, w) = Get(m, w)

\* KFREE up to insert_free_block takes h off the used list.
LEMMA Releasing ==
    ASSUME NEW m \in Memory, NEW bs, Tiled(m, bs), NEW U \in SUBSET bs,
           NEW first, NEW r \in [Heap -> Int], Chain(m, U, first, r),
           NEW h \in U, NEW n \in Nat, n <= Sz(m, h)
    PROVE  Unbound(m, Released(m, h, n), bs, U,
                   HeadAfter(Release(m, h, n), h, first), r, h)
<1> DEFINE m0 == Filled(m, h + 5, n, 0)
           m1 == Put(m0, used(h), 0)
           m2 == Unlink(m1, h)
           m3 == PutIf(m2, h, prev(h), NULL)
           m4 == PutIf(m3, h, next(h), NULL)
<1> HIDE DEF m0, m1, m2, m3, m4
<1>1. /\ Spread(bs) /\ h \in bs /\ U \subseteq Heap /\ NULL \notin U
      /\ h \in bs \cup {NULL} /\ NULL \in Int /\ 0 \in Int /\ h # NULL
  <2>1. Spread(bs) BY TiledFacts
  <2> QED BY <2>1, Fields, Facts
<1>2. /\ m0 \in Memory /\ Tiled(m0, bs)
      /\ \A g \in bs : /\ Sz(m0, g) = Sz(m, g) /\ Us(m0, g) = Us(m, g)
                       /\ Nx(m0, g) = Nx(m, g) /\ Pv(m0, g) = Pv(m, g)
                       /\ End(m0, g) = End(m, g)
      /\ \A w \in Heap : (w < h + 5 \/ w >= End(m, h))
                            => Get(m0, w) = Get(m, w)
      BY <1>1, Painting DEF m0
<1>3. /\ Standing(m0, m1, bs)
      /\ \A g \in bs : /\ Us(m1, g) = IF g = h THEN 0 ELSE Us(m0, g)
                       /\ Nx(m1, g) = Nx(m0, g) /\ Pv(m1, g) = Pv(m0, g)
      BY <1>1, <1>2, PutUsed DEF m1
<1>4. m1 \in Memory BY <1>3, StandingFacts
<1>5. Chain(m1, U, first, r)
  <2>1. \A g \in U : /\ Nx(m1, g) = Nx(m, g) /\ Pv(m1, g) = Pv(m, g)
                     /\ r[g] = r[g]
        BY <1>2, <1>3
  <2> QED BY <2>1, ChainFrame
<1>6. /\ Relinked(m1, m2, bs)
      /\ \A g \in bs : /\ Nx(m2, g) = IF g = Pv(m1, h) THEN Nx(m1, h)
                                                       ELSE Nx(m1, g)
                       /\ Pv(m2, g) = IF g = Nx(m1, h) THEN Pv(m1, h)
                                                       ELSE Pv(m1, g)
  <2>1. Unlinked(m1, m2, bs, h) BY <1>1, <1>4, <1>5, Unlinking DEF m2
  <2> QED BY <2>1 DEF Unlinked
<1>7. m2 \in Memory BY <1>6 DEF Relinked
<1>8. /\ Relinked(m2, m3, bs)
      /\ \A g \in bs : /\ Pv(m3, g) = IF g = h THEN NULL ELSE Pv(m2, g)
                       /\ Nx(m3, g) = Nx(m2, g)
      BY <1>1, <1>7, PutPrev DEF m3
<1>9. m3 \in Memory BY <1>8 DEF Relinked
<1>10. /\ Relinked(m3, m4, bs)
       /\ \A g \in bs : /\ Nx(m4, g) = IF g = h THEN NULL ELSE Nx(m3, g)
                        /\ Pv(m4, g) = Pv(m3, g)
       BY <1>1, <1>9, PutNext DEF m4
<1>11. Released(m, h, n) = m4 /\ Release(m, h, n) = m1
  <2>1. m3 = Put(m2, prev(h), NULL) /\ m4 = Put(m3, next(h), NULL)
        BY <1>1 DEF m3, m4, PutIf
  <2> QED BY <2>1 DEF Released, Release, m0, m1, m2
<1>12. Relinked(m1, m4, bs) BY <1>6, <1>8, <1>10, RelinkedTwice
<1>13. Standing(m1, m4, bs) /\ \A g \in bs : Us(m4, g) = Us(m1, g)
       BY <1>1, <1>12, RelinkedStanding
<1>14. Standing(m0, m4, bs) BY <1>3, <1>13, StandingFacts
<1>15. m4 \in Memory /\ Tiled(m4, bs) BY <1>2, <1>14, StandingFacts
<1>16. \A g \in bs : /\ Sz(m4, g) = Sz(m, g) /\ End(m4, g) = End(m, g)
                     /\ Us(m4, g) = IF g = h THEN 0 ELSE Us(m, g)
       BY <1>2, <1>3, <1>13, <1>14 DEF Standing
<1>17. Beside(m1, U, first, r, h) BY <1>1, <1>5, Neighbours
<1>18. Chain(m4, U \ {h}, HeadAfter(m1, h, first), r)
  <2>1. \A g \in U \ {h} :
           /\ Nx(m4, g) = IF g = Pv(m1, h) THEN Nx(m1, h) ELSE Nx(m1, g)
           /\ Pv(m4, g) = IF g = Nx(m1, h) THEN Pv(m1, h) ELSE Pv(m1, g)
        BY <1>6, <1>8, <1>10
  <2>2. Chain(m4, U \ {h}, IF Pv(m1, h) = NULL THEN Nx(m1, h) ELSE first, r)
        BY <1>1, <1>5, <2>1, ChainRemove
  <2> QED BY <2>2 DEF HeadAfter, Nx, Pv
<1>19. \A g \in bs \ U : Nx(m4, g) = Nx(m, g) /\ Pv(m4, g) = Pv(m, g)
  <2>1. \A g \in bs \ U : g # h /\ g # Pv(m1, h) /\ g # Nx(m1, h)
    <3>1. NULL \notin bs BY <1>1, Fields
    <3> QED BY <1>17, <3>1 DEF Beside
  <2> QED BY <1>2, <1>3, <1>6, <1>8, <1>10, <2>1
<1>20. ASSUME NEW g \in bs \ {h}, NEW w \in (g + 5) .. (End(m, g) - 1)
       PROVE  Get(m4, w) = Get(m, w)
  <2>1. g \in Nat /\ End(m, g) \in Nat /\ h \in Nat /\ End(m, h) \in Nat
        BY <1>1, TiledFacts
  <2>2. w \in Int /\ g + 5 <= w /\ w < End(m, g) BY <2>1
  <2>3. w \in Heap /\ ~(h <= w /\ w < End(m, h)) BY <1>1, <2>2, Data
  <2>4. w < h + 5 \/ w >= End(m, h) BY <2>1, <2>2, <2>3
  <2>5. Get(m0, w) = Get(m, w) BY <1>2, <2>3, <2>4
  <2>6. Framed(m0, m4, bs) /\ w < End(m0, g) BY <1>2, <1>14, <2>2 DEF Standing
  <2>7. Get(m4, w) = Get(m0, w) BY <1>2, <2>2, <2>6, DataFramed
  <2> QED BY <2>5, <2>7
<1> QED BY <1>11, <1>15, <1>16, <1>18, <1>19, <1>20 DEF Unbound


-----------------------------------------------------------------------------
(***************************************************************************)
(* KMALLOC behind the split: the block moves from the list of unused ones  *)
(* to the front of the other, and its caller fills it (HEAP.c:73-92).      *)
(***************************************************************************)
Granted(m, h, n) ==
    Filled(PushUsed(Unlink(Put(m, used(h), 1), h), h), h + 5, n, BLOCK_MAGIC)

Pushed(m, m1, bs, U, h) ==
    /\ Relinked(m, m1, bs)
    /\ \E r1 \in [Heap -> Int] : Chain(m1, U \cup {h}, h, r1)
    /\ \A g \in bs \ (U \cup {h}) :
          Nx(m1, g) = Nx(m, g) /\ Pv(m1, g) = Pv(m, g)

\* The code that puts h in front of the used list.
LEMMA Pushing ==
    ASSUME NEW bs, Spread(bs), NEW m \in Memory, NEW U \in SUBSET bs,
           NEW first, first = used_list, NEW r \in [Heap -> Int],
           Chain(m, U, first, r), NEW h \in bs \ U
    PROVE  Pushed(m, PushUsed(m, h), bs, U, h)
<1> DEFINE m1 == PutIf(m, h, prev(h), NULL)
           m2 == PutIf(m1, h, next(h), first)
           m3 == PutIf(m2, first, prev(first), h)
           r1 == [r EXCEPT ![h] = IF first = NULL THEN 0 ELSE r[first] + 1]
<1> HIDE DEF m1, m2, m3, r1
<1>1. /\ h \in bs /\ h \notin U /\ U \subseteq Heap /\ NULL \notin U
      /\ h \in bs \cup {NULL} /\ NULL \in Int /\ h # NULL /\ h \in Heap
      /\ h \in Int /\ bs \subseteq Int
      BY Fields, Facts
<1>2. first \in U \cup {NULL} /\ first \in bs \cup {NULL} /\ first # h
      BY <1>1 DEF Chain
<1>3. first \in Int
  <2>1. CASE first = NULL BY <2>1, Facts
  <2>2. CASE first \in U BY <1>1, <2>2
  <2> QED BY <1>2, <2>1, <2>2
<1>4. /\ Relinked(m, m1, bs)
      /\ \A g \in bs : /\ Pv(m1, g) = IF g = h THEN NULL ELSE Pv(m, g)
                       /\ Nx(m1, g) = Nx(m, g)
      BY <1>1, PutPrev DEF m1
<1>5. m1 \in Memory BY <1>4 DEF Relinked
<1>6. /\ Relinked(m1, m2, bs)
      /\ \A g \in bs : /\ Nx(m2, g) = IF g = h THEN first ELSE Nx(m1, g)
                       /\ Pv(m2, g) = Pv(m1, g)
      BY <1>1, <1>3, <1>5, PutNext DEF m2
<1>7. m2 \in Memory BY <1>6 DEF Relinked
<1>8. /\ Relinked(m2, m3, bs)
      /\ \A g \in bs : /\ Pv(m3, g) = IF g = first THEN h ELSE Pv(m2, g)
                       /\ Nx(m3, g) = Nx(m2, g)
      BY <1>1, <1>2, <1>7, PutPrev DEF m3
<1>9. PushUsed(m, h) = m3
  <2>1. m1 = Put(m, prev(h), NULL) /\ m2 = Put(m1, next(h), first)
        BY <1>1 DEF m1, m2, PutIf
  <2> QED BY <2>1 DEF PushUsed, m3
<1>10. Relinked(m, m3, bs) BY <1>4, <1>6, <1>8, RelinkedTwice
<1>11. /\ r1 \in [Heap -> Int] /\ \A g \in U : r1[g] = r[g]
       /\ first # NULL => r1[first] < r1[h]
  <2>1. first # NULL => first \in Heap /\ r[first] \in Int BY <1>1, <1>2
  <2> QED BY <1>1, <1>2, <2>1 DEF r1
<1>12. Chain(m, U, first, r1) BY <1>11, ChainFrame
<1>13. Chain(m3, U \cup {h}, h, r1)
  <2>1. \A g \in U : g \in bs /\ g # h /\ g # NULL BY <1>1
  <2>2. \A g \in U : /\ Nx(m3, g) = IF g = NULL THEN h ELSE Nx(m, g)
                     /\ Pv(m3, g) = IF g = first THEN h ELSE Pv(m, g)
        BY <1>4, <1>6, <1>8, <2>1
  <2>3. Nx(m3, h) = first /\ Pv(m3, h) = NULL
        BY <1>1, <1>2, <1>4, <1>6, <1>8
  <2>4. Chain(m3, U \cup {h}, IF NULL = NULL THEN h ELSE first, r1)
    <3>1. h \in Heap \ U /\ first \in U \cup {NULL} BY <1>1, <1>2
    <3>2. first # NULL => r1[first] < r1[h] BY <1>11
    <3>3. Between(m, m3, U, first, r1, h, NULL, first)
      <4>1. NULL \in U \cup {NULL} OBVIOUS
      <4> QED BY <2>2, <2>3, <3>1, <3>2, <4>1 DEF Between
    <3>4. NULL \notin U /\ U \subseteq Heap BY <1>1
    <3> QED BY <1>11, <1>12, <3>3, <3>4, ChainInsert
  <2> QED BY <2>4
<1>14. \A g \in bs \ (U \cup {h}) : Nx(m3, g) = Nx(m, g) /\ Pv(m3, g) = Pv(m, g)
  <2>1. \A g \in bs \ (U \cup {h}) : g \in bs /\ g # h /\ g # first
    <3>1. NULL \notin bs BY Fields
    <3> QED BY <1>2, <3>1
  <2> QED BY <1>4, <1>6, <1>8, <2>1
<1> QED BY <1>9, <1>10, <1>11, <1>13, <1>14 DEF Pushed

Bound(m, m1, bs, S, U, first1, r, h, n) ==
    /\ m1 \in Memory /\ Tiled(m1, bs)
    /\ Chain(m1, S \ {h}, first1, r)
    /\ \E r1 \in [Heap -> Int] : Chain(m1, U \cup {h}, h, r1)
    /\ \A g \in bs : /\ Sz(m1, g) = Sz(m, g) /\ End(m1, g) = End(m, g)
                     /\ Us(m1, g) = IF g = h THEN 1 ELSE Us(m, g)
    /\ \A w \in (h + 5) .. (h + 5 + n - 1) : Get(m1, w) = BLOCK_MAGIC
    /\ \A g \in bs \ {h} : \A w \in (g + 5) .. (End(m, g) - 1) :
          Get(m1, w) = Get(m, w)

\* KMALLOC from the used byte on moves h from one list to the other.
LEMMA Granting ==
    ASSUME NEW m \in Memory, NEW bs, Tiled(m, bs),
           NEW S \in SUBSET bs, NEW U \in SUBSET bs, S \cap U = {},
           NEW first, NEW r \in [Heap -> Int], Chain(m, S, first, r),
           NEW first2, first2 = used_list, NEW r2 \in [Heap -> Int],
           Chain(m, U, first2, r2),
           NEW h \in S, NEW n \in Nat, n <= Sz(m, h)
    PROVE  Bound(m, Granted(m, h, n), bs, S, U,
                 HeadAfter(Put(m, used(h), 1), h, first), r, h, n)
<1> DEFINE m1 == Put(m, used(h), 1)
           m2 == Unlink(m1, h)
           m3 == PushUsed(m2, h)
           m4 == Filled(m3, h + 5, n, BLOCK_MAGIC)
<1> HIDE DEF m1, m2, m3, m4
<1>1. /\ Spread(bs) /\ h \in bs /\ S \subseteq Heap /\ NULL \notin S
      /\ BLOCK_MAGIC \in Int /\ 1 \in Int /\ NULL \notin bs /\ h \in bs \ U
  <2>1. Spread(bs) BY TiledFacts
  <2> QED BY <2>1, Fields, Facts
<1>2. /\ Standing(m, m1, bs)
      /\ \A g \in bs : /\ Us(m1, g) = IF g = h THEN 1 ELSE Us(m, g)
                       /\ Nx(m1, g) = Nx(m, g) /\ Pv(m1, g) = Pv(m, g)
      BY <1>1, PutUsed DEF m1
<1>3. m1 \in Memory BY <1>2, StandingFacts
<1>4. Chain(m1, S, first, r)
  <2>1. \A g \in S : /\ Nx(m1, g) = Nx(m, g) /\ Pv(m1, g) = Pv(m, g)
                     /\ r[g] = r[g]
        BY <1>2
  <2> QED BY <2>1, ChainFrame
<1>5. /\ Relinked(m1, m2, bs)
      /\ \A g \in bs : /\ Nx(m2, g) = IF g = Pv(m1, h) THEN Nx(m1, h)
                                                       ELSE Nx(m1, g)
                       /\ Pv(m2, g) = IF g = Nx(m1, h) THEN Pv(m1, h)
                                                       ELSE Pv(m1, g)
  <2>1. Unlinked(m1, m2, bs, h) BY <1>1, <1>3, <1>4, Unlinking DEF m2
  <2> QED BY <2>1 DEF Unlinked
<1>6. m2 \in Memory BY <1>5 DEF Relinked
<1>7. Beside(m1, S, first, r, h) BY <1>1, <1>4, Neighbours
<1>8. Chain(m2, U, first2, r2)
  <2>1. \A g \in U : g \in bs /\ g # Pv(m1, h) /\ g # Nx(m1, h)
        BY <1>1, <1>7 DEF Beside
  <2>2. \A g \in U : /\ Nx(m2, g) = Nx(m, g) /\ Pv(m2, g) = Pv(m, g)
                     /\ r2[g] = r2[g]
        BY <1>2, <1>5, <2>1
  <2> QED BY <2>2, ChainFrame
<1>9. /\ Relinked(m2, m3, bs)
      /\ \E r1 \in [Heap -> Int] : Chain(m3, U \cup {h}, h, r1)
      /\ \A g \in bs \ (U \cup {h}) :
            Nx(m3, g) = Nx(m2, g) /\ Pv(m3, g) = Pv(m2, g)
  <2>1. Pushed(m2, m3, bs, U, h) BY <1>1, <1>6, <1>8, Pushing DEF m3
  <2> QED BY <2>1 DEF Pushed
<1>10. Relinked(m1, m3, bs) BY <1>5, <1>9, RelinkedTwice
<1>11. Standing(m1, m3, bs) /\ \A g \in bs : Us(m3, g) = Us(m1, g)
       BY <1>1, <1>10, RelinkedStanding
<1>12. Standing(m, m3, bs) BY <1>2, <1>11, StandingFacts
<1>13. m3 \in Memory /\ Tiled(m3, bs) BY <1>12, StandingFacts
<1>14. \A g \in bs : Sz(m3, g) = Sz(m, g) /\ End(m3, g) = End(m, g)
       BY <1>12 DEF Standing
<1>15. Chain(m3, S \ {h}, HeadAfter(m1, h, first), r)
  <2>1. \A g \in S \ {h} : g \in bs \ (U \cup {h}) OBVIOUS
  <2>2. \A g \in S \ {h} :
           /\ Nx(m3, g) = IF g = Pv(m1, h) THEN Nx(m1, h) ELSE Nx(m1, g)
           /\ Pv(m3, g) = IF g = Nx(m1, h) THEN Pv(m1, h) ELSE Pv(m1, g)
        BY <1>5, <1>9, <2>1
  <2>3. Chain(m3, S \ {h}, IF Pv(m1, h) = NULL THEN Nx(m1, h) ELSE first, r)
        BY <1>1, <1>4, <2>2, ChainRemove
  <2> QED BY <2>3 DEF HeadAfter, Nx, Pv
<1>16. /\ m4 \in Memory /\ Tiled(m4, bs)
       /\ \A g \in bs :
             /\ Sz(m4, g) = Sz(m3, g) /\ Us(m4, g) = Us(m3, g)
             /\ Nx(m4, g) = Nx(m3, g) /\ Pv(m4, g) = Pv(m3, g)
             /\ End(m4, g) = End(m3, g)
       /\ \A w \in (h + 5) .. (h + 5 + n - 1) : Get(m4, w) = BLOCK_MAGIC
       /\ \A w \in Heap : (w < h + 5 \/ w >= End(m3, h))
                             => Get(m4, w) = Get(m3, w)
  <2>1. n <= Sz(m3, h) BY <1>1, <1>14
  <2> QED BY <1>1, <1>13, <2>1, Painting DEF m4
<1>17. Chain(m4, S \ {h}, HeadAfter(m1, h, first), r)
  <2>1. \A g \in S \ {h} : /\ Nx(m4, g) = Nx(m3, g) /\ Pv(m4, g) = Pv(m3, g)
                           /\ r[g] = r[g]
        BY <1>16
  <2> QED BY <1>15, <2>1, ChainFrame
<1>18. \E r1 \in [Heap -> Int] : Chain(m4, U \cup {h}, h, r1)
  <2>1. PICK r1 \in [Heap -> Int] : Chain(m3, U \cup {h}, h, r1) BY <1>9
  <2>2. \A g \in U \cup {h} : /\ Nx(m4, g) = Nx(m3, g) /\ Pv(m4, g) = Pv(m3, g)
                              /\ r1[g] = r1[g]
        BY <1>1, <1>16
  <2>3. Chain(m4, U \cup {h}, h, r1) BY <2>1, <2>2, ChainFrame
  <2> QED BY <2>3
<1>19. \A g \in bs : /\ Sz(m4, g) = Sz(m, g) /\ End(m4, g) = End(m, g)
                     /\ Us(m4, g) = IF g = h THEN 1 ELSE Us(m, g)
       BY <1>2, <1>11, <1>14, <1>16
<1>20. ASSUME NEW g \in bs \ {h}, NEW w \in (g + 5) .. (End(m, g) - 1)
       PROVE  Get(m4, w) = Get(m, w)
  <2>1. g \in Nat /\ End(m, g) \in Nat /\ h \in Nat /\ End(m, h) \in Nat
        BY <1>1, TiledFacts
  <2>2. w \in Int /\ g + 5 <= w /\ w < End(m, g) BY <2>1
  <2>3. w \in Heap /\ ~(h <= w /\ w < End(m, h)) BY <1>1, <2>2, Data
  <2>4. w < h + 5 \/ w >= End(m3, h) BY <1>1, <1>14, <2>1, <2>2, <2>3
  <2>5. Get(m4, w) = Get(m3, w) BY <1>16, <2>3, <2>4
  <2>6. Framed(m, m3, bs) BY <1>12 DEF Standing
  <2>7. Get(m3, w) = Get(m, w) BY <2>2, <2>6, DataFramed
  <2> QED BY <2>5, <2>7
<1>21. Granted(m, h, n) = m4 BY DEF Granted, m1, m2, m3, m4
<1>22. HeadAfter(Put(m, used(h), 1), h, first) = HeadAfter(m1, h, first)
       BY DEF m1
<1> QED BY <1>16, <1>17, <1>18, <1>19, <1>20, <1>21, <1>22 DEF Bound


-----------------------------------------------------------------------------
(***************************************************************************)
(* KFREE from insert_free_block on, and what its callers have of it.       *)
(***************************************************************************)
Users(m, bs) == {h \in bs : Us(m, h) # 0}

\* A pointer freed and not handed out again: its used byte is 0, in the
\* header of an unused block or inside one.
Stale(m, bs, q) ==
    /\ Get(m, q - 3) = 0
    /\ \E g \in bs : /\ Us(m, g) = 0
                     /\ \/ q = g + 5
                        \/ g + 10 <= q /\ q <= End(m, g)

\* The blocks in use, their links and their data are as they were.
Keeps(m, bs, m1, bs1) ==
    /\ Users(m1, bs1) = Users(m, bs)
    /\ \A h \in Users(m, bs) :
          /\ Sz(m1, h) = Sz(m, h) /\ End(m1, h) = End(m, h)
          /\ Nx(m1, h) = Nx(m, h) /\ Pv(m1, h) = Pv(m, h)
          /\ \A w \in (h + 5) .. (End(m, h) - 1) : Get(m1, w) = Get(m, w)

Preserves(m, bs, m1, bs1) ==
    /\ Keeps(m, bs, m1, bs1)
    /\ \A q \in Int : Stale(m, bs, q) => Stale(m1, bs1, q)

\* What two changes preserve they preserve together.
LEMMA PreservesTwice ==
    ASSUME NEW m, NEW bs, NEW m1, NEW bs1, NEW m2, NEW bs2,
           Preserves(m, bs, m1, bs1), Preserves(m1, bs1, m2, bs2)
    PROVE  Preserves(m, bs, m2, bs2)
BY DEF Preserves, Keeps

\* The unused blocks, all of them, on their list.
Unused(m, bs, S, first, r) ==
    /\ m \in Memory /\ Tiled(m, bs) /\ S = bs \ Users(m, bs)
    /\ Chain(m, S, first, r)

\* What is neither a link nor a size.
LEMMA StaleKept ==
    ASSUME NEW m, NEW bs, Tiled(m, bs), NEW m1, Reshaped(m, m1, bs),
           NEW q \in Int, Stale(m, bs, q)
    PROVE  Get(m1, q - 3) = 0
<1>1. PICK g \in bs : Us(m, g) = 0 /\ (q = g + 5 \/ (g + 10 <= q /\ q <= End(m, g)))
      BY DEF Stale
<1>2. Spread(bs) /\ g \in Nat /\ End(m, g) \in Nat BY TiledFacts
<1>3. CASE q = g + 5
  <2>1. q - 3 = used(g) BY <1>2, <1>3 DEF used
  <2>2. Us(m1, g) = Us(m, g) BY <1>2, ReshapedUsed
  <2> QED BY <1>1, <2>1, <2>2 DEF Us
<1>4. CASE g + 10 <= q /\ q <= End(m, g)
  <2>1. q - 3 \in Int /\ g + 5 <= q - 3 /\ q - 3 < End(m, g) BY <1>2, <1>4
  <2>2. /\ q - 3 \in Heap
        /\ \A h \in bs : q - 3 # size(h) /\ q - 3 # next(h) /\ q - 3 # prev(h)
        BY <2>1, Data
  <2>3. Get(m1, q - 3) = Get(m, q - 3) BY <2>2 DEF Reshaped
  <2> QED BY <2>3 DEF Stale
<1> QED BY <1>1, <1>3, <1>4

\* Changing the links of unused blocks preserves what is in use.
LEMMA RelinkedPreserves ==
    ASSUME NEW m, NEW bs, Tiled(m, bs), NEW m1, Relinked(m, m1, bs),
           \A g \in Users(m, bs) : Nx(m1, g) = Nx(m, g) /\ Pv(m1, g) = Pv(m, g)
    PROVE  Preserves(m, bs, m1, bs)
<1>1. Spread(bs) BY TiledFacts
<1>2. Standing(m, m1, bs) /\ \A g \in bs : Us(m1, g) = Us(m, g)
      BY <1>1, RelinkedStanding
<1>3. Reshaped(m, m1, bs) BY ReshapedFacts
<1>4. Users(m1, bs) = Users(m, bs) BY <1>2 DEF Users
<1>5. ASSUME NEW h \in Users(m, bs)
      PROVE  /\ Sz(m1, h) = Sz(m, h) /\ End(m1, h) = End(m, h)
             /\ \A w \in (h + 5) .. (End(m, h) - 1) : Get(m1, w) = Get(m, w)
  <2>1. h \in bs BY DEF Users
  <2>2. h \in Nat /\ End(m, h) \in Nat BY <2>1, TiledFacts
  <2>3. ASSUME NEW w \in (h + 5) .. (End(m, h) - 1)
        PROVE  Get(m1, w) = Get(m, w)
    <3>1. w \in Int /\ h + 5 <= w /\ w < End(m, h) BY <2>2
    <3>2. Framed(m, m1, bs) BY <1>2 DEF Standing
    <3> QED BY <2>1, <3>1, <3>2, DataFramed
  <2> QED BY <1>2, <2>1, <2>3 DEF Standing
<1>6. ASSUME NEW q \in Int, Stale(m, bs, q) PROVE Stale(m1, bs, q)
  <2>1. Get(m1, q - 3) = 0 BY <1>3, <1>6, StaleKept
  <2>2. \A g \in bs : Us(m1, g) = Us(m, g) /\ End(m1, g) = End(m, g)
        BY <1>2 DEF Standing
  <2> QED BY <1>6, <2>1, <2>2 DEF Stale
<1> QED BY <1>4, <1>5, <1>6 DEF Preserves, Keeps

\* Unused blocks that touch are neighbours on their list.
LEMMA Touching ==
    ASSUME NEW m, NEW bs, Tiled(m, bs), NEW S \in SUBSET bs,
           NEW first, NEW r \in [Heap -> Int], Address(r),
           Chain(m, S, first, r), NEW g \in S, NEW h \in S, End(m, g) = h
    PROVE  Nx(m, g) = h /\ Pv(m, h) = g
<1> DEFINE k == Nx(m, g)
<1> HIDE DEF k
<1>1. /\ g \in bs /\ h \in bs /\ g \in Nat /\ h \in Nat /\ g + 5 <= h
      /\ g \in Heap /\ h \in Heap
  <2>1. g \in bs /\ h \in bs OBVIOUS
  <2>2. /\ g \in Nat /\ Sz(m, g) \in Nat /\ End(m, g) = g + 5 + Sz(m, g)
        /\ h \in Nat /\ Spread(bs)
        BY <2>1, TiledFacts
  <2>3. g \in Heap /\ h \in Heap BY <2>1, <2>2, Fields
  <2> QED BY <2>1, <2>2, <2>3
<1>2. r[h] < r[g]
  <2>1. g < h BY <1>1
  <2> QED BY <1>1, <2>1 DEF Address
<1>3. /\ k # NULL /\ r[h] <= r[k] /\ k \in S /\ r[k] < r[g] /\ Pv(m, k) = g
  <2>1. k # NULL /\ r[h] <= r[k] BY <1>2 DEF Chain, k
  <2> QED BY <2>1 DEF Chain, k
<1>4. k \in Heap /\ k \in Nat /\ k \in bs BY <1>3, TiledFacts, Fields
<1>5. g < k BY <1>1, <1>3, <1>4 DEF Address
<1>6. h <= k BY <1>1, <1>4, <1>5, TiledFacts
<1>7. ~(h < k)
  <2> SUFFICES ASSUME h < k PROVE FALSE OBVIOUS
  <2>1. r[k] < r[h] BY <1>1, <1>4 DEF Address
  <2>2. r[k] \in Int /\ r[h] \in Int BY <1>1, <1>4
  <2> QED BY <1>3, <2>1, <2>2
<1>8. k = h BY <1>1, <1>4, <1>6, <1>7
<1> QED BY <1>3, <1>8 DEF k

\* Joining two unused blocks preserves what is in use.
LEMMA JoiningUnused ==
    ASSUME NEW m, NEW bs, NEW S, NEW first, NEW r \in [Heap -> Int],
           Unused(m, bs, S, first, r),
           NEW h \in S, NEW n \in S, n = Nx(m, h), End(m, h) = n
    PROVE  LET m1 == Join(m, h, n)
           IN  /\ Unused(m1, bs \ {n}, S \ {n}, first, r)
               /\ Preserves(m, bs, m1, bs \ {n})
               /\ h # n /\ End(m1, h) = End(m, n)
               /\ \A g \in bs \ {h} : End(m1, g) = End(m, g)
<1> DEFINE m1 == Join(m, h, n)
<1> HIDE DEF m1
<1>1. /\ m \in Memory /\ Tiled(m, bs) /\ S = bs \ Users(m, bs)
      /\ Chain(m, S, first, r) /\ S \in SUBSET bs
      BY DEF Unused
<1>2. /\ Reshaped(m, m1, bs) /\ Tiled(m1, bs \ {n})
      /\ Chain(m1, S \ {n}, first, r)
      /\ h # n /\ End(m1, h) = End(m, n)
      /\ \A g \in bs \ {h} : End(m1, g) = End(m, g)
      /\ \A g \in bs \ S : Nx(m1, g) = Nx(m, g) /\ Pv(m1, g) = Pv(m, g)
  <2>1. Joined(m, m1, bs, S, first, r, h, n) BY <1>1, Joining DEF m1
  <2> QED BY <2>1 DEF Joined
<1>3. Spread(bs) BY <1>1, TiledFacts
<1>4. \A g \in bs : Us(m1, g) = Us(m, g) BY <1>2, <1>3, ReshapedUsed
<1>5. Us(m, h) = 0 /\ Us(m, n) = 0 /\ h \in bs /\ n \in bs BY <1>1 DEF Users
<1>6. Users(m1, bs \ {n}) = Users(m, bs) BY <1>4, <1>5 DEF Users
<1>7. S \ {n} = (bs \ {n}) \ Users(m1, bs \ {n}) BY <1>1, <1>6
<1>8. m1 \in Memory BY <1>2 DEF Reshaped
<1>9. Unused(m1, bs \ {n}, S \ {n}, first, r)
      BY <1>2, <1>7, <1>8 DEF Unused
<1>10. ASSUME NEW g \in Users(m, bs)
       PROVE  /\ Sz(m1, g) = Sz(m, g) /\ End(m1, g) = End(m, g)
              /\ Nx(m1, g) = Nx(m, g) /\ Pv(m1, g) = Pv(m, g)
              /\ \A w \in (g + 5) .. (End(m, g) - 1) : Get(m1, w) = Get(m, w)
  <2>1. g \in bs /\ g \notin S /\ g # h /\ g # n BY <1>1 DEF Users
  <2>2. End(m1, g) = End(m, g) /\ Nx(m1, g) = Nx(m, g) /\ Pv(m1, g) = Pv(m, g)
        BY <1>2, <2>1
  <2>3. /\ g \in Nat /\ End(m, g) \in Nat
        /\ End(m, g) = g + 5 + Sz(m, g) /\ Sz(m, g) \in Nat
        BY <1>1, <2>1, TiledFacts
  <2>4. End(m1, g) = g + 5 + Sz(m1, g) /\ Sz(m1, g) \in Nat
    <3>1. g \in bs \ {n} BY <2>1
    <3> QED BY <1>2, <3>1, TiledFacts
  <2>5. Sz(m1, g) = Sz(m, g) BY <2>2, <2>3, <2>4
  <2>6. ASSUME NEW w \in (g + 5) .. (End(m, g) - 1)
        PROVE  Get(m1, w) = Get(m, w)
    <3>1. w \in Int /\ g + 5 <= w /\ w < End(m, g) BY <2>3
    <3>2. bs \subseteq Int BY <1>3, Fields
    <3>3. Framed(m, m1, bs) BY <1>2, <3>2, ReshapedFramed
    <3> QED BY <1>1, <2>1, <3>1, <3>3, DataFramed
  <2> QED BY <2>2, <2>5, <2>6
<1>11. ASSUME NEW q \in Int, Stale(m, bs, q) PROVE Stale(m1, bs \ {n}, q)
  <2>1. Get(m1, q - 3) = 0 BY <1>1, <1>2, <1>11, StaleKept
  <2>2. PICK g \in bs : Us(m, g) = 0 /\ (q = g + 5 \/ (g + 10 <= q /\ q <= End(m, g)))
        BY <1>11 DEF Stale
  <2>3. \A i \in bs : i \in Nat /\ End(m, i) \in Nat /\ i + 5 <= End(m, i)
        BY <1>1, TiledFacts
  <2>4. CASE g = n
    <3>1. h + 10 <= q /\ q <= End(m1, h)
          BY <1>2, <1>5, <2>2, <2>3, <2>4
    <3> QED BY <1>2, <1>4, <1>5, <2>1, <3>1 DEF Stale
  <2>5. CASE g = h
    <3>1. q = h + 5 \/ (h + 10 <= q /\ q <= End(m1, h))
          BY <1>2, <1>5, <2>2, <2>3, <2>5
    <3> QED BY <1>2, <1>4, <1>5, <2>1, <3>1 DEF Stale
  <2>6. CASE g # n /\ g # h
    <3>1. End(m1, g) = End(m, g) /\ Us(m1, g) = 0 /\ g \in bs \ {n}
          BY <1>2, <1>4, <2>2, <2>6
    <3> QED BY <2>1, <2>2, <3>1 DEF Stale
  <2> QED BY <2>4, <2>5, <2>6
<1>12. Preserves(m, bs, m1, bs \ {n}) BY <1>6, <1>10, <1>11 DEF Preserves, Keeps
<1> QED BY <1>2, <1>9, <1>12 DEF m1


\* insert_free_block's links: b between the unused blocks p and c.
LEMMA Inserting ==
    ASSUME NEW m \in Memory, NEW bs, Tiled(m, bs), NEW S \in SUBSET bs,
           NEW first, NEW r \in [Heap -> Int], Address(r),
           Chain(m, S, first, r),
           NEW b \in bs \ S, b = blk,
           NEW p \in S \cup {NULL}, p = prv, NEW c \in S \cup {NULL}, c = cur,
           p = NULL => c = first, p # NULL => p < b /\ c = Nx(m, p),
           c # NULL => b < c
    PROVE  /\ Relinked(m, Inserted(m), bs)
           /\ Chain(Inserted(m), S \cup {b}, IF p = NULL THEN b ELSE first, r)
           /\ \A g \in bs \ (S \cup {b}) : /\ Nx(Inserted(m), g) = Nx(m, g)
                                           /\ Pv(Inserted(m), g) = Pv(m, g)
<1> DEFINE m1 == PutIf(m, b, prev(b), p)
           m2 == PutIf(m1, b, next(b), c)
           m3 == PutIf(m2, c, prev(c), b)
           m4 == PutIf(m3, p, next(p), b)
<1> HIDE DEF m1, m2, m3, m4
<1>1. /\ Spread(bs) /\ b \in bs /\ b \notin S /\ S \subseteq Heap
      /\ NULL \notin S /\ b \in bs \cup {NULL} /\ b # NULL /\ b \in Heap
      /\ b \in Int /\ NULL \notin bs
  <2>1. Spread(bs) BY TiledFacts
  <2> QED BY <2>1, Fields
<1>2. /\ p \in bs \cup {NULL} /\ c \in bs \cup {NULL} /\ p # b /\ c # b
      BY <1>1
<1>3. p \in Int /\ c \in Int
  <2>1. NULL \in Int /\ S \subseteq Int BY <1>1, Facts
  <2> QED BY <2>1
<1>4. p # NULL => p # c
  <2> SUFFICES ASSUME p # NULL, p = c PROVE FALSE OBVIOUS
  <2>1. p < b /\ b < p OBVIOUS
  <2> QED BY <1>1, <1>3, <2>1
<1>5. /\ Relinked(m, m1, bs)
      /\ \A g \in bs : /\ Pv(m1, g) = IF g = b THEN p ELSE Pv(m, g)
                       /\ Nx(m1, g) = Nx(m, g)
      BY <1>1, <1>3, PutPrev DEF m1
<1>6. m1 \in Memory BY <1>5 DEF Relinked
<1>7. /\ Relinked(m1, m2, bs)
      /\ \A g \in bs : /\ Nx(m2, g) = IF g = b THEN c ELSE Nx(m1, g)
                       /\ Pv(m2, g) = Pv(m1, g)
      BY <1>1, <1>3, <1>6, PutNext DEF m2
<1>8. m2 \in Memory BY <1>7 DEF Relinked
<1>9. /\ Relinked(m2, m3, bs)
      /\ \A g \in bs : /\ Pv(m3, g) = IF g = c THEN b ELSE Pv(m2, g)
                       /\ Nx(m3, g) = Nx(m2, g)
      BY <1>1, <1>2, <1>8, PutPrev DEF m3
<1>10. m3 \in Memory BY <1>9 DEF Relinked
<1>11. /\ Relinked(m3, m4, bs)
       /\ \A g \in bs : /\ Nx(m4, g) = IF g = p THEN b ELSE Nx(m3, g)
                        /\ Pv(m4, g) = Pv(m3, g)
       BY <1>1, <1>2, <1>10, PutNext DEF m4
<1>12. Inserted(m) = m4
  <2>1. m1 = Put(m, prev(b), p) /\ m2 = Put(m1, next(b), c)
        BY <1>1 DEF m1, m2, PutIf
  <2> QED BY <2>1 DEF Inserted, m3, m4
<1>13. Relinked(m, m4, bs) BY <1>5, <1>7, <1>9, <1>11, RelinkedTwice
<1>14. Between(m, m4, S, first, r, b, p, c)
  <2>1. \A g \in S : g \in bs /\ g # b BY <1>1
  <2>2. \A g \in S : /\ Nx(m4, g) = IF g = p THEN b ELSE Nx(m, g)
                     /\ Pv(m4, g) = IF g = c THEN b ELSE Pv(m, g)
        BY <1>5, <1>7, <1>9, <1>11, <2>1
  <2>3. Nx(m4, b) = c /\ Pv(m4, b) = p
        BY <1>1, <1>2, <1>5, <1>7, <1>9, <1>11
  <2>4. p # NULL => Nx(m, p) = c /\ r[b] < r[p]
    <3> SUFFICES ASSUME p # NULL PROVE Nx(m, p) = c /\ r[b] < r[p] OBVIOUS
    <3>1. p \in Heap /\ p < b BY <1>1
    <3> QED BY <1>1, <3>1 DEF Address
  <2>5. c # NULL => r[c] < r[b]
    <3> SUFFICES ASSUME c # NULL PROVE r[c] < r[b] OBVIOUS
    <3>1. c \in Heap /\ b < c BY <1>1
    <3> QED BY <1>1, <3>1 DEF Address
  <2>6. b \in Heap \ S /\ (p = NULL => c = first) BY <1>1
  <2> QED BY <2>2, <2>3, <2>4, <2>5, <2>6 DEF Between
<1>15. Chain(m4, S \cup {b}, IF p = NULL THEN b ELSE first, r)
       BY <1>1, <1>14, ChainInsert
<1>16. \A g \in bs \ (S \cup {b}) : Nx(m4, g) = Nx(m, g) /\ Pv(m4, g) = Pv(m, g)
  <2>1. \A g \in bs \ (S \cup {b}) : g \in bs /\ g # b /\ g # p /\ g # c
        BY <1>1
  <2> QED BY <1>5, <1>7, <1>9, <1>11, <2>1
<1> QED BY <1>12, <1>13, <1>15, <1>16

\* No two blocks of S touch, but some may touch b.
Apart(m, S, b) == \A g \in S, h \in S \ {b} : End(m, g) # h

\* KFREE's first merge.
LEMMA MergingNext ==
    ASSUME NEW m, NEW bs, NEW S, NEW first, NEW r \in [Heap -> Int],
           Address(r), Unused(m, bs, S, first, r), NEW b \in S, b = blk,
           \A g, h \in S \ {b} : End(m, g) # h
    PROVE  \E bs1, S1 : /\ Unused(JoinNext(m), bs1, S1, first, r) /\ b \in S1
                        /\ Preserves(m, bs, JoinNext(m), bs1)
                        /\ Apart(JoinNext(m), S1, b)
<1> DEFINE n == Nx(m, b)
<1> HIDE DEF n
<1>1. /\ m \in Memory /\ Tiled(m, bs) /\ Chain(m, S, first, r)
      /\ S \in SUBSET bs /\ b \in bs
      BY DEF Unused
<1>2. S \subseteq Heap /\ NULL \notin S
  <2>1. Spread(bs) BY <1>1, TiledFacts
  <2> QED BY <1>1, <2>1, Fields
<1>3. n \in S \cup {NULL} /\ n # b
  <2>1. Beside(m, S, first, r, b) BY <1>1, <1>2, Neighbours
  <2> QED BY <2>1 DEF Beside, n
<1>4. CASE n # NULL /\ End(m, b) = n
  <2> DEFINE m1 == Join(m, b, n)
  <2> HIDE DEF m1
  <2>1. JoinNext(m) = m1 BY <1>4 DEF JoinNext, n, m1, Nx
  <2>2. n \in S BY <1>3, <1>4
  <2>3. /\ Unused(m1, bs \ {n}, S \ {n}, first, r)
        /\ Preserves(m, bs, m1, bs \ {n})
        /\ End(m1, b) = End(m, n)
        /\ \A g \in bs \ {b} : End(m1, g) = End(m, g)
    <3>1. Unused(m, bs, S, first, r) /\ r \in [Heap -> Int] /\ b \in S
          OBVIOUS
    <3>2. n = Nx(m, b) BY DEF n
    <3>3. m1 = Join(m, b, n) BY DEF m1
    <3> HIDE DEF n
    <3> QED BY ONLY <1>4, <2>2, <3>1, <3>2, <3>3, JoiningUnused
  <2>4. ASSUME NEW g \in S \ {n}, NEW h \in (S \ {n}) \ {b}
        PROVE  End(m1, g) # h
    <3>1. CASE g = b
      <4>1. n \in S \ {b} /\ h \in S \ {b} BY <1>3, <2>2
      <4> QED BY <2>3, <3>1, <4>1
    <3>2. CASE g # b
      <4>1. g \in S \ {b} /\ h \in S \ {b} /\ g \in bs \ {b} BY <1>1, <3>2
      <4> QED BY <2>3, <4>1
    <3> QED BY <3>1, <3>2
  <2>5. Apart(m1, S \ {n}, b) BY <2>4 DEF Apart
  <2>6. b \in S \ {n} BY <1>3
  <2> QED BY <2>1, <2>3, <2>5, <2>6
<1>5. CASE ~(n # NULL /\ End(m, b) = n)
  <2>1. JoinNext(m) = m BY <1>5 DEF JoinNext, n, Nx
  <2>2. Preserves(m, bs, m, bs) BY DEF Preserves, Keeps
  <2>3. ASSUME NEW g \in S, NEW h \in S \ {b}, End(m, g) = h PROVE FALSE
    <3>1. CASE g = b
      <4>1. Nx(m, b) = h BY <1>1, <2>3, <3>1, Touching
      <4> QED BY <1>2, <1>5, <2>3, <3>1, <4>1 DEF n
    <3>2. CASE g # b BY <2>3, <3>2
    <3> QED BY <3>1, <3>2
  <2>4. Apart(m, S, b) BY <2>3 DEF Apart
  <2> QED BY <2>1, <2>2, <2>4
<1> QED BY <1>4, <1>5

\* Its second.
LEMMA MergingPrev ==
    ASSUME NEW m, NEW bs, NEW S, NEW first, NEW r \in [Heap -> Int],
           Address(r), Unused(m, bs, S, first, r), NEW b \in S, b = blk,
           Apart(m, S, b)
    PROVE  \E bs1, S1 : /\ Unused(JoinPrev(m), bs1, S1, first, r)
                        /\ Preserves(m, bs, JoinPrev(m), bs1)
                        /\ \A g, h \in S1 : End(JoinPrev(m), g) # h
<1> DEFINE p == Pv(m, b)
<1> HIDE DEF p
<1>1. /\ m \in Memory /\ Tiled(m, bs) /\ Chain(m, S, first, r)
      /\ S \in SUBSET bs /\ b \in bs
      BY DEF Unused
<1>2. S \subseteq Heap /\ NULL \notin S
  <2>1. Spread(bs) BY <1>1, TiledFacts
  <2> QED BY <1>1, <2>1, Fields
<1>3. /\ p \in S \cup {NULL} /\ p # b
      /\ \A g \in S : Nx(m, g) = b <=> g = p
  <2>1. Beside(m, S, first, r, b) BY <1>1, <1>2, Neighbours
  <2> QED BY <2>1 DEF Beside, p
<1>4. CASE p # NULL /\ End(m, p) = b
  <2> DEFINE m1 == Join(m, p, b)
  <2> HIDE DEF m1
  <2>1. JoinPrev(m) = m1 BY <1>4 DEF JoinPrev, p, m1, Pv
  <2>2. p \in S /\ Nx(m, p) = b BY <1>3, <1>4
  <2>3. /\ Unused(m1, bs \ {b}, S \ {b}, first, r)
        /\ Preserves(m, bs, m1, bs \ {b})
        /\ End(m1, p) = End(m, b)
        /\ \A g \in bs \ {p} : End(m1, g) = End(m, g)
        BY <1>4, <2>2, JoiningUnused DEF m1
  <2>4. ASSUME NEW g \in S \ {b}, NEW h \in S \ {b} PROVE End(m1, g) # h
    <3>1. CASE g = p BY <2>3, <3>1 DEF Apart
    <3>2. CASE g # p
      <4>1. g \in bs \ {p} /\ g \in S BY <1>1, <3>2
      <4> QED BY <2>3, <4>1 DEF Apart
    <3> QED BY <3>1, <3>2
  <2> QED BY <2>1, <2>3, <2>4
<1>5. CASE ~(p # NULL /\ End(m, p) = b)
  <2>1. JoinPrev(m) = m BY <1>5 DEF JoinPrev, p, Pv
  <2>2. Preserves(m, bs, m, bs) BY DEF Preserves, Keeps
  <2>3. ASSUME NEW g \in S, NEW h \in S, End(m, g) = h PROVE FALSE
    <3>1. CASE h = b
      <4>1. Pv(m, b) = g BY <1>1, <2>3, <3>1, Touching
      <4> QED BY <1>2, <1>5, <2>3, <3>1, <4>1 DEF p
    <3>2. CASE h # b BY <2>3, <3>2 DEF Apart
    <3> QED BY <3>1, <3>2
  <2> QED BY <2>1, <2>2, <2>3
<1> QED BY <1>4, <1>5


-----------------------------------------------------------------------------
(***************************************************************************)
(* The inductive invariant: there are blocks, and an order of those in     *)
(* use, such that                                                          *)
(***************************************************************************)
\* The unused blocks on the free list: KFREE's is not there yet.
Loose(bs) == {h \in bs : Us(mem, h) = 0 /\ ~(pc = "insert" /\ h = blk)}

\* What each caller has is a block in use, with its data; what it had is no
\* header of one.
Contents(m, bs, regions) ==
    /\ DOMAIN regions = {h + 5 : h \in Users(m, bs)}
    /\ \A h \in Users(m, bs) :
          /\ regions[h + 5] \in Nat /\ regions[h + 5] <= Sz(m, h)
          /\ \A w \in (h + 5) .. (h + 5 + regions[h + 5] - 1) :
                Get(m, w) = BLOCK_MAGIC

Callers(bs) ==
    /\ Contents(mem, bs, held)
    /\ past \subseteq Int /\ \A q \in past : Stale(mem, bs, q)

\* The first block large enough for want has room for a header behind it.
RoomAtFirst(bs) ==
    \A h \in Loose(bs) :
        Sz(mem, h) \in want .. (want + 4)
            => \E g \in Loose(bs) : g < h /\ Sz(mem, g) >= want

\* Where a call is: find_free_block has passed blocks that are too small,
\* and behind it the block has room for a header;
\* insert_free_block's prev and current are neighbours around the block.
Cursors(bs) ==
    /\ pc = "find" => /\ cur \in Loose(bs) \cup {NULL} /\ want \in Nat
                      /\ RoomAtFirst(bs)
                      /\ cur # NULL => \A h \in Loose(bs) :
                                           h < cur => Sz(mem, h) < want
    /\ pc = "take" => /\ cur \in Loose(bs) /\ want \in Nat
                      /\ want + 5 <= Sz(mem, cur)
    /\ pc = "insert" => /\ blk \in bs /\ Us(mem, blk) = 0
                        /\ cur \in Loose(bs) \cup {NULL}
                        /\ \/ prv = NULL /\ cur = free_list
                           \/ prv \in Loose(bs) /\ prv < blk /\ cur = Nx(mem, prv)

Inv(bs, r, stamp) ==
    /\ mem \in Memory /\ Tiled(mem, bs)
    /\ r \in [Heap -> Int] /\ Address(r) /\ stamp \in [Heap -> Int]
    /\ Chain(mem, Loose(bs), free_list, r)
    /\ Chain(mem, Users(mem, bs), used_list, stamp)
    /\ \A g, h \in Loose(bs) : End(mem, g) # h
    /\ Callers(bs) /\ Cursors(bs)

IInv ==
    /\ pc \in {"boot", "idle", "find", "take", "insert"}
    /\ pc = "boot" => mem \in Memory /\ DOMAIN held = {} /\ past = {}
    /\ pc # "boot" => \E bs, r, stamp : Inv(bs, r, stamp)

\* Callers keep what they have when blocks in use are kept.
LEMMA KeptContents ==
    ASSUME NEW m, NEW bs, NEW m1, NEW bs1, Keeps(m, bs, m1, bs1),
           Tiled(m, bs), NEW regions, Contents(m, bs, regions)
    PROVE  Contents(m1, bs1, regions)
<1>1. Users(m1, bs1) = Users(m, bs) BY DEF Keeps
<1>2. ASSUME NEW h \in Users(m, bs)
      PROVE  /\ regions[h + 5] \in Nat /\ regions[h + 5] <= Sz(m1, h)
             /\ \A w \in (h + 5) .. (h + 5 + regions[h + 5] - 1) :
                   Get(m1, w) = BLOCK_MAGIC
  <2>1. /\ regions[h + 5] \in Nat /\ regions[h + 5] <= Sz(m, h)
        /\ \A w \in (h + 5) .. (h + 5 + regions[h + 5] - 1) :
              Get(m, w) = BLOCK_MAGIC
        BY DEF Contents
  <2>2. /\ h \in Nat /\ Sz(m, h) \in Nat /\ End(m, h) = h + 5 + Sz(m, h)
    <3>1. h \in bs BY DEF Users
    <3> QED BY <3>1, TiledFacts
  <2>3. ASSUME NEW w \in (h + 5) .. (h + 5 + regions[h + 5] - 1)
        PROVE  Get(m1, w) = BLOCK_MAGIC
    <3>1. w \in (h + 5) .. (End(m, h) - 1) BY <2>1, <2>2
    <3>2. Get(m1, w) = Get(m, w) BY <3>1 DEF Keeps
    <3> QED BY <2>1, <3>2
  <2> QED BY <2>1, <2>3 DEF Keeps
<1> QED BY <1>1, <1>2 DEF Contents


-----------------------------------------------------------------------------
(***************************************************************************)
(* One step.                                                               *)
(***************************************************************************)
\* Before HEAP_INIT there are no blocks, after it there is one.
LEMMA Starting == ASSUME Init PROVE IInv
BY DEF Init, IInv, Memory

\* HEAP_INIT makes one unused block of the whole heap.
LEMMA Booting ==
    ASSUME IInv, HEAP_INIT
    PROVE  IInv'
<1> DEFINE r == [h \in Heap |-> -h]
<1>1. mem \in Memory /\ DOMAIN held = {} /\ past = {}
      BY DEF IInv, HEAP_INIT
<1>2. /\ 0 \in Nat /\ 0 + 5 <= HEAP_SIZE /\ HEAP_SIZE - 5 \in Int
      /\ NULL \in Int /\ HEAP_SIZE - 5 \in Nat
      BY Facts
<1>3. mem' = Header(mem, 0, HEAP_SIZE - 5, NULL, NULL)
      BY Facts DEF HEAP_INIT
<1>4. /\ mem' \in Memory
      /\ Get(mem', magic(0)) = BLOCK_MAGIC
      /\ Sz(mem', 0) = HEAP_SIZE - 5 /\ Us(mem', 0) = 0
      /\ Nx(mem', 0) = NULL /\ Pv(mem', 0) = NULL
      BY <1>1, <1>2, <1>3, HeaderPut
<1>5. End(mem', 0) = HEAP_SIZE BY <1>4, Facts DEF End, Sz
<1>6. 0 \in Heap /\ 0 # HEAP_SIZE /\ 0 # NULL BY Facts
<1>7. Tiled(mem', {0})
  <2>1. {0} \subseteq Heap /\ 0 \in {0} BY <1>6
  <2>2. \A h \in {0} : /\ Get(mem', magic(h)) = BLOCK_MAGIC
                       /\ Sz(mem', h) \in Nat
                       /\ End(mem', h) \in {0} \cup {HEAP_SIZE}
        BY <1>2, <1>4, <1>5
  <2>3. \A g, h \in {0} : g < h => End(mem', g) <= h OBVIOUS
  <2>4. \A h \in {0} \ {0} : \E g \in {0} : End(mem', g) = h OBVIOUS
  <2>5. \E g \in {0} : End(mem', g) = HEAP_SIZE BY <1>5
  <2> QED BY <2>1, <2>2, <2>3, <2>4, <2>5 DEF Tiled
<1>8. r \in [Heap -> Int] /\ Address(r) BY Facts DEF Address
<1>9. /\ Loose({0})' = {0} /\ Users(mem', {0}) = {} /\ pc' = "idle"
      /\ free_list' = 0 /\ used_list' = NULL /\ held' = held /\ past' = past
      BY <1>4 DEF Loose, Users, HEAP_INIT
<1> HIDE DEF r
<1>10. Chain(mem', {0}, 0, r)
  <2>1. r[0] \in Int BY <1>6, <1>8
  <2>2. r[0] <= r[0] /\ ~(r[0] < r[0]) BY <2>1
  <2> QED BY <1>4, <1>6, <2>2 DEF Chain
<1>11. Chain(mem', {}, NULL, r) BY DEF Chain
<1>12. \A g, h \in {0} : End(mem', g) # h BY <1>5, <1>6
<1>13. Contents(mem', {0}, held') BY <1>1, <1>9 DEF Contents
<1>14. Callers({0})' BY <1>1, <1>9, <1>13 DEF Callers
<1>15. Cursors({0})' BY <1>9 DEF Cursors
<1>16. Inv({0}, r, r)'
       BY <1>4, <1>7, <1>8, <1>9, <1>10, <1>11, <1>12, <1>14, <1>15 DEF Inv
<1> QED BY <1>9, <1>16 DEF IInv

\* The loops and the ways out of find_free_block.
LEMMA Following ==
    ASSUME NEW bs, NEW r, NEW stamp, Inv(bs, r, stamp),
           FindNext \/ FindNone \/ FindFit
    PROVE  Inv(bs, r, stamp)' /\ pc' \in {"idle", "find", "take"}
<1>1. /\ mem' = mem /\ free_list' = free_list /\ used_list' = used_list
      /\ held' = held /\ past' = past /\ blk' = blk /\ pc = "find"
      /\ pc' \in {"idle", "find", "take"}
      BY DEF FindNext, FindNone, FindFit, lists
<1>2. Loose(bs)' = Loose(bs) BY <1>1 DEF Loose
<1>3. /\ cur \in Loose(bs) \cup {NULL} /\ want \in Nat /\ RoomAtFirst(bs)
      /\ cur # NULL => \A h \in Loose(bs) : h < cur => Sz(mem, h) < want
      BY <1>1 DEF Inv, Cursors
<1>4. Callers(bs)' BY <1>1 DEF Inv, Callers
<1>5. Cursors(bs)'
  <2>1. CASE FindNext
    <3>1. cur' = Nx(mem, cur) /\ want' = want /\ pc' = "find"
          BY <1>1, <2>1 DEF FindNext, Nx
    <3>2. cur \in Loose(bs) /\ ~Fits(cur) BY <1>3, <2>1 DEF FindNext
    <3>3. /\ Chain(mem, Loose(bs), free_list, r) /\ Address(r)
          /\ Loose(bs) \subseteq Heap /\ Sz(mem, cur) \in Nat
          BY <3>2 DEF Inv, Tiled, Loose
    <3>4. Nx(mem, cur) \in Loose(bs) \cup {NULL} BY <3>2, <3>3 DEF Chain
    <3>5. Sz(mem, cur) < want
          BY <1>3, <3>2, <3>3 DEF Fits, Loose, Sz, Us
    <3>6. ASSUME Nx(mem, cur) # NULL, NEW h \in Loose(bs), h < Nx(mem, cur)
          PROVE  Sz(mem, h) < want
      <4>1. h \in Nat /\ cur \in Nat /\ Nx(mem, cur) \in Loose(bs)
            BY <3>2, <3>3, <3>4, <3>6, Facts
      <4>2. h \in Heap /\ cur \in Heap /\ Nx(mem, cur) \in Heap
            BY <3>2, <3>3, <4>1
      <4>3. ~(h > cur)
        <5>1. SUFFICES ASSUME h > cur PROVE FALSE OBVIOUS
        <5>2. r[h] < r[cur] BY <4>1, <4>2, <5>1, <3>3 DEF Address
        <5>3. r[h] <= r[Nx(mem, cur)] BY <3>2, <3>3, <5>2 DEF Chain
        <5>4. ~(r[Nx(mem, cur)] < r[h])
          <6>1. /\ r[h] \in Int /\ r[Nx(mem, cur)] \in Int
                BY <3>3, <4>2 DEF Address
          <6> QED BY <5>3, <6>1
        <5>5. ~(h < Nx(mem, cur)) BY <3>3, <4>2, <5>4 DEF Address
        <5> QED BY <3>6, <5>5
      <4>4. h < cur \/ h = cur BY <4>1, <4>3
      <4> QED BY <1>3, <3>2, <3>5, <4>4, <1>1, <2>1 DEF FindNext
    <3>7. RoomAtFirst(bs)' BY <1>1, <1>2, <1>3, <3>1 DEF RoomAtFirst
    <3> QED BY <1>1, <1>2, <1>3, <3>1, <3>4, <3>6, <3>7 DEF Cursors
  <2>2. CASE FindNone
    <3>1. pc' = "idle" BY <2>2 DEF FindNone
    <3> QED BY <3>1 DEF Cursors
  <2>3. CASE FindFit
    <3>1. /\ cur' = cur /\ want' = want /\ pc' = "take" /\ cur # NULL
          /\ Sz(mem, cur) >= want
          BY <2>3 DEF FindFit, Fits, Sz
    <3>2. cur \in Loose(bs) /\ cur \in bs BY <1>3, <3>1 DEF Loose
    <3>3. Sz(mem, cur) \in Nat BY <3>2 DEF Inv, Tiled
    <3>4. want + 5 <= Sz(mem, cur)
      <4>1. ASSUME NEW g \in Loose(bs), g < cur PROVE ~(Sz(mem, g) >= want)
        <5>1. g \in bs BY DEF Loose
        <5>2. Sz(mem, g) \in Nat BY <5>1 DEF Inv, Tiled
        <5>3. Sz(mem, g) < want BY <1>3, <3>1, <4>1
        <5> QED BY <1>3, <5>2, <5>3
      <4>2. Sz(mem, cur) \notin want .. (want + 4)
            BY <1>3, <3>2, <4>1 DEF RoomAtFirst
      <4> QED BY <1>3, <3>1, <3>3, <4>2
    <3> QED BY <1>1, <1>2, <1>3, <3>1, <3>2, <3>4 DEF Cursors
  <2> QED BY <2>1, <2>2, <2>3
<1> QED BY <1>1, <1>2, <1>4, <1>5 DEF Inv

\* insert_free_block's loop goes on.
LEMMA Advancing ==
    ASSUME NEW bs, NEW r, NEW stamp, Inv(bs, r, stamp), InsertNext
    PROVE  Inv(bs, r, stamp)' /\ pc' = "insert"
<1>1. /\ mem' = mem /\ free_list' = free_list /\ used_list' = used_list
      /\ held' = held /\ past' = past /\ blk' = blk /\ pc = "insert"
      /\ pc' = "insert" /\ cur # NULL /\ cur < blk
      /\ prv' = cur /\ cur' = Nx(mem, cur)
      BY DEF InsertNext, lists, Nx
<1>2. Loose(bs)' = Loose(bs) BY <1>1 DEF Loose
<1>3. blk \in bs /\ Us(mem, blk) = 0 /\ cur \in Loose(bs)
      BY <1>1 DEF Inv, Cursors
<1>4. Nx(mem, cur) \in Loose(bs) \cup {NULL} BY <1>3 DEF Inv, Chain
<1>5. Callers(bs)' BY <1>1 DEF Inv, Callers
<1>6. Cursors(bs)' BY <1>1, <1>2, <1>3, <1>4 DEF Cursors
<1> QED BY <1>1, <1>2, <1>5, <1>6 DEF Inv


\* KFREE's block put back and merged on both sides: no two unused blocks
\* touch, those in use are as they were (HEAP.c:125-137, 150-155).
Coalescing(m, m1, bs, first, r) ==
    \E bs1, S1 : /\ Unused(m1, bs1, S1, first, r)
                 /\ Preserves(m, bs, m1, bs1)
                 /\ \A g, h \in S1 : End(m1, g) # h

\* The block on the free list again, merged with the neighbours it touches.
LEMMA PuttingBack ==
    ASSUME NEW m \in Memory, NEW bs, Tiled(m, bs), NEW S \in SUBSET bs,
           NEW first, NEW r \in [Heap -> Int], Address(r),
           Chain(m, S, first, r),
           NEW b \in bs \ S, b = blk, S \cup {b} = bs \ Users(m, bs),
           NEW p \in S \cup {NULL}, p = prv, NEW c \in S \cup {NULL}, c = cur,
           p = NULL => c = first, p # NULL => p < b /\ c = Nx(m, p),
           c # NULL => b < c,
           \A g, h \in S : End(m, g) # h
    PROVE  Coalescing(m, JoinPrev(JoinNext(Inserted(m))), bs,
                      IF p = NULL THEN b ELSE first, r)
<1> DEFINE m1 == Inserted(m)
           m2 == JoinNext(m1)
           m3 == JoinPrev(m2)
           f == IF p = NULL THEN b ELSE first
<1> HIDE DEF m1, m2, m3, f
<1>1. /\ Relinked(m, m1, bs) /\ Chain(m1, S \cup {b}, f, r)
      /\ \A g \in bs \ (S \cup {b}) : Nx(m1, g) = Nx(m, g) /\ Pv(m1, g) = Pv(m, g)
      BY Inserting DEF m1, f
<1>2. Spread(bs) BY TiledFacts
<1>3. Preserves(m, bs, m1, bs)
  <2>1. \A g \in Users(m, bs) : g \in bs \ (S \cup {b}) BY DEF Users
  <2> QED BY <1>1, <2>1, RelinkedPreserves
<1>4. Standing(m, m1, bs) BY <1>1, <1>2, RelinkedStanding
<1>5. m1 \in Memory /\ Tiled(m1, bs) BY <1>4, StandingFacts
<1>6. Unused(m1, bs, S \cup {b}, f, r)
  <2>1. Users(m1, bs) = Users(m, bs) BY <1>3 DEF Preserves, Keeps
  <2> QED BY <1>1, <1>5, <2>1 DEF Unused
<1>7. \A g, h \in (S \cup {b}) \ {b} : End(m1, g) # h
  <2>1. \A g \in bs : End(m1, g) = End(m, g) BY <1>4 DEF Standing
  <2> QED BY <2>1
<1>8. PICK bs2, S2 : /\ Unused(m2, bs2, S2, f, r) /\ b \in S2
                     /\ Preserves(m1, bs, m2, bs2) /\ Apart(m2, S2, b)
  <2>1. b \in S \cup {b} OBVIOUS
  <2> QED BY <1>6, <1>7, <2>1, MergingNext DEF m2
<1>9. PICK bs3, S3 : /\ Unused(m3, bs3, S3, f, r)
                     /\ Preserves(m2, bs2, m3, bs3)
                     /\ \A g, h \in S3 : End(m3, g) # h
      BY <1>8, MergingPrev DEF m3
<1>10. Preserves(m, bs, m3, bs3)
  <2>1. Preserves(m, bs, m2, bs2) BY <1>3, <1>8, PreservesTwice
  <2> QED BY <1>9, <2>1, PreservesTwice
<1>11. Coalescing(m, m3, bs, f, r) BY <1>9, <1>10 DEF Coalescing
<1> QED BY <1>11 DEF m1, m2, m3, f

\* The end of KFREE keeps the invariant.
LEMMA Linking ==
    ASSUME NEW bs, NEW r, NEW stamp, Inv(bs, r, stamp), InsertLink
    PROVE  (\E bs1 : Inv(bs1, r, stamp)') /\ pc' = "idle"
<1> DEFINE S == Loose(bs)
           f == IF prv = NULL THEN blk ELSE free_list
<1>1. /\ pc = "insert" /\ pc' = "idle" /\ held' = held /\ past' = past
      /\ free_list' = f /\ used_list' = used_list
      /\ mem' = JoinPrev(JoinNext(Inserted(mem)))
      /\ cur = NULL \/ cur >= blk
      BY DEF InsertLink
<1> HIDE DEF f
<1>2. /\ blk \in bs /\ Us(mem, blk) = 0
      /\ cur \in S \cup {NULL}
      /\ \/ prv = NULL /\ cur = free_list
         \/ prv \in S /\ prv < blk /\ cur = Nx(mem, prv)
      BY <1>1 DEF Inv, Cursors
<1>3. /\ mem \in Memory /\ Tiled(mem, bs) /\ r \in [Heap -> Int] /\ Address(r)
      /\ Chain(mem, S, free_list, r) /\ \A g, h \in S : End(mem, g) # h
      /\ stamp \in [Heap -> Int]
      /\ Chain(mem, Users(mem, bs), used_list, stamp)
      /\ Contents(mem, bs, held) /\ past \subseteq Int
      /\ \A q \in past : Stale(mem, bs, q)
      BY DEF Inv, Callers
<1>4. S \in SUBSET bs /\ blk \in bs \ S /\ S \cup {blk} = bs \ Users(mem, bs)
      BY <1>1, <1>2 DEF Loose, Users
<1>5. NULL \notin S /\ bs \subseteq Int
  <2>1. Spread(bs) BY <1>3, TiledFacts
  <2> QED BY <1>4, <2>1, Fields
<1> HIDE DEF S
<1>6. /\ prv \in S \cup {NULL}
      /\ prv = NULL => cur = free_list
      /\ prv # NULL => prv < blk /\ cur = Nx(mem, prv)
      /\ cur # NULL => blk < cur
  <2>1. cur # NULL => blk < cur
    <3> SUFFICES ASSUME cur # NULL PROVE blk < cur OBVIOUS
    <3>1. cur \in S /\ cur >= blk /\ cur # blk BY <1>1, <1>2, <1>4
    <3>2. cur \in Int /\ blk \in Int BY <1>4, <1>5, <3>1
    <3> QED BY <3>1, <3>2
  <2> QED BY <1>2, <1>5, <2>1
<1>7. Coalescing(mem, mem', bs, f, r)
  <2>1. ASSUME NEW m \in Memory, m = mem, NEW b \in bs \ S, b = blk,
               NEW p \in S \cup {NULL}, p = prv,
               NEW c \in S \cup {NULL}, c = cur, NEW first, first = free_list
        PROVE  Coalescing(m, JoinPrev(JoinNext(Inserted(m))), bs,
                          IF p = NULL THEN b ELSE first, r)
    <3>1. /\ Tiled(m, bs) /\ Chain(m, S, first, r)
          /\ S \cup {b} = bs \ Users(m, bs)
          /\ p = NULL => c = first
          /\ p # NULL => p < b /\ c = Nx(m, p)
          /\ c # NULL => b < c
          /\ \A g, h \in S : End(m, g) # h
          BY <1>3, <1>4, <1>6, <2>1
    <3> QED BY <1>3, <1>4, <2>1, <3>1, PuttingBack
  <2> QED BY <1>1, <1>2, <1>3, <1>4, <1>6, <2>1 DEF f
<1>8. PICK bs1, S1 : /\ Unused(mem', bs1, S1, f, r)
                     /\ Preserves(mem, bs, mem', bs1)
                     /\ \A g, h \in S1 : End(mem', g) # h
      BY <1>7 DEF Coalescing
<1>9. Loose(bs1)' = S1 /\ Tiled(mem', bs1) /\ mem' \in Memory
      BY <1>1, <1>8 DEF Loose, Unused, Users
<1>10. Users(mem', bs1) = Users(mem, bs) BY <1>8 DEF Preserves, Keeps
<1>11. Chain(mem', Users(mem', bs1), used_list', stamp)
  <2>1. \A g \in Users(mem, bs) : /\ Nx(mem', g) = Nx(mem, g)
                                  /\ Pv(mem', g) = Pv(mem, g)
                                  /\ stamp[g] = stamp[g]
        BY <1>8 DEF Preserves, Keeps
  <2>2. Chain(mem', Users(mem, bs), used_list, stamp)
        BY <1>3, <2>1, ChainFrame
  <2> QED BY <1>1, <1>10, <2>2
<1>12. Callers(bs1)'
  <2>1. Contents(mem', bs1, held)
        BY <1>3, <1>8, KeptContents DEF Preserves
  <2>2. \A q \in past : Stale(mem', bs1, q) BY <1>3, <1>8 DEF Preserves
  <2> QED BY <1>1, <1>3, <2>1, <2>2 DEF Callers
<1>13. Cursors(bs1)' BY <1>1 DEF Cursors
<1>14. Inv(bs1, r, stamp)'
  <2>1. Chain(mem', Loose(bs1)', free_list', r) BY <1>1, <1>8, <1>9 DEF Unused
  <2>2. \A g, h \in Loose(bs1)' : End(mem', g) # h BY <1>8, <1>9
  <2> QED BY <1>3, <1>9, <1>11, <1>12, <1>13, <2>1, <2>2 DEF Inv
<1> QED BY <1>1, <1>14


\* KFREE(p) up to its call of insert_free_block: nothing freed before gets
\* this far, and the block leaves the used list.
LEMMA Freeing ==
    ASSUME NEW bs, NEW r, NEW stamp, Inv(bs, r, stamp), pc = "idle",
           NEW p \in DOMAIN held \cup past, KFREE(p)
    PROVE  Inv(bs, r, stamp)' /\ pc' = "insert" /\ p \in DOMAIN held
<1> DEFINE U == Users(mem, bs)
           h == p - BLOCK_SIZE
<1>1. /\ mem \in Memory /\ Tiled(mem, bs) /\ r \in [Heap -> Int] /\ Address(r)
      /\ Chain(mem, Loose(bs), free_list, r)
      /\ \A g, i \in Loose(bs) : End(mem, g) # i
      /\ stamp \in [Heap -> Int] /\ Chain(mem, U, used_list, stamp)
      /\ Contents(mem, bs, held) /\ past \subseteq Int
      /\ \A q \in past : Stale(mem, bs, q)
      BY DEF Inv, Callers
<1>2. Spread(bs) /\ bs \subseteq Int /\ bs \subseteq Heap /\ NULL \notin bs
  <2>1. Spread(bs) BY <1>1, TiledFacts
  <2> QED BY <2>1, Fields
<1>3. /\ Get(mem, used(h)) # 0
      /\ p \in DOMAIN held =>
            mem' = Put(Put(Unlink(Put(Filled(mem, p, held[p], 0), used(h), 0), h),
                           prev(h), NULL), next(h), NULL)
      /\ p \in DOMAIN held =>
            used_list' = HeadAfter(Put(Filled(mem, p, held[p], 0), used(h), 0),
                                   h, used_list)
      /\ pc' = "insert" /\ cur' = free_list /\ prv' = NULL /\ blk' = h
      /\ held' = [q \in DOMAIN held \ {p} |-> held[q]]
      /\ past' = past \cup {p} /\ free_list' = free_list
      BY DEF KFREE, Refused
\* A pointer freed before is refused.
<1>4. p \in DOMAIN held
  <2> SUFFICES ASSUME p \in past PROVE FALSE OBVIOUS
  <2>1. Get(mem, p - 3) = 0 /\ p \in Int BY <1>1 DEF Stale
  <2>2. used(h) = p - 3 BY <2>1, Facts DEF used
  <2> QED BY <1>3, <2>1, <2>2
<1>5. h \in U /\ h \in bs /\ p = h + 5 /\ h \in Int /\ Us(mem, h) # 0
  <2>1. PICK g \in U : p = g + 5 BY <1>1, <1>4 DEF Contents
  <2>2. g \in bs /\ g \in Int /\ Us(mem, g) # 0 BY <1>2, <2>1 DEF Users
  <2>3. h = g BY <2>1, <2>2, Facts
  <2> QED BY <2>1, <2>2, <2>3
<1>6. held[p] \in Nat /\ held[p] <= Sz(mem, h) BY <1>1, <1>5 DEF Contents
<1>7. /\ mem' = Released(mem, h, held[p])
      /\ used_list' = HeadAfter(Release(mem, h, held[p]), h, used_list)
  <2> HIDE DEF h
  <2> QED BY <1>3, <1>4, <1>5 DEF Released, Release
<1> HIDE DEF h, U
<1>8. /\ mem' \in Memory /\ Tiled(mem', bs)
      /\ Chain(mem', U \ {h}, used_list', stamp)
      /\ \A g \in bs : /\ Sz(mem', g) = Sz(mem, g)
                       /\ End(mem', g) = End(mem, g)
                       /\ Us(mem', g) = IF g = h THEN 0 ELSE Us(mem, g)
      /\ \A g \in bs \ U : Nx(mem', g) = Nx(mem, g) /\ Pv(mem', g) = Pv(mem, g)
      /\ \A g \in bs \ {h} : \A w \in (g + 5) .. (End(mem, g) - 1) :
            Get(mem', w) = Get(mem, w)
  <2>1. U \in SUBSET bs BY DEF U, Users
  <2>2. Unbound(mem, Released(mem, h, held[p]), bs, U,
                HeadAfter(Release(mem, h, held[p]), h, used_list), stamp, h)
        BY <1>1, <1>5, <1>6, <2>1, Releasing
  <2> QED BY <1>7, <2>2 DEF Unbound
<1>9. Users(mem', bs) = U \ {h} BY <1>8 DEF Users, U
<1>10. Loose(bs)' = Loose(bs)
  <2>1. Loose(bs)' = {g \in bs : Us(mem', g) = 0 /\ g # h}
        BY <1>3 DEF Loose
  <2>2. Loose(bs) = {g \in bs : Us(mem, g) = 0} BY DEF Loose
  <2>3. \A g \in bs : Us(mem', g) = 0 /\ g # h <=> Us(mem, g) = 0
        BY <1>5, <1>8
  <2> QED BY <2>1, <2>2, <2>3
<1>11. Chain(mem', Loose(bs), free_list, r)
  <2>1. Loose(bs) \subseteq bs \ U BY DEF Loose, U, Users
  <2>2. \A g \in Loose(bs) : /\ Nx(mem', g) = Nx(mem, g)
                             /\ Pv(mem', g) = Pv(mem, g) /\ r[g] = r[g]
        BY <1>8, <2>1
  <2> QED BY <1>1, <2>2, ChainFrame
<1>12. \A g, i \in Loose(bs) : End(mem', g) # i
  <2>1. Loose(bs) \subseteq bs BY DEF Loose
  <2> QED BY <1>1, <1>8, <2>1
<1>13. Contents(mem', bs, held')
  <2>1. DOMAIN held' = {g + 5 : g \in Users(mem', bs)}
    <3>1. DOMAIN held = {g + 5 : g \in U} BY <1>1 DEF Contents, U
    <3>2. DOMAIN held' = DOMAIN held \ {p} BY <1>3
    <3>3. \A g \in U : g \in Int BY <1>2 DEF U, Users
    <3>4. \A g \in U : g + 5 = h + 5 <=> g = h BY <1>5, <3>3
    <3>5. {g + 5 : g \in U} \ {h + 5} = {g + 5 : g \in U \ {h}}
          BY ONLY <3>4
    <3>6. p = h + 5 BY <1>5
    <3> QED BY <1>9, <3>1, <3>2, <3>5, <3>6
  <2>2. ASSUME NEW g \in Users(mem', bs)
        PROVE  /\ held'[g + 5] \in Nat /\ held'[g + 5] <= Sz(mem', g)
               /\ \A w \in (g + 5) .. (g + 5 + held'[g + 5] - 1) :
                     Get(mem', w) = BLOCK_MAGIC
    <3>1. g \in U /\ g # h /\ g \in bs BY <1>9 DEF U, Users
    <3>2. g + 5 \in DOMAIN held' BY <2>1
    <3>3. held'[g + 5] = held[g + 5] BY <1>3, <3>2
    <3>4. /\ held[g + 5] \in Nat /\ held[g + 5] <= Sz(mem, g)
          /\ \A w \in (g + 5) .. (g + 5 + held[g + 5] - 1) :
                Get(mem, w) = BLOCK_MAGIC
          BY <1>1, <3>1 DEF Contents, U
    <3>5. g \in Nat /\ Sz(mem, g) \in Nat /\ End(mem, g) = g + 5 + Sz(mem, g)
          BY <1>1, <3>1, TiledFacts
    <3>6. ASSUME NEW w \in (g + 5) .. (g + 5 + held[g + 5] - 1)
          PROVE  Get(mem', w) = BLOCK_MAGIC
      <4>1. w \in (g + 5) .. (End(mem, g) - 1) BY <3>4, <3>5
      <4> QED BY <1>8, <3>1, <3>4, <4>1
    <3> QED BY <1>8, <3>1, <3>3, <3>4, <3>6
  <2> QED BY <2>1, <2>2 DEF Contents
<1>14. ASSUME NEW q \in past' PROVE q \in Int /\ Stale(mem', bs, q)
  <2>1. CASE q = p
    <3>1. q - 3 = used(h) BY <1>5, <2>1 DEF used
    <3>2. Get(mem', q - 3) = 0 /\ Us(mem', h) = 0 BY <1>5, <1>8, <3>1 DEF Us
    <3> QED BY <1>5, <2>1, <3>2 DEF Stale
  <2>2. CASE q \in past
    <3>1. PICK g \in bs : /\ Us(mem, g) = 0
                          /\ q = g + 5 \/ (g + 10 <= q /\ q <= End(mem, g))
          BY <1>1, <2>2 DEF Stale
    <3>2. /\ q \in Int /\ Get(mem, q - 3) = 0 /\ g \in Nat
          /\ End(mem, g) \in Nat /\ g # h
          BY <1>1, <1>5, <2>2, <3>1, TiledFacts DEF Stale
    <3>3. Us(mem', g) = 0 /\ End(mem', g) = End(mem, g) BY <1>8, <3>1, <3>2
    <3>4. Get(mem', q - 3) = 0
      <4>1. CASE q = g + 5
        <5>1. q - 3 = used(g) BY <3>2, <4>1 DEF used
        <5> QED BY <3>3, <5>1 DEF Us
      <4>2. CASE g + 10 <= q /\ q <= End(mem, g)
        <5>1. q - 3 \in (g + 5) .. (End(mem, g) - 1) BY <3>2, <4>2
        <5> QED BY <1>8, <3>2, <5>1
      <4> QED BY <3>1, <4>1, <4>2
    <3> QED BY <3>1, <3>2, <3>3, <3>4 DEF Stale
  <2> QED BY <1>3, <2>1, <2>2
<1>15. Callers(bs)' BY <1>13, <1>14 DEF Callers
<1>16. Cursors(bs)'
  <2>1. free_list \in Loose(bs) \cup {NULL} BY <1>1 DEF Chain
  <2>2. Us(mem', h) = 0 BY <1>5, <1>8
  <2> QED BY <1>3, <1>5, <1>10, <2>1, <2>2 DEF Cursors
<1>17. Inv(bs, r, stamp)'
       BY <1>1, <1>3, <1>8, <1>9, <1>10, <1>11, <1>12, <1>15, <1>16 DEF Inv
<1> QED BY <1>3, <1>4, <1>17


\* KMALLOC's split, if it does: the block keeps room for want words, those
\* in use are as they were, and only what was cut off may touch the block.
Carved(m, m1, bs, first, r, h) ==
    \E bs1, S1 : /\ Unused(m1, bs1, S1, first, r) /\ h \in S1
                 /\ want <= Sz(m1, h) /\ Keeps(m, bs, m1, bs1)
                 /\ \A g, i \in S1 \ {h} : End(m1, g) # i

\* KMALLOC's split, when there is room for a block, and nothing when not.
LEMMA Carving ==
    ASSUME NEW m \in Memory, m = mem, NEW bs, NEW S, NEW first,
           NEW r \in [Heap -> Int], Address(r), Unused(m, bs, S, first, r),
           NEW h \in S, want \in Nat, want + 5 <= Sz(m, h),
           \A g, i \in S : End(m, g) # i
    PROVE  Carved(m, SplitIfRoom(m, h), bs, first, r, h)
<1>1. /\ Tiled(m, bs) /\ S = bs \ Users(m, bs) /\ Chain(m, S, first, r)
      /\ S \in SUBSET bs
      BY DEF Unused
<1>2. \A g \in bs : /\ g \in Nat /\ End(m, g) \in Nat /\ g + 5 <= End(m, g)
                    /\ Sz(m, g) \in Nat /\ g # HEAP_SIZE
                    /\ (End(m, g) \in bs \/ End(m, g) = HEAP_SIZE)
  <2>1. Spread(bs) BY <1>1, TiledFacts
  <2>2. bs \subseteq Heap /\ HEAP_SIZE \notin Heap BY <2>1, Fields, Facts DEF Heap
  <2> QED BY <1>1, <2>2, TiledFacts
<1>3. CASE Remaining(h) >= MIN_SPLIT
  <2> DEFINE m1 == Split(m, h)
             new == h + 5 + want
             bs1 == bs \cup {new}
             S1 == S \cup {new}
  <2> HIDE DEF m1, new
  <2>1. SplitIfRoom(m, h) = m1 BY <1>3 DEF SplitIfRoom, m1
  <2>2. Cut(m, m1, bs, S, first, r, h, new) BY <1>1, Splitting DEF m1, new
  <2>3. /\ Framed(m, m1, bs1) /\ Tiled(m1, bs1) /\ Chain(m1, S1, first, r)
        /\ new \notin bs /\ Us(m1, new) = 0
        /\ Sz(m1, h) = want /\ End(m1, h) = new /\ End(m1, new) = End(m, h)
        /\ \A g \in bs : Us(m1, g) = Us(m, g)
        /\ \A g \in bs \ {h} : Sz(m1, g) = Sz(m, g) /\ End(m1, g) = End(m, g)
        /\ \A g \in bs \ S : Nx(m1, g) = Nx(m, g) /\ Pv(m1, g) = Pv(m, g)
        BY <2>2 DEF Cut
  <2>4. m1 \in Memory BY <2>3 DEF Framed
  <2>5. Users(m1, bs1) = Users(m, bs) BY <2>3 DEF Users
  <2>6. Unused(m1, bs1, S1, first, r)
    <3>1. S1 = bs1 \ Users(m1, bs1) BY <1>1, <2>3, <2>5 DEF Users
    <3> QED BY <2>3, <2>4, <3>1 DEF Unused
  <2>7. h \in S1 /\ want <= Sz(m1, h) BY <2>3
  <2>8. Keeps(m, bs, m1, bs1)
    <3>1. Framed(m1, m, bs1) BY <2>3 DEF Framed
    <3>2. ASSUME NEW g \in Users(m, bs)
          PROVE  /\ Sz(m1, g) = Sz(m, g) /\ End(m1, g) = End(m, g)
                 /\ Nx(m1, g) = Nx(m, g) /\ Pv(m1, g) = Pv(m, g)
                 /\ \A w \in (g + 5) .. (End(m, g) - 1) : Get(m1, w) = Get(m, w)
      <4>1. g \in bs /\ g \notin S /\ g # h /\ g \in bs1 BY <1>1 DEF Users
      <4>2. /\ Sz(m1, g) = Sz(m, g) /\ End(m1, g) = End(m, g)
            /\ Nx(m1, g) = Nx(m, g) /\ Pv(m1, g) = Pv(m, g)
            BY <2>3, <4>1
      <4>3. ASSUME NEW w \in (g + 5) .. (End(m, g) - 1)
            PROVE  Get(m1, w) = Get(m, w)
        <5>1. w \in Int /\ g + 5 <= w /\ w < End(m1, g) BY <1>2, <4>1, <4>2
        <5>2. Get(m, w) = Get(m1, w)
              BY <2>3, <3>1, <4>1, <5>1, DataFramed
        <5> QED BY <5>2
      <4> QED BY <4>2, <4>3
    <3> QED BY <2>5, <3>2 DEF Keeps
  <2>9. ASSUME NEW g \in S1 \ {h}, NEW i \in S1 \ {h}, End(m1, g) = i
        PROVE  FALSE
    <3>1. CASE g = new
      <4>1. CASE i = new
        <5>1. new \in bs1 OBVIOUS
        <5>2. new \in Nat /\ new + 5 <= End(m1, new) BY <2>3, <5>1, TiledFacts
        <5> QED BY <2>9, <3>1, <4>1, <5>2
      <4>2. CASE i \in S BY <2>3, <2>9, <3>1, <4>2
      <4> QED BY <4>1, <4>2
    <3>2. CASE g # new
      <4>1. g \in S /\ g \in bs /\ End(m1, g) = End(m, g) BY <1>1, <2>3, <3>2
      <4>2. CASE i = new
        <5>1. new \notin bs /\ new # HEAP_SIZE
          <6>1. new \in bs1 OBVIOUS
          <6>2. Spread(bs1) BY <2>3, TiledFacts
          <6>3. new \in Heap BY <6>1, <6>2, Fields
          <6> QED BY <2>3, <6>3, Facts DEF Heap
        <5> QED BY <1>2, <2>9, <4>1, <4>2, <5>1
      <4>3. CASE i \in S BY <2>9, <4>1, <4>3
      <4> QED BY <4>2, <4>3
    <3> QED BY <3>1, <3>2
  <2> QED BY <2>1, <2>6, <2>7, <2>8, <2>9 DEF Carved
<1>4. CASE ~(Remaining(h) >= MIN_SPLIT)
  <2>1. SplitIfRoom(m, h) = m BY <1>4 DEF SplitIfRoom
  <2>2. Keeps(m, bs, m, bs) BY DEF Keeps
  <2>3. want <= Sz(m, h) BY <1>1, <1>2
  <2> QED BY <2>1, <2>2, <2>3 DEF Carved
<1> QED BY <1>3, <1>4


\* The rest of KMALLOC keeps the invariant.
LEMMA Taking ==
    ASSUME NEW bs, NEW r, NEW stamp, Inv(bs, r, stamp), Take
    PROVE  (\E bs1, stamp1 : Inv(bs1, r, stamp1)') /\ pc' = "idle"
<1> DEFINE S == Loose(bs)
           U == Users(mem, bs)
           m1 == SplitIfRoom(mem, cur)
           m2 == Put(m1, used(cur), 1)
<1>1. /\ pc = "take" /\ pc' = "idle"
      /\ mem' = Filled(PushUsed(Unlink(m2, cur), cur), cur + BLOCK_SIZE, want,
                       BLOCK_MAGIC)
      /\ free_list' = HeadAfter(m2, cur, free_list)
      /\ used_list' = cur
      /\ held' = [q \in DOMAIN held \cup {cur + BLOCK_SIZE} |->
                     IF q = cur + BLOCK_SIZE THEN want ELSE held[q]]
      /\ past' = {}
      BY DEF Take
<1> HIDE DEF m1, m2
<1>2. /\ mem \in Memory /\ Tiled(mem, bs) /\ r \in [Heap -> Int] /\ Address(r)
      /\ Chain(mem, S, free_list, r)
      /\ \A g, i \in S : End(mem, g) # i
      /\ stamp \in [Heap -> Int] /\ Chain(mem, U, used_list, stamp)
      /\ Contents(mem, bs, held)
      BY DEF Inv, Callers
<1>3. cur \in S /\ want \in Nat /\ want + 5 <= Sz(mem, cur)
      BY <1>1 DEF Inv, Cursors
<1>4. S = bs \ U BY <1>1 DEF Loose, Users
<1>5. Unused(mem, bs, S, free_list, r) BY <1>2, <1>4 DEF Unused
<1> HIDE DEF S, U
<1>6. Carved(mem, m1, bs, free_list, r, cur)
  <2>1. ASSUME NEW m \in Memory, m = mem, NEW first, first = free_list,
               NEW h \in S, h = cur
        PROVE  Carved(m, SplitIfRoom(m, h), bs, first, r, h)
    <3>1. /\ Unused(m, bs, S, first, r) /\ want + 5 <= Sz(m, h)
          /\ \A g, i \in S : End(m, g) # i
          BY <1>2, <1>3, <1>5, <2>1
    <3> QED BY <1>2, <1>3, <2>1, <3>1, Carving
  <2> QED BY <1>2, <1>3, <2>1 DEF m1
<1>7. PICK bs1, S1 : /\ Unused(m1, bs1, S1, free_list, r) /\ cur \in S1
                     /\ want <= Sz(m1, cur) /\ Keeps(mem, bs, m1, bs1)
                     /\ \A g, i \in S1 \ {cur} : End(m1, g) # i
      BY <1>6 DEF Carved
<1>8. /\ m1 \in Memory /\ Tiled(m1, bs1) /\ S1 = bs1 \ Users(m1, bs1)
      /\ Chain(m1, S1, free_list, r) /\ Users(m1, bs1) = U
      BY <1>7 DEF Unused, Keeps, U
<1>9. Chain(m1, U, used_list, stamp)
  <2>1. \A g \in U : /\ Nx(m1, g) = Nx(mem, g) /\ Pv(m1, g) = Pv(mem, g)
                     /\ stamp[g] = stamp[g]
        BY <1>7 DEF Keeps, U
  <2> QED BY <1>2, <2>1, ChainFrame
<1>10. Bound(m1, mem', bs1, S1, U, free_list', r, cur, want)
  <2>1. ASSUME NEW m \in Memory, m = m1, NEW first, first = free_list,
               NEW h \in S1, h = cur, NEW first2, first2 = used_list,
               NEW n \in Nat, n = want
        PROVE  Bound(m, Granted(m, h, n), bs1, S1, U,
                     HeadAfter(Put(m, used(h), 1), h, first), r, h, n)
    <3>1. /\ Tiled(m, bs1) /\ S1 \in SUBSET bs1 /\ U \in SUBSET bs1
          /\ S1 \cap U = {}
          BY <1>8, <2>1 DEF Users
    <3>2. /\ Chain(m, S1, first, r) /\ Chain(m, U, first2, stamp)
          /\ n <= Sz(m, h)
          BY <1>7, <1>8, <1>9, <2>1
    <3> QED BY <1>2, <2>1, <3>1, <3>2, Granting
  <2>2. Bound(m1, Granted(m1, cur, want), bs1, S1, U,
              HeadAfter(Put(m1, used(cur), 1), cur, free_list), r, cur, want)
        BY <1>3, <1>7, <1>8, <2>1
  <2>3. mem' = Granted(m1, cur, want) BY <1>1, Facts DEF Granted, m2
  <2> QED BY <1>1, <2>2, <2>3 DEF m2
<1>11. /\ mem' \in Memory /\ Tiled(mem', bs1)
       /\ Chain(mem', S1 \ {cur}, free_list', r)
       /\ \A g \in bs1 : /\ Sz(mem', g) = Sz(m1, g)
                         /\ End(mem', g) = End(m1, g)
                         /\ Us(mem', g) = IF g = cur THEN 1 ELSE Us(m1, g)
       /\ \A w \in (cur + 5) .. (cur + 5 + want - 1) : Get(mem', w) = BLOCK_MAGIC
       /\ \A g \in bs1 \ {cur} : \A w \in (g + 5) .. (End(m1, g) - 1) :
             Get(mem', w) = Get(m1, w)
       BY <1>10 DEF Bound
<1>12. PICK stamp1 \in [Heap -> Int] : Chain(mem', U \cup {cur}, cur, stamp1)
       BY <1>10 DEF Bound
<1>13. cur \in bs1 /\ cur \notin U /\ cur \in Int /\ bs1 \subseteq Int
  <2>1. Spread(bs1) BY <1>8, TiledFacts
  <2>2. bs1 \subseteq Int BY <2>1, Fields
  <2> QED BY <1>7, <1>8, <2>2
<1>14. Users(mem', bs1) = U \cup {cur}
  <2>1. \A g \in bs1 : Us(mem', g) # 0 <=> g = cur \/ Us(m1, g) # 0 BY <1>11
  <2> QED BY <1>8, <1>13, <2>1 DEF Users
<1>15. Loose(bs1)' = S1 \ {cur}
  <2>1. Loose(bs1)' = bs1 \ Users(mem', bs1) BY <1>1 DEF Loose, Users
  <2> QED BY <1>8, <1>14, <2>1
<1>16. Contents(mem', bs1, held')
  <2>1. Contents(m1, bs1, held) BY <1>2, <1>7, KeptContents
  <2>2. DOMAIN held = {g + 5 : g \in U} BY <1>8, <2>1 DEF Contents
  <2>3. DOMAIN held' = {g + 5 : g \in U \cup {cur}}
    <3>1. DOMAIN held' = DOMAIN held \cup {cur + 5} BY <1>1, Facts
    <3> QED BY <2>2, <3>1
  <2>4. held'[cur + 5] = want BY <1>1, Facts
  <2>5. ASSUME NEW g \in U
        PROVE  held'[g + 5] = held[g + 5]
    <3>1. g \in Int /\ g # cur BY <1>8, <1>13 DEF Users
    <3>2. g + 5 # cur + 5 BY <1>13, <3>1
    <3>3. g + 5 \in DOMAIN held BY <2>2
    <3> QED BY <1>1, <3>2, <3>3, Facts
  <2>6. ASSUME NEW g \in U \cup {cur}
        PROVE  /\ held'[g + 5] \in Nat /\ held'[g + 5] <= Sz(mem', g)
               /\ \A w \in (g + 5) .. (g + 5 + held'[g + 5] - 1) :
                     Get(mem', w) = BLOCK_MAGIC
    <3>1. CASE g = cur
      <4>1. want <= Sz(mem', cur) BY <1>7, <1>11, <1>13
      <4> QED BY <1>3, <1>11, <2>4, <3>1, <4>1
    <3>2. CASE g # cur
      <4>1. g \in U /\ g \in bs1 BY <1>8, <3>2 DEF Users
      <4>2. held'[g + 5] = held[g + 5] BY <2>5, <4>1
      <4>3. /\ held[g + 5] \in Nat /\ held[g + 5] <= Sz(m1, g)
            /\ \A w \in (g + 5) .. (g + 5 + held[g + 5] - 1) :
                  Get(m1, w) = BLOCK_MAGIC
            BY <1>8, <2>1, <4>1 DEF Contents
      <4>4. g \in Nat /\ Sz(m1, g) \in Nat /\ End(m1, g) = g + 5 + Sz(m1, g)
            BY <1>8, <4>1, TiledFacts
      <4>5. ASSUME NEW w \in (g + 5) .. (g + 5 + held[g + 5] - 1)
            PROVE  Get(mem', w) = BLOCK_MAGIC
        <5>1. w \in (g + 5) .. (End(m1, g) - 1) BY <4>3, <4>4
        <5> QED BY <1>11, <3>2, <4>1, <4>3, <5>1
      <4> QED BY <1>11, <4>1, <4>2, <4>3, <4>5
    <3> QED BY <3>1, <3>2
  <2> QED BY <1>14, <2>3, <2>6 DEF Contents
<1>17. Callers(bs1)' BY <1>1, <1>16 DEF Callers
<1>18. Cursors(bs1)' BY <1>1 DEF Cursors
<1>19. \A g, i \in Loose(bs1)' : End(mem', g) # i
  <2>1. S1 \subseteq bs1 BY <1>8
  <2> QED BY <1>7, <1>11, <1>15, <2>1
<1>20. Chain(mem', Users(mem', bs1), used_list', stamp1)
       BY <1>1, <1>12, <1>14
<1>21. Inv(bs1, r, stamp1)'
       BY <1>2, <1>11, <1>12, <1>15, <1>17, <1>18, <1>19, <1>20 DEF Inv
<1> QED BY <1>1, <1>21

-----------------------------------------------------------------------------
(***************************************************************************)
(* Walking the heap and following a list.                                  *)
(***************************************************************************)
LEMMA Least ==
    ASSUME NEW bad \in SUBSET Nat, bad # {}
    PROVE  \E n \in bad : \A k \in bad : n <= k
<1>1. \E x \in bad : \A y \in bad : ~(<<y, x>> \in OpToRel(<, Nat))
      BY NatLessThanWellFounded, WFMin
<1>2. \A x, y \in Nat : <<y, x>> \in OpToRel(<, Nat) <=> y < x
      BY DEF OpToRel
<1>3. PICK x \in bad : \A y \in bad : ~(y < x) BY <1>1, <1>2, Zenon
<1>4. \A y \in bad : x <= y BY <1>3
<1> QED BY <1>4

Iterated(T, step, a, n) ==
    \E f \in [0 .. n -> T] :
       \A i \in 0 .. n : f[i] = IF i = 0 THEN a ELSE step[f[i - 1]]

\* A function can be applied again and again.
LEMMA Iterate ==
    ASSUME NEW T, NEW step \in [T -> T], NEW a \in T, NEW N \in Nat
    PROVE  Iterated(T, step, a, N)
<1> DEFINE Goes(n, f) == \A i \in 0 .. n : f[i] = IF i = 0 THEN a ELSE step[f[i - 1]]
           Bad == {n \in Nat : ~\E f \in [0 .. n -> T] : Goes(n, f)}
<1>1. SUFFICES ASSUME Bad # {} PROVE FALSE BY DEF Iterated
<1>2. Bad \in SUBSET Nat OBVIOUS
<1>4. PICK n \in Bad : \A y \in Bad : n <= y
  <2> HIDE DEF Bad
  <2> QED BY <1>1, <1>2, Least
<1>5. n \in Nat /\ ~\E f \in [0 .. n -> T] : Goes(n, f) OBVIOUS
<1>6. n # 0
  <2> SUFFICES ASSUME n = 0 PROVE FALSE OBVIOUS
  <2> DEFINE f == [i \in 0 .. n |-> a]
  <2>1. f \in [0 .. n -> T] OBVIOUS
  <2>2. \A i \in 0 .. n : i = 0 OBVIOUS
  <2>3. Goes(n, f) BY <2>2
  <2> QED BY <1>5, <2>1, <2>3
<1>7. n - 1 \in Nat /\ n - 1 < n BY <1>5, <1>6
<1>8. PICK f \in [0 .. (n - 1) -> T] : Goes(n - 1, f)
  <2>1. n - 1 \notin Bad BY <1>4, <1>7
  <2> QED BY <1>7, <2>1
<1> DEFINE g == [i \in 0 .. n |-> IF i < n THEN f[i] ELSE step[f[n - 1]]]
<1>9. n - 1 \in 0 .. (n - 1) BY <1>7
<1>10. \A i \in 0 .. n : i < n => i \in 0 .. (n - 1) BY <1>5
<1>11. g \in [0 .. n -> T] BY <1>9, <1>10
<1>12. Goes(n, g)
  <2> SUFFICES ASSUME NEW i \in 0 .. n
               PROVE  g[i] = IF i = 0 THEN a ELSE step[g[i - 1]]
      OBVIOUS
  <2>1. CASE i < n
    <3>1. i \in 0 .. (n - 1) /\ g[i] = f[i] BY <1>10, <2>1
    <3>2. CASE i = 0 BY <1>8, <3>1, <3>2
    <3>3. CASE i # 0
      <4>1. i - 1 \in 0 .. n /\ i - 1 < n BY <1>5, <2>1, <3>3
      <4>2. g[i - 1] = f[i - 1] BY <4>1
      <4> QED BY <1>8, <3>1, <3>3, <4>2
    <3> QED BY <3>2, <3>3
  <2>2. CASE ~(i < n)
    <3>1. i = n /\ i # 0 BY <1>5, <1>6, <2>2
    <3>2. n - 1 \in 0 .. n /\ n - 1 < n BY <1>7
    <3>3. g[n - 1] = f[n - 1] BY <3>2
    <3>4. g[i] = step[f[n - 1]] BY <2>2
    <3> QED BY <3>1, <3>3, <3>4
  <2> QED BY <2>1, <2>2
<1> QED BY <1>5, <1>11, <1>12

Steps == 0 .. (HEAP_SIZE \div BLOCK_SIZE)

\* As many steps as headers fit.
LEMMA LastStep == HEAP_SIZE \div BLOCK_SIZE \in Nat
BY LegacyHeapAssumption DEF BLOCK_SIZE

\* Steps count from 0.
LEMMA StepsFacts ==
    /\ Steps \subseteq Nat /\ 0 \in Steps
    /\ \A i \in Steps : i # 0 => i - 1 \in Steps
BY LastStep DEF Steps

\* The headers of a list as Linked counts them.
After(h) == IF h = NULL THEN NULL ELSE Get(mem, next(h))

Path(first) ==
    LET at[i \in 0 .. HEAP_SIZE \div BLOCK_SIZE] ==
            IF i = 0 THEN first ELSE After(at[i - 1])
    IN  at

LEMMA LinkedIs == \A first : Linked(first) = {Path(first)[i] : i \in DOMAIN Path(first)} \ {NULL}
BY DEF Linked, Path, After

\* Path follows a list from its first header.
LEMMA PathIs ==
    ASSUME mem \in Memory, NEW first \in Int
    PROVE  /\ Path(first) \in [Steps -> Int]
           /\ \A i \in Steps : Path(first)[i] = IF i = 0 THEN first
                                            ELSE After(Path(first)[i - 1])
<1> DEFINE step == [h \in Int |-> After(h)]
           N == HEAP_SIZE \div BLOCK_SIZE
<1>1. step \in [Int -> Int]
  <2>1. \A h \in Int : After(h) \in Int BY GetType, Facts DEF After, next
  <2> QED BY <2>1
<1>2. PICK f \in [Steps -> Int] :
         \A i \in Steps : f[i] = IF i = 0 THEN first ELSE step[f[i - 1]]
  <2>1. N \in Nat BY LastStep
  <2> HIDE DEF step, N
  <2>2. Iterated(Int, step, first, N) BY <1>1, <2>1, Iterate
  <2>3. Steps = 0 .. N BY DEF Steps, N
  <2> QED BY <2>2, <2>3 DEF Iterated
<1> DEFINE P(g) == g = [i \in 0 .. N |-> IF i = 0 THEN first
                                             ELSE After(g[i - 1])]
<1>3. P(f)
  <2>1. f = [i \in Steps |-> f[i]] OBVIOUS
  <2>2. \A i \in Steps : f[i] = IF i = 0 THEN first ELSE After(f[i - 1])
        BY <1>2, StepsFacts
  <2> QED BY <2>1, <2>2 DEF Steps
<1>4. Path(first) = CHOOSE g : P(g) BY DEF Path
<1>5. P(Path(first))
  <2> HIDE DEF P
  <2> QED BY <1>3, <1>4
<1>6. Path(first) = [i \in Steps |-> IF i = 0 THEN first
                                     ELSE After(Path(first)[i - 1])]
      BY <1>5 DEF Steps
<1>7. \A i \in Steps : Path(first)[i] = IF i = 0 THEN first
                                    ELSE After(Path(first)[i - 1])
  <2> DEFINE q == Path(first)
  <2> HIDE DEF q
  <2>1. q = [i \in Steps |-> IF i = 0 THEN first ELSE After(q[i - 1])]
        BY <1>6 DEF q
  <2>2. \A i \in Steps : q[i] = IF i = 0 THEN first ELSE After(q[i - 1])
        BY <2>1
  <2> QED BY <2>2 DEF q
<1>8. Path(first) = [i \in Steps |-> Path(first)[i]]
  <2> DEFINE q == Path(first)
  <2> HIDE DEF q
  <2>1. q = [i \in Steps |-> IF i = 0 THEN first ELSE After(q[i - 1])]
        BY <1>6 DEF q
  <2>2. q = [i \in Steps |-> q[i]] BY <2>1
  <2> QED BY <2>2 DEF q
<1> DEFINE Bad == {i \in Steps : Path(first)[i] \notin Int}
<1>9. Bad = {}
  <2> SUFFICES ASSUME Bad # {} PROVE FALSE OBVIOUS
  <2>1. Bad \in SUBSET Nat BY StepsFacts
  <2>2. PICK i \in Bad : \A k \in Bad : i <= k
    <3> HIDE DEF Bad
    <3> QED BY <2>1, Least
  <2>3. i \in Steps /\ Path(first)[i] \notin Int /\ i \in Nat BY <2>1
  <2>4. i # 0 BY <1>7, <2>3
  <2>5. i - 1 \in Steps /\ ~(i <= i - 1) BY <2>3, <2>4, StepsFacts
  <2>6. Path(first)[i - 1] \in Int BY <2>2, <2>5
  <2>7. Path(first)[i] = After(Path(first)[i - 1]) BY <1>7, <2>3, <2>4
  <2> QED BY <1>1, <2>3, <2>6, <2>7
<1> QED
  <2>1. \A i \in Steps : Path(first)[i] \in Int BY <1>9
  <2> QED BY <1>7, <1>8, <2>1

\* Walk goes from block to block from the first word on.
LEMMA WalkIs ==
    ASSUME mem \in Memory
    PROVE  /\ Walk \in [Steps -> Int]
           /\ \A i \in Steps : Walk[i] = IF i = 0 THEN 0
                                     ELSE Behind(Walk[i - 1])
<1> DEFINE step == [h \in Int |-> Behind(h)]
           N == HEAP_SIZE \div BLOCK_SIZE
<1>1. step \in [Int -> Int]
  <2>1. \A h \in Int : Behind(h) \in Int
        BY GetType, Facts DEF Behind, End, size
  <2> QED BY <2>1
<1>2. PICK f \in [Steps -> Int] :
         \A i \in Steps : f[i] = IF i = 0 THEN 0 ELSE step[f[i - 1]]
  <2>1. N \in Nat BY LastStep
  <2> HIDE DEF step, N
  <2>2. Iterated(Int, step, 0, N) BY <1>1, <2>1, Iterate
  <2>3. Steps = 0 .. N BY DEF Steps, N
  <2> QED BY <2>2, <2>3 DEF Iterated
<1> DEFINE P(g) == g = [i \in 0 .. N |-> IF i = 0 THEN 0 ELSE Behind(g[i - 1])]
<1>3. P(f)
  <2>1. f = [i \in Steps |-> f[i]] OBVIOUS
  <2>2. \A i \in Steps : f[i] = IF i = 0 THEN 0 ELSE Behind(f[i - 1])
        BY <1>2, StepsFacts
  <2> QED BY <2>1, <2>2 DEF Steps
<1>4. Walk = CHOOSE g : P(g) BY DEF Walk
<1>5. P(Walk)
  <2> HIDE DEF P
  <2> QED BY <1>3, <1>4
<1>6. Walk = [i \in Steps |-> IF i = 0 THEN 0 ELSE Behind(Walk[i - 1])]
      BY <1>5 DEF Steps
<1>7. \A i \in Steps : Walk[i] = IF i = 0 THEN 0 ELSE Behind(Walk[i - 1])
  <2> DEFINE q == Walk
  <2> HIDE DEF q
  <2>1. q = [i \in Steps |-> IF i = 0 THEN 0 ELSE Behind(q[i - 1])]
        BY <1>6 DEF q
  <2>2. \A i \in Steps : q[i] = IF i = 0 THEN 0 ELSE Behind(q[i - 1])
        BY <2>1
  <2> QED BY <2>2 DEF q
<1>8. Walk = [i \in Steps |-> Walk[i]]
  <2> DEFINE q == Walk
  <2> HIDE DEF q
  <2>1. q = [i \in Steps |-> IF i = 0 THEN 0 ELSE Behind(q[i - 1])]
        BY <1>6 DEF q
  <2>2. q = [i \in Steps |-> q[i]] BY <2>1
  <2> QED BY <2>2 DEF q
<1> DEFINE Bad == {i \in Steps : Walk[i] \notin Int}
<1>9. Bad = {}
  <2> SUFFICES ASSUME Bad # {} PROVE FALSE OBVIOUS
  <2>1. Bad \in SUBSET Nat BY StepsFacts
  <2>2. PICK i \in Bad : \A k \in Bad : i <= k
    <3> HIDE DEF Bad
    <3> QED BY <2>1, Least
  <2>3. i \in Steps /\ Walk[i] \notin Int /\ i \in Nat BY <2>1
  <2>4. i # 0 BY <1>7, <2>3
  <2>5. i - 1 \in Steps /\ ~(i <= i - 1) BY <2>3, <2>4, StepsFacts
  <2>6. Walk[i - 1] \in Int BY <2>2, <2>5
  <2>7. Walk[i] = Behind(Walk[i - 1]) BY <1>7, <2>3, <2>4
  <2> QED BY <1>1, <2>3, <2>6, <2>7
<1> QED
  <2>1. \A i \in Steps : Walk[i] \in Int BY <1>9
  <2> QED BY <1>7, <1>8, <2>1

\* The walk meets the blocks, all of them, and ends at the end of the heap.
LEMMA Walking ==
    ASSUME NEW bs, mem \in Memory, Tiled(mem, bs)
    PROVE  Blocks = bs /\ \E i \in DOMAIN Walk : Walk[i] = HEAP_SIZE
<1> DEFINE N == HEAP_SIZE \div BLOCK_SIZE
<1>1. /\ DOMAIN Walk = Steps
      /\ \A i \in Steps : Walk[i] \in Int
      /\ \A i \in Steps : Walk[i] = IF i = 0 THEN 0 ELSE Behind(Walk[i - 1])
      BY WalkIs
<1>2. /\ \A h \in bs : /\ h \in Nat /\ h + 5 <= HEAP_SIZE
                       /\ End(mem, h) \in bs \cup {HEAP_SIZE}
                       /\ h + 5 <= End(mem, h) /\ End(mem, h) \in Nat
                       /\ h \in Heap /\ Behind(h) = End(mem, h)
      /\ 0 \in bs
  <2>1. \A h \in bs : /\ h \in Nat /\ Sz(mem, h) \in Nat
                      /\ End(mem, h) = h + 5 + Sz(mem, h)
                      /\ End(mem, h) \in Nat
                      /\ End(mem, h) <= HEAP_SIZE
                      /\ End(mem, h) \in bs \/ End(mem, h) = HEAP_SIZE
        BY TiledFacts
  <2>2. \A h \in bs : h + 5 <= HEAP_SIZE /\ h + 5 <= End(mem, h)
        BY <2>1, Facts
  <2>3. bs \subseteq Heap /\ 0 \in bs BY DEF Tiled
  <2>4. \A h \in bs : Behind(h) = End(mem, h) BY <2>3 DEF Behind
  <2> QED BY <2>1, <2>2, <2>3, <2>4
<1>3. HEAP_SIZE \notin Heap /\ Behind(HEAP_SIZE) = HEAP_SIZE
      /\ HEAP_SIZE \notin bs /\ HEAP_SIZE \in Nat
  <2>1. HEAP_SIZE \notin Heap BY Facts DEF Heap
  <2> QED BY <1>2, <2>1, Facts DEF Behind
<1>4. \A i \in Steps : \/ Walk[i] = HEAP_SIZE
                       \/ Walk[i] \in bs /\ 5 * i <= Walk[i]
  <2> DEFINE Good(i) == \/ Walk[i] = HEAP_SIZE
                        \/ Walk[i] \in bs /\ 5 * i <= Walk[i]
             Bad == {i \in Steps : ~Good(i)}
  <2> SUFFICES ASSUME Bad # {} PROVE FALSE OBVIOUS
  <2>1. Bad \in SUBSET Nat BY StepsFacts
  <2>2. PICK i \in Bad : \A k \in Bad : i <= k
    <3> HIDE DEF Bad
    <3> QED BY <2>1, Least
  <2>3. i \in Steps /\ ~Good(i) /\ i \in Nat BY <2>1
  <2>4. i # 0
    <3>1. Walk[0] = 0 /\ 5 * 0 <= 0 BY <1>1, StepsFacts
    <3> QED BY <1>2, <2>3, <3>1
  <2>5. i - 1 \in Steps /\ ~(i <= i - 1) BY <2>3, <2>4, StepsFacts
  <2>6. Good(i - 1)
    <3>1. i - 1 \notin Bad BY <2>2, <2>5
    <3> QED BY <2>5, <3>1
  <2>7. Walk[i] = Behind(Walk[i - 1]) BY <1>1, <2>3, <2>4
  <2>8. CASE Walk[i - 1] = HEAP_SIZE BY <1>3, <2>3, <2>7, <2>8
  <2>9. CASE Walk[i - 1] \in bs /\ 5 * (i - 1) <= Walk[i - 1]
    <3>1. /\ Walk[i - 1] \in Nat /\ Walk[i - 1] + 5 <= Walk[i]
          /\ Walk[i] \in bs \cup {HEAP_SIZE} /\ Walk[i] \in Nat
          BY <1>2, <2>7, <2>9
    <3>2. 5 * i <= Walk[i] BY <2>3, <2>9, <3>1
    <3> QED BY <2>3, <3>1, <3>2
  <2> QED BY <2>6, <2>8, <2>9
<1>5. N \in Steps /\ HEAP_SIZE < 5 * N + 5
  <2>1. BLOCK_SIZE = 5 /\ HEAP_SIZE \in Nat BY Facts
  <2> QED BY <2>1, LastStep DEF Steps
<1>6. Walk[N] = HEAP_SIZE
  <2>1. N \in Nat BY LastStep
  <2> HIDE DEF N
  <2>2. CASE Walk[N] \in bs /\ 5 * N <= Walk[N]
    <3>1. Walk[N] \in Nat /\ Walk[N] + 5 <= HEAP_SIZE BY <1>2, <2>2
    <3> QED BY <1>3, <1>5, <2>1, <2>2, <3>1
  <2> QED BY <1>4, <1>5, <2>2
<1>7. \A h \in bs : \E i \in Steps : Walk[i] = h
  <2> DEFINE Bad == {h \in bs : ~\E i \in Steps : Walk[i] = h}
  <2> SUFFICES ASSUME Bad # {} PROVE FALSE OBVIOUS
  <2>1. Bad \in SUBSET Nat BY <1>2
  <2>2. PICK h \in Bad : \A k \in Bad : h <= k
    <3> HIDE DEF Bad
    <3> QED BY <2>1, Least
  <2>3. h \in bs /\ ~\E i \in Steps : Walk[i] = h OBVIOUS
  <2>4. h # 0 BY <1>1, <2>3, StepsFacts
  <2>5. PICK g \in bs : End(mem, g) = h BY <2>3, <2>4 DEF Tiled
  <2>6. g \in Nat /\ h \in Nat /\ ~(h <= g) BY <1>2, <2>3, <2>5
  <2>7. PICK i \in Steps : Walk[i] = g BY <2>2, <2>6
  <2>8. i # N BY <1>3, <1>6, <2>7
  <2>9. i + 1 \in Steps /\ i + 1 # 0 /\ (i + 1) - 1 = i
    <3>1. N \in Nat BY LastStep
    <3>2. Steps = 0 .. N BY DEF Steps
    <3> HIDE DEF N
    <3> QED BY <2>8, <3>1, <3>2
  <2>10. Walk[i + 1] = h BY <1>1, <1>2, <2>5, <2>7, <2>9
  <2> QED BY <2>3, <2>9, <2>10
<1>8. Blocks = bs
  <2>1. \A i \in Steps : Walk[i] \in bs \/ Walk[i] \notin Heap BY <1>3, <1>4
  <2>2. bs \subseteq Heap BY <1>2
  <2>3. Blocks = {Walk[i] : i \in Steps} \cap Heap BY <1>1 DEF Blocks
  <2> QED BY <1>7, <2>1, <2>2, <2>3
<1> QED BY <1>1, <1>5, <1>6, <1>8

\* h is one of the first i headers of a list, or it comes behind them.
Met(at, S, r, i, h) == \/ \E j \in Steps : j < i /\ at[j] = h
                       \/ at[i] \in S /\ r[h] <= r[at[i]]

\* A list is its links from the first on, and no longer than the heap has
\* room for headers.
LEMMA ListIs ==
    ASSUME NEW bs, NEW S \in SUBSET bs, NEW first, NEW r \in [Heap -> Int],
           mem \in Memory, Spread(bs), Chain(mem, S, first, r)
    PROVE  Linked(first) = S
<1> DEFINE N == HEAP_SIZE \div BLOCK_SIZE
           at == Path(first)
<1>1. \A h \in S : /\ h \in Nat /\ h + 5 <= HEAP_SIZE /\ h \in Heap
                   /\ h # NULL /\ r[h] \in Int /\ After(h) = Nx(mem, h)
  <2>1. \A h \in S : h \in Nat /\ h + 5 <= HEAP_SIZE BY Facts DEF Spread
  <2>2. \A h \in S : h \in Heap BY <2>1, Facts
  <2>3. \A h \in S : h # NULL /\ r[h] \in Int BY <2>2, Facts
  <2> QED BY <2>1, <2>2, <2>3 DEF After, Nx
<1>2. first \in Int BY <1>1, Facts DEF Chain
<1>3. /\ DOMAIN at = Steps
      /\ \A i \in Steps : at[i] = IF i = 0 THEN first ELSE After(at[i - 1])
      BY <1>2, PathIs
<1>4. Linked(first) = {at[i] : i \in Steps} \ {NULL} BY <1>3, LinkedIs
<1> HIDE DEF at
<1>5. N \in Nat /\ Steps = 0 .. N /\ HEAP_SIZE < 5 * N + 5
  <2>1. BLOCK_SIZE = 5 /\ HEAP_SIZE \in Nat BY Facts
  <2> QED BY <2>1, LastStep DEF Steps
<1> HIDE DEF N
<1>6. /\ first \in S \cup {NULL} /\ (first = NULL => S = {})
      /\ \A h \in S : r[h] <= r[first]
      /\ \A g, h \in S : r[g] = r[h] => g = h
      /\ \A h \in S : \/ Nx(mem, h) = NULL
                      \/ Nx(mem, h) \in S /\ r[Nx(mem, h)] < r[h]
      /\ \A g, h \in S :
            r[g] < r[h] => Nx(mem, h) # NULL /\ r[g] <= r[Nx(mem, h)]
      BY DEF Chain
<1>7. ASSUME NEW i \in Steps, i # 0
      PROVE  /\ i - 1 \in Steps /\ ~(i <= i - 1) /\ i \in Nat
             /\ at[i] = After(at[i - 1])
  <2>1. i \in Nat /\ i - 1 \in Steps BY <1>7, StepsFacts
  <2> QED BY <1>3, <1>7, <2>1
<1>8. After(NULL) = NULL BY DEF After
<1>9. \A i \in Steps : at[i] \in S \cup {NULL}
  <2> DEFINE Bad == {i \in Steps : at[i] \notin S \cup {NULL}}
  <2> SUFFICES ASSUME Bad # {} PROVE FALSE OBVIOUS
  <2>1. Bad \in SUBSET Nat BY StepsFacts
  <2>2. PICK i \in Bad : \A k \in Bad : i <= k
    <3> HIDE DEF Bad
    <3> QED BY <2>1, Least
  <2>3. i \in Steps /\ at[i] \notin S \cup {NULL} OBVIOUS
  <2>4. i # 0 BY <1>3, <1>6, <2>3
  <2>5. at[i - 1] \in S \cup {NULL} BY <1>7, <2>2, <2>3, <2>4
  <2> QED BY <1>1, <1>6, <1>7, <1>8, <2>3, <2>4, <2>5
\* Every header of the list is behind the i-th or before it.
<1>10. \A i \in Steps : \A h \in S : Met(at, S, r, i, h)
  <2> DEFINE Good(i) == \A h \in S : Met(at, S, r, i, h)
             Bad == {i \in Steps : ~Good(i)}
  <2> SUFFICES ASSUME Bad # {} PROVE FALSE BY DEF Met
  <2>1. Bad \in SUBSET Nat BY StepsFacts
  <2>2. PICK i \in Bad : \A k \in Bad : i <= k
    <3> HIDE DEF Bad
    <3> QED BY <2>1, Least
  <2>3. i \in Steps /\ ~Good(i) /\ i \in Nat BY <2>1
  <2>4. i # 0
    <3> SUFFICES ASSUME i = 0 PROVE FALSE OBVIOUS
    <3>1. at[i] = first BY <1>3, <2>3
    <3>2. \A h \in S : first \in S /\ r[h] <= r[first] BY <1>6
    <3>3. Good(i) BY <3>1, <3>2 DEF Met
    <3> QED BY <2>3, <3>3
  <2>5. i - 1 \in Steps /\ at[i] = After(at[i - 1]) /\ ~(i <= i - 1)
        BY <1>7, <2>3, <2>4
  <2>6. Good(i - 1)
    <3>1. i - 1 \notin Bad BY <2>2, <2>5
    <3> HIDE DEF Good
    <3> QED BY <2>5, <3>1
  <2>7. ASSUME NEW h \in S
        PROVE  Met(at, S, r, i, h)
    <3>1. CASE \E j \in Steps : j < i - 1 /\ at[j] = h
      <4>1. PICK j \in Steps : j < i - 1 /\ at[j] = h BY <3>1
      <4>2. j < i BY <2>3, <4>1, StepsFacts
      <4> QED BY <4>1, <4>2 DEF Met
    <3>2. CASE at[i - 1] \in S /\ r[h] <= r[at[i - 1]]
      <4>1. CASE at[i - 1] = h
        <5>1. i - 1 < i BY <2>3
        <5> QED BY <2>5, <4>1, <5>1 DEF Met
      <4>2. CASE at[i - 1] # h
        <5>1. r[h] < r[at[i - 1]]
          <6>1. r[h] # r[at[i - 1]] BY <1>6, <3>2, <4>2
          <6>2. r[h] \in Int /\ r[at[i - 1]] \in Int BY <1>1, <3>2
          <6> QED BY <3>2, <6>1, <6>2
        <5>2. at[i] = Nx(mem, at[i - 1]) BY <1>1, <2>5, <3>2
        <5> QED BY <1>6, <3>2, <5>1, <5>2 DEF Met
      <4> QED BY <4>1, <4>2
    <3> QED BY <2>6, <3>1, <3>2 DEF Met
  <2>8. Good(i) BY <2>7
  <2> HIDE DEF Good
  <2> QED BY <2>3, <2>8
\* The path falls in r: no header comes twice, and there is no room for it
\* to go on to its end.
<1>11. at[N] = NULL
  <2> SUFFICES ASSUME at[N] # NULL PROVE FALSE OBVIOUS
  <2>1. \A i \in Steps : at[i] \in S
    <3> DEFINE Bad == {k \in Nat : k <= N /\ at[N - k] = NULL}
    <3> SUFFICES ASSUME Bad # {} PROVE FALSE
      <4> SUFFICES ASSUME NEW i \in Steps, at[i] \notin S PROVE Bad # {}
          OBVIOUS
      <4>1. at[i] = NULL /\ N - i \in Nat /\ N - i <= N /\ N - (N - i) = i
            BY <1>5, <1>9
      <4> QED BY <4>1
    <3>1. Bad \in SUBSET Nat OBVIOUS
    <3>2. PICK k \in Bad : \A i \in Bad : k <= i
      <4> HIDE DEF Bad
      <4> QED BY <3>1, Least
    <3>3. k \in Nat /\ k <= N /\ at[N - k] = NULL OBVIOUS
    <3>4. k # 0
      <4>1. N - 0 = N BY <1>5
      <4> QED BY <3>3, <4>1
    <3>5. /\ N - (k - 1) \in Steps /\ N - (k - 1) # 0
          /\ (N - (k - 1)) - 1 = N - k /\ k - 1 \in Nat /\ k - 1 <= N
          /\ ~(k <= k - 1)
          BY <1>5, <3>3, <3>4
    <3>6. at[N - (k - 1)] = NULL BY <1>7, <1>8, <3>3, <3>5
    <3>7. k - 1 \in Bad BY <3>5, <3>6
    <3> QED BY <3>2, <3>5, <3>7
  <2>2. \A i \in Steps : i # 0 => r[at[i]] < r[at[i - 1]]
    <3> SUFFICES ASSUME NEW i \in Steps, i # 0
                 PROVE  r[at[i]] < r[at[i - 1]]
        OBVIOUS
    <3>1. i - 1 \in Steps /\ at[i] = After(at[i - 1]) BY <1>7
    <3>2. at[i] \in S /\ at[i - 1] \in S BY <2>1, <3>1
    <3>3. at[i] = Nx(mem, at[i - 1]) /\ at[i] # NULL BY <1>1, <3>1, <3>2
    <3> QED BY <1>6, <3>2, <3>3
  <2>3. \A i, j \in Steps : i < j => r[at[j]] < r[at[i]]
    <3> DEFINE Bad == {j \in Steps : \E i \in Steps : i < j /\ ~(r[at[j]] < r[at[i]])}
    <3> SUFFICES ASSUME Bad # {} PROVE FALSE OBVIOUS
    <3>1. Bad \in SUBSET Nat BY StepsFacts
    <3>2. PICK j \in Bad : \A k \in Bad : j <= k
      <4> HIDE DEF Bad
      <4> QED BY <3>1, Least
    <3>3. PICK i \in Steps : i < j /\ ~(r[at[j]] < r[at[i]]) OBVIOUS
    <3>4. i \in Nat /\ j \in Nat /\ j \in Steps BY <3>1, StepsFacts
    <3>5. j # 0 BY <3>3, <3>4
    <3>6. j - 1 \in Steps /\ ~(j <= j - 1) BY <1>7, <3>4, <3>5
    <3>7. r[at[j]] < r[at[j - 1]] BY <2>2, <3>4, <3>5
    <3>8. /\ r[at[j]] \in Int /\ r[at[j - 1]] \in Int /\ r[at[i]] \in Int
          BY <1>1, <2>1, <3>4, <3>6
    <3>9. i < j - 1
      <4>1. i # j - 1 BY <3>3, <3>7
      <4> QED BY <3>3, <3>4, <4>1
    <3>10. ~(r[at[j - 1]] < r[at[i]]) BY <3>3, <3>7, <3>8
    <3>11. j - 1 \in Bad BY <3>6, <3>9, <3>10
    <3> QED BY <3>2, <3>6, <3>11
  <2> DEFINE f == [i \in 0 .. N |-> at[i] \div 5]
  <2>4. f \in [0 .. N -> 0 .. (N - 1)]
    <3>1. \A h \in Nat : h + 5 <= HEAP_SIZE => h \div 5 \in 0 .. (N - 1)
          BY <1>5, Facts
    <3>2. \A i \in Steps : at[i] \div 5 \in 0 .. (N - 1)
          BY <1>1, <2>1, <3>1
    <3> QED BY <1>5, <3>2
  <2>5. /\ IsFiniteSet(0 .. N) /\ IsFiniteSet(0 .. (N - 1))
        /\ Cardinality(0 .. (N - 1)) < Cardinality(0 .. N)
    <3>1. /\ IsFiniteSet(0 .. N) /\ Cardinality(0 .. N) = N + 1
      <4>1. ~(0 > N) /\ N - 0 + 1 = N + 1 /\ 0 \in Int /\ N \in Int BY <1>5
      <4> QED BY <4>1, FS_Interval
    <3>2. /\ IsFiniteSet(0 .. (N - 1)) /\ Cardinality(0 .. (N - 1)) = N
      <4>1. /\ (0 > N - 1) => N = 0
            /\ (N - 1) - 0 + 1 = N /\ 0 \in Int /\ N - 1 \in Int
            BY <1>5
      <4> QED BY <4>1, FS_Interval
    <3> QED BY <1>5, <3>1, <3>2
  <2>6. PICK i, j \in 0 .. N : i # j /\ f[i] = f[j]
    <3> HIDE DEF f
    <3> QED BY <2>4, <2>5, FS_PigeonHole
  <2>7. at[i] \div 5 = at[j] \div 5 /\ at[i] \in S /\ at[j] \in S
        BY <1>5, <2>1, <2>6
  <2>8. at[i] # at[j]
    <3>1. i < j \/ j < i BY <1>5, <2>6
    <3>2. r[at[i]] \in Int BY <1>1, <2>7
    <3> QED BY <1>5, <2>3, <3>1, <3>2
  <2>9. /\ at[i] \in Nat /\ at[j] \in Nat
        /\ at[i] + 5 <= at[j] \/ at[j] + 5 <= at[i]
    <3>1. at[i] \in Nat /\ at[j] \in Nat BY <1>1, <2>7
    <3>2. at[i] < at[j] \/ at[j] < at[i] BY <2>8, <3>1
    <3> QED BY <2>7, <3>1, <3>2, Facts DEF Spread
  <2> QED BY <2>7, <2>9
<1>12. NULL \notin S BY <1>1
<1>13. N \in Steps BY <1>5
<1>14. \A h \in S : \E j \in Steps : at[j] = h BY <1>10, <1>11, <1>12, <1>13 DEF Met
<1> QED BY <1>4, <1>9, <1>12, <1>14

\* KMALLOC's rounding gives a number.
LEMMA RoundedNat ==
    ASSUME NEW n \in Nat
    PROVE  Rounded(n) \in Nat
<1>1. (n + ALIGN - 1) % WORD \in Nat BY LegacyHeapAssumption
<1>2. ((n + ALIGN - 1) % WORD) \div ALIGN \in Nat BY <1>1, LegacyHeapAssumption
<1> QED BY <1>2, LegacyHeapAssumption DEF Rounded

\* A careful caller: the first block that is large enough has room for a
\* header behind it.
LEMMA Requesting ==
    ASSUME Careful, NEW bs, NEW r, NEW stamp, Inv(bs, r, stamp),
           NEW n \in Requests, KMALLOC(n)
    PROVE  Inv(bs, r, stamp)' /\ pc' = "find"
<1>1. /\ mem' = mem /\ free_list' = free_list /\ used_list' = used_list
      /\ held' = held /\ past' = past /\ blk' = blk /\ pc = "idle"
      /\ pc' = "find" /\ cur' = free_list /\ want' = Rounded(n)
      /\ RoomForHeader(Rounded(n))
      BY DEF KMALLOC, lists
<1>2. Loose(bs)' = Loose(bs) BY <1>1 DEF Loose
<1>3. /\ mem \in Memory /\ Tiled(mem, bs) /\ r \in [Heap -> Int]
      /\ Chain(mem, Loose(bs), free_list, r)
      BY DEF Inv
<1>4. Linked(free_list) = Loose(bs)
  <2>1. Spread(bs) BY <1>3, TiledFacts
  <2>2. Loose(bs) \in SUBSET bs BY DEF Loose
  <2> QED BY <1>3, <2>1, <2>2, ListIs
<1>5. want' \in Nat
  <2>1. n \in Nat BY LegacyHeapAssumption
  <2> QED BY <1>1, <2>1, RoundedNat
<1>6. RoomAtFirst(bs)'
  <2>1. Rounded(n) + BLOCK_SIZE - 1 = Rounded(n) + 4 BY <1>1, <1>5, Facts
  <2>2. \A h \in Loose(bs) :
           Sz(mem, h) \in Rounded(n) .. (Rounded(n) + 4)
               => \E g \in Loose(bs) : g < h /\ Sz(mem, g) >= Rounded(n)
        BY <1>1, <1>4, <2>1 DEF RoomForHeader, Sz
  <2> QED BY <1>1, <1>2, <2>2 DEF RoomAtFirst
<1>7. cur' \in Loose(bs) \cup {NULL} BY <1>1, <1>3 DEF Chain
<1>8. Callers(bs)' BY <1>1 DEF Inv, Callers
\* No block of the list lies in front of its first.
<1>9. ASSUME cur' # NULL, NEW h \in Loose(bs) PROVE ~(h < cur')
  <2>1. free_list \in Loose(bs) /\ r[h] <= r[free_list]
        BY <1>1, <1>3, <1>9 DEF Chain
  <2>2. Loose(bs) \subseteq Heap /\ Address(r)
        BY DEF Inv, Tiled, Loose
  <2>3. h \in Heap /\ free_list \in Heap /\ h \in Nat /\ free_list \in Nat
        BY <2>1, <2>2, Facts
  <2> QED BY <1>1, <2>1, <2>2, <2>3 DEF Address
<1>10. Cursors(bs)' BY <1>1, <1>2, <1>5, <1>6, <1>7, <1>9 DEF Cursors
<1> QED BY <1>1, <1>2, <1>8, <1>10 DEF Inv

\* A stutter keeps the invariant.
LEMMA Staying ==
    ASSUME NEW bs, NEW r, NEW stamp, Inv(bs, r, stamp), UNCHANGED vars
    PROVE  Inv(bs, r, stamp)'
<1>1. /\ mem' = mem /\ free_list' = free_list /\ used_list' = used_list
      /\ held' = held /\ past' = past /\ blk' = blk /\ pc' = pc
      /\ cur' = cur /\ want' = want /\ prv' = prv
      BY DEF vars, lists
<1>2. Loose(bs)' = Loose(bs) BY <1>1 DEF Loose
<1>3. Callers(bs)' BY <1>1 DEF Inv, Callers
<1>4. Cursors(bs)'
  <2>1. Cursors(bs) BY DEF Inv
  <2> QED BY <1>1, <1>2, <2>1 DEF Cursors, RoomAtFirst
<1> QED BY <1>1, <1>2, <1>3, <1>4 DEF Inv

\* Every step keeps the invariant, if callers are careful.
LEMMA Invariance == ASSUME Careful PROVE IInv /\ [Next]_vars => IInv'
<1> SUFFICES ASSUME IInv, [Next]_vars PROVE IInv' OBVIOUS
<1>1. CASE HEAP_INIT BY <1>1, Booting
<1>2. CASE pc = "boot" /\ UNCHANGED vars
  <2>1. mem' = mem /\ held' = held /\ past' = past /\ pc' = pc
        BY <1>2 DEF vars
  <2> QED BY <1>2, <2>1 DEF IInv
<1>3. CASE ~HEAP_INIT /\ ~(pc = "boot" /\ UNCHANGED vars)
  <2>1. pc # "boot"
    <3>1. \/ \E n \in Requests : KMALLOC(n)
          \/ \E p \in DOMAIN held \cup past : KFREE(p)
          \/ Running \/ UNCHANGED vars
          BY <1>3 DEF Next
    <3>2. ASSUME NEW p, KFREE(p) PROVE pc = "idle" BY <3>2 DEF KFREE
    <3> QED BY <1>3, <3>1, <3>2 DEF KMALLOC, Running, FindNext, FindNone,
            FindFit, Take, InsertNext, InsertLink
  <2>2. PICK bs, r, stamp : Inv(bs, r, stamp) BY <2>1 DEF IInv
  <2>3. ASSUME NEW bs1, NEW stamp1, Inv(bs1, r, stamp1)',
               pc' \in {"idle", "find", "take", "insert"}
        PROVE  IInv'
        BY <2>3 DEF IInv
  <2>4. CASE \E n \in Requests : KMALLOC(n)
    <3>1. PICK n \in Requests : KMALLOC(n) BY <2>4
    <3>2. Inv(bs, r, stamp)' /\ pc' = "find" BY <2>2, <3>1, Requesting
    <3> QED BY <2>3, <3>2
  <2>5. CASE \E p \in DOMAIN held \cup past : KFREE(p)
    <3>1. PICK p \in DOMAIN held \cup past : KFREE(p) BY <2>5
    <3>2. pc = "idle" BY <3>1 DEF KFREE
    <3>3. Inv(bs, r, stamp)' /\ pc' = "insert" BY <2>2, <3>1, <3>2, Freeing
    <3> QED BY <2>3, <3>3
  <2>6. CASE FindNext \/ FindNone \/ FindFit
    <3>1. Inv(bs, r, stamp)' /\ pc' \in {"idle", "find", "take"}
          BY <2>2, <2>6, Following
    <3> QED BY <2>3, <3>1
  <2>7. CASE Take
    <3>1. (\E bs1, stamp1 : Inv(bs1, r, stamp1)') /\ pc' = "idle"
          BY <2>2, <2>7, Taking
    <3> QED BY <2>3, <3>1
  <2>8. CASE InsertNext
    <3>1. Inv(bs, r, stamp)' /\ pc' = "insert" BY <2>2, <2>8, Advancing
    <3> QED BY <2>3, <3>1
  <2>9. CASE InsertLink
    <3>1. (\E bs1 : Inv(bs1, r, stamp)') /\ pc' = "idle"
          BY <2>2, <2>9, Linking
    <3> QED BY <2>3, <3>1
  <2>10. CASE UNCHANGED vars
    <3>1. Inv(bs, r, stamp)' BY <2>2, <2>10, Staying
    <3>2. pc' = pc BY <2>10 DEF vars
    <3> QED BY <2>1, <2>3, <3>1, <3>2 DEF IInv
  <2> QED BY <1>3, <2>4, <2>5, <2>6, <2>7, <2>8, <2>9, <2>10 DEF Next, Running
<1> QED BY <1>1, <1>2, <1>3

-----------------------------------------------------------------------------
(***************************************************************************)
(* What the runs check.                                                    *)
(***************************************************************************)
LEMMA Invariant == ASSUME Careful PROVE Spec => []IInv
<1>1. Init => IInv BY Starting
<1>2. IInv /\ [Next]_vars => IInv' BY Invariance
<1> QED BY <1>1, <1>2, PTL DEF Spec

\* What the walk and the lists are, in a state of the invariant.
LEMMA Views ==
    ASSUME NEW bs, NEW r, NEW stamp, Inv(bs, r, stamp)
    PROVE  /\ Blocks = bs /\ InUse(bs) = Users(mem, bs)
           /\ Linked(free_list) = Loose(bs)
           /\ Linked(used_list) = Users(mem, bs)
           /\ pc # "insert" => Loose(bs) = bs \ Users(mem, bs)
<1>1. /\ mem \in Memory /\ Tiled(mem, bs) /\ r \in [Heap -> Int]
      /\ stamp \in [Heap -> Int]
      /\ Chain(mem, Loose(bs), free_list, r)
      /\ Chain(mem, Users(mem, bs), used_list, stamp)
      BY DEF Inv
<1>2. Spread(bs) BY <1>1, TiledFacts
<1>3. Loose(bs) \in SUBSET bs /\ Users(mem, bs) \in SUBSET bs
      BY DEF Loose, Users
<1>4. Linked(free_list) = Loose(bs) BY <1>1, <1>2, <1>3, ListIs
<1>5. Linked(used_list) = Users(mem, bs) BY <1>1, <1>2, <1>3, ListIs
<1>6. InUse(bs) = Users(mem, bs) BY DEF InUse, Users, Us
<1>7. pc # "insert" => Loose(bs) = bs \ Users(mem, bs) BY DEF Loose, Users
<1> QED BY <1>1, <1>4, <1>5, <1>6, <1>7, Walking

\* The blocks tile the heap; those in use are the callers', and large enough
\* (KMALLOC's split, HEAP.c:54-71, KFREE's merges, HEAP.c:125-137).
THEOREM TilingCorrect == ASSUME Careful PROVE Spec => []Tiling
<1>1. IInv => Tiling
  <2> SUFFICES ASSUME IInv, pc # "boot" PROVE Tiling BY DEF Tiling
  <2>1. PICK bs, r, stamp : Inv(bs, r, stamp) BY DEF IInv
  <2>2. Blocks = bs /\ InUse(bs) = Users(mem, bs) BY <2>1, Views
  <2>3. /\ mem \in Memory /\ Tiled(mem, bs) /\ Contents(mem, bs, held)
        BY <2>1 DEF Inv, Callers
  <2>4. \E i \in DOMAIN Walk : Walk[i] = HEAP_SIZE BY <2>3, Walking
  <2>5. \A h \in bs : Get(mem, magic(h)) = BLOCK_MAGIC BY <2>3 DEF Tiled
  <2>6. DOMAIN held = {h + BLOCK_SIZE : h \in InUse(bs)}
        BY <2>2, <2>3, Facts DEF Contents
  <2>7. ASSUME NEW p \in DOMAIN held
        PROVE  Get(mem, size(p - BLOCK_SIZE)) >= held[p]
    <3>1. PICK h \in Users(mem, bs) : p = h + 5 BY <2>3 DEF Contents
    <3>2. h \in Nat /\ Sz(mem, h) \in Nat BY <2>3, <3>1, TiledFacts DEF Users
    <3>3. p - BLOCK_SIZE = h BY <3>1, <3>2, Facts
    <3>4. held[p] \in Nat /\ held[p] <= Sz(mem, h)
          BY <2>3, <3>1 DEF Contents
    <3> QED BY <3>2, <3>3, <3>4 DEF Sz
  <2> QED BY <2>2, <2>4, <2>5, <2>6, <2>7 DEF Tiling
<1> QED BY <1>1, Invariant, PTL

\* A list in the invariant is linked both ways, as the runs check it.
LEMMA BothWays ==
    ASSUME NEW S, NEW first, NEW r \in [Heap -> Int], S \subseteq Heap,
           Chain(mem, S, first, r), Linked(first) = S
    PROVE  LinkedBothWays(first)
<1>1. NULL \notin S BY Facts
<1>2. \A h \in S : Beside(mem, S, first, r, h) BY <1>1, Neighbours
<1>3. first # NULL => Get(mem, prev(first)) = NULL
  <2> SUFFICES ASSUME first # NULL PROVE Pv(mem, first) = NULL BY DEF Pv
  <2>1. first \in S BY DEF Chain
  <2> QED BY <1>2, <2>1 DEF Beside
<1>4. ASSUME NEW h \in S, Get(mem, next(h)) # NULL
      PROVE  Get(mem, prev(Get(mem, next(h)))) = h
  <2>1. Nx(mem, h) \in S /\ Pv(mem, Nx(mem, h)) = h
        BY <1>4 DEF Chain, Nx
  <2> QED BY <2>1 DEF Nx, Pv
<1> QED BY <1>3, <1>4 DEF LinkedBothWays

\* Between calls each block is on the list its used byte says, linked both
\* ways, the unused in address order: KMALLOC's unlinking (HEAP.c:76-84) and
\* insert_free_block's links (HEAP.c:145-155) leave no block out.
THEOREM ListsExactCorrect == ASSUME Careful PROVE Spec => []ListsExact
<1>1. IInv => ListsExact
  <2> SUFFICES ASSUME IInv, pc = "idle" PROVE ListsExact BY DEF ListsExact
  <2>1. PICK bs, r, stamp : Inv(bs, r, stamp) BY DEF IInv
  <2>2. /\ Blocks = bs /\ InUse(bs) = Users(mem, bs)
        /\ Linked(free_list) = Loose(bs)
        /\ Linked(used_list) = Users(mem, bs)
        /\ Loose(bs) = bs \ Users(mem, bs)
        BY <2>1, Views
  <2>3. /\ r \in [Heap -> Int] /\ Address(r) /\ stamp \in [Heap -> Int]
        /\ Chain(mem, Loose(bs), free_list, r)
        /\ Chain(mem, Users(mem, bs), used_list, stamp)
        /\ bs \subseteq Heap
        BY <2>1 DEF Inv, Tiled
  <2>4. Loose(bs) \subseteq Heap /\ Users(mem, bs) \subseteq Heap
        BY <2>3 DEF Loose, Users
  <2>5. LinkedBothWays(free_list) /\ LinkedBothWays(used_list)
        BY <2>2, <2>3, <2>4, BothWays
  <2>6. ASSUME NEW h \in Loose(bs), Get(mem, next(h)) # NULL
        PROVE  h < Get(mem, next(h))
    <3>1. Nx(mem, h) \in Loose(bs) /\ r[Nx(mem, h)] < r[h]
          BY <2>3, <2>6 DEF Chain, Nx
    <3>2. h < Nx(mem, h) BY <2>3, <2>4, <3>1 DEF Address
    <3> QED BY <3>2 DEF Nx
  <2> QED BY <2>2, <2>5, <2>6 DEF ListsExact
<1> QED BY <1>1, Invariant, PTL

\* Between calls no two unused blocks touch: KFREE's two merges are enough
\* (HEAP.c:125-137).
THEOREM CoalescedCorrect == ASSUME Careful PROVE Spec => []Coalesced
<1>1. IInv => Coalesced
  <2> SUFFICES ASSUME IInv, pc = "idle" PROVE Coalesced BY DEF Coalesced
  <2>1. PICK bs, r, stamp : Inv(bs, r, stamp) BY DEF IInv
  <2>2. Blocks \ InUse(Blocks) = Loose(bs) BY <2>1, Views
  <2>3. \A g, h \in Loose(bs) : End(mem, g) # h BY <2>1 DEF Inv
  <2>4. \A h \in Loose(bs) : End(mem, h) \notin Loose(bs) BY <2>3
  <2> QED BY <2>2, <2>4 DEF Coalesced
<1> QED BY <1>1, Invariant, PTL

\* What a caller wrote stays, whatever it looks like: no header and no link
\* is written where a caller's data are.
THEOREM ContentCorrect == ASSUME Careful PROVE Spec => []ContentKept
<1>1. IInv => ContentKept
  <2> SUFFICES ASSUME IInv, NEW p \in DOMAIN held,
                      NEW w \in p .. (p + held[p] - 1)
               PROVE  Get(mem, w) = BLOCK_MAGIC
      BY DEF ContentKept
  <2>1. pc # "boot" BY DEF IInv
  <2>2. PICK bs, r, stamp : Inv(bs, r, stamp) BY <2>1 DEF IInv
  <2>3. Contents(mem, bs, held) BY <2>2 DEF Inv, Callers
  <2>4. PICK h \in Users(mem, bs) : p = h + 5 BY <2>3 DEF Contents
  <2> QED BY <2>3, <2>4 DEF Contents
<1> QED BY <1>1, Invariant, PTL

-----------------------------------------------------------------------------
(***************************************************************************)
(* The regions the callers have.                                           *)
(***************************************************************************)
\* What KMALLOC hands out is inside the heap, a header away from every region
\* a caller has.
LEMMA Room ==
    ASSUME NEW bs, NEW r, NEW stamp, Inv(bs, r, stamp), pc = "take"
    PROVE  LET p == cur + BLOCK_SIZE
           IN  /\ p \in 0 .. HEAP_SIZE /\ p \notin DOMAIN held
               /\ want \in Nat /\ p + want <= HEAP_SIZE
               /\ \A q \in DOMAIN held :
                     /\ q \in Nat /\ held[q] \in Nat
                     /\ \/ q + held[q] + BLOCK_SIZE <= p
                        \/ p + want + BLOCK_SIZE <= q
<1> DEFINE p == cur + 5
<1>1. /\ Tiled(mem, bs) /\ Contents(mem, bs, held)
      /\ cur \in Loose(bs) /\ want \in Nat /\ want + 5 <= Sz(mem, cur)
      BY DEF Inv, Callers, Cursors
<1>2. cur \in bs /\ cur \notin Users(mem, bs) BY <1>1 DEF Loose, Users
<1>3. /\ cur \in Nat /\ Sz(mem, cur) \in Nat
      /\ End(mem, cur) = cur + 5 + Sz(mem, cur) /\ End(mem, cur) <= HEAP_SIZE
      BY <1>1, <1>2, TiledFacts
<1>4. HEAP_SIZE \in Nat /\ BLOCK_SIZE = 5 BY Facts
<1>5. p \in 0 .. HEAP_SIZE /\ p + want <= HEAP_SIZE BY <1>1, <1>3, <1>4
<1>6. ASSUME NEW q \in DOMAIN held
      PROVE  /\ q \in Nat /\ held[q] \in Nat /\ q # p
             /\ q + held[q] + 5 <= p \/ p + want + 5 <= q
  <2>1. PICK h \in Users(mem, bs) : q = h + 5 BY <1>1 DEF Contents
  <2>2. held[q] \in Nat /\ held[q] <= Sz(mem, h) BY <1>1, <2>1 DEF Contents
  <2>3. h \in bs /\ h # cur BY <1>2, <2>1 DEF Users
  <2>4. /\ h \in Nat /\ Sz(mem, h) \in Nat
        /\ End(mem, h) = h + 5 + Sz(mem, h)
        BY <1>1, <2>3, TiledFacts
  <2>5. h < cur => End(mem, h) <= cur BY <1>1, <1>2, <2>3, TiledFacts
  <2>6. cur < h => End(mem, cur) <= h BY <1>1, <1>2, <2>3, TiledFacts
  <2>7. h < cur \/ cur < h BY <1>3, <2>3, <2>4
  <2> QED BY <1>1, <1>3, <2>1, <2>2, <2>4, <2>5, <2>6, <2>7
<1>7. p \notin DOMAIN held BY <1>6
<1> QED BY <1>1, <1>4, <1>5, <1>6, <1>7

\* Regions are a header apart as long as callers are careful: the violated
\* expectation (DEBUG.c:121) is about sizes the test of HEAP.c:57 gets wrong,
\* and about nothing else.
THEOREM SpacingCorrect == ASSUME Careful PROVE Spec => Spacing
<1>1. IInv => (pc = "take" =>
                 LET p == cur + BLOCK_SIZE
                 IN  \A q \in DOMAIN held :
                        \/ q + held[q] + BLOCK_SIZE <= p
                        \/ p + want + BLOCK_SIZE <= q)
  <2> SUFFICES ASSUME IInv, pc = "take", NEW q \in DOMAIN held
               PROVE  \/ q + held[q] + BLOCK_SIZE <= cur + BLOCK_SIZE
                      \/ cur + BLOCK_SIZE + want + BLOCK_SIZE <= q
      OBVIOUS
  <2>1. PICK bs, r, stamp : Inv(bs, r, stamp) BY DEF IInv
  <2> QED BY <2>1, Room
<1> QED BY <1>1, Invariant, PTL DEF Spec, Spacing

\* No size a caller asks for wraps when it is rounded up.
NoWrap == \A n \in Requests : n + ALIGN - 1 < WORD

\* KMALLOC rounds up.
LEMMA RoundedUp ==
    ASSUME NEW n \in Nat, n + ALIGN - 1 < WORD
    PROVE  Rounded(n) >= n
<1> DEFINE x == n + ALIGN - 1
           q == x \div ALIGN
<1>1. x \in Nat /\ x % WORD = x BY LegacyHeapAssumption
<1>2. ALIGN \in Nat /\ ALIGN > 0 BY LegacyHeapAssumption
<1>3. q \in Nat /\ x = ALIGN * q + (x % ALIGN) /\ x % ALIGN < ALIGN
      BY <1>1, <1>2
<1>4. ALIGN * q > x - ALIGN /\ q * ALIGN = ALIGN * q BY <1>1, <1>2, <1>3
<1>5. Rounded(n) = q * ALIGN BY <1>1 DEF Rounded
<1> QED BY <1>2, <1>4, <1>5

\* A call that looks for a block looks for the size a caller asked for.
Asked == /\ pc \in {"find", "take"} =>
               want \in {Rounded(n) : n \in Requests \ {0}}

\* KMALLOC looks for a size rounded up from a caller's.
LEMMA AskedInvariant == Spec => []Asked
<1>1. Init => Asked BY DEF Init, Asked
<1>2. Asked /\ [Next]_vars => Asked'
  <2> SUFFICES ASSUME Asked, [Next]_vars PROVE Asked' OBVIOUS
  <2>1. ASSUME NEW n \in Requests, KMALLOC(n) PROVE Asked'
    <3>1. want' = Rounded(n) /\ n # 0 BY <2>1 DEF KMALLOC
    <3> QED BY <3>1 DEF Asked
  <2>2. CASE FindNext \/ FindFit \/ UNCHANGED vars
    <3>1. want' = want /\ (pc' \in {"find", "take"} => pc \in {"find", "take"})
          BY <2>2 DEF FindNext, FindFit, vars
    <3> QED BY <3>1 DEF Asked
  <2>3. ASSUME HEAP_INIT \/ FindNone \/ Take \/ InsertNext \/ InsertLink
        PROVE  Asked'
    <3>1. pc' \in {"idle", "insert"}
          BY <2>3 DEF HEAP_INIT, FindNone, Take, InsertNext, InsertLink
    <3> QED BY <3>1 DEF Asked
  <2>4. ASSUME NEW p, KFREE(p) PROVE Asked'
    <3>1. pc' = "insert" BY <2>4 DEF KFREE
    <3> QED BY <3>1 DEF Asked
  <2> QED BY <2>1, <2>2, <2>3, <2>4 DEF Next, Running
<1> QED BY <1>1, <1>2, PTL DEF Spec

\* A step of the heap is one of the Allocator's, or none it can see.
LEMMA NextAllocator ==
    ASSUME Careful, NoWrap
    PROVE  IInv /\ Asked /\ [Next]_vars => [Regions!Next]_(Regions!vars)
<1> DEFINE request == IF pc = "take" THEN want ELSE 0
           end == IF pc = "boot" THEN 0 ELSE HEAP_SIZE
           Unseen == request' = request /\ held' = held /\ end' = end
<1> SUFFICES ASSUME IInv, Asked, [Next]_vars
             PROVE  Regions!Next \/ Unseen
    BY DEF Regions!vars
<1>1. CASE HEAP_INIT
  <2>1. /\ pc = "boot" /\ pc' = "idle" /\ want' = want /\ held' = held
        BY <1>1 DEF HEAP_INIT
  <2>2. end = 0 /\ end' = HEAP_SIZE /\ request = 0 /\ request' = 0
        BY <2>1
  <2>3. HEAP_SIZE \in Nat /\ HEAP_SIZE > 0 BY Facts
  <2>4. Regions!Extend BY <2>1, <2>2, <2>3 DEF Regions!Extend
  <2> QED BY <2>4 DEF Regions!Next
<1>2. CASE FindFit
  <2>1. /\ pc = "find" /\ pc' = "take" /\ want' = want /\ held' = held
        BY <1>2 DEF FindFit
  <2>2. want \in {Rounded(n) : n \in Requests \ {0}} BY <2>1 DEF Asked
  <2>3. request = 0 /\ request' = want /\ end' = end BY <2>1
  <2>4. Regions!Ask BY <2>1, <2>2, <2>3 DEF Regions!Ask
  <2> QED BY <2>4 DEF Regions!Next
<1>3. CASE Take
  <2> DEFINE p == cur + BLOCK_SIZE
  <2>1. /\ pc = "take" /\ pc' = "idle"
        /\ held' = [q \in DOMAIN held \cup {p} |->
                       IF q = p THEN want ELSE held[q]]
        BY <1>3 DEF Take
  <2>2. PICK bs, r, stamp : Inv(bs, r, stamp) BY <2>1 DEF IInv
  <2>3. /\ p \in 0 .. HEAP_SIZE /\ p \notin DOMAIN held
        /\ want \in Nat /\ p + want <= HEAP_SIZE
        /\ \A q \in DOMAIN held :
              /\ q \in Nat /\ held[q] \in Nat
              /\ \/ q + held[q] + BLOCK_SIZE <= p
                 \/ p + want + BLOCK_SIZE <= q
        BY <2>1, <2>2, Room
  <2>4. HEAP_SIZE \in Nat /\ BLOCK_SIZE = 5 BY Facts
  <2> HIDE DEF p
  <2>5. \A q \in DOMAIN held : q + held[q] <= p \/ p + want <= q
        BY <2>3, <2>4
  <2>6. want # 0
    <3>1. PICK n \in Requests \ {0} : want = Rounded(n) BY <2>1 DEF Asked
    <3>2. n \in Nat /\ n > 0 /\ n + ALIGN - 1 < WORD
          BY LegacyHeapAssumption DEF NoWrap
    <3> QED BY <3>1, <3>2, RoundedUp
  <2>7. want \in want .. (HEAP_SIZE - p) BY <2>3, <2>4
  <2>8. request = want /\ request' = 0 /\ end = HEAP_SIZE /\ end' = HEAP_SIZE
        BY <2>1
  <2>9. Regions!Disjoint(p, want) BY <2>5 DEF Regions!Disjoint
  <2>10. Regions!Grant BY <2>1, <2>3, <2>6, <2>7, <2>8, <2>9 DEF Regions!Grant
  <2> QED BY <2>10 DEF Regions!Next
<1>4. ASSUME NEW p \in DOMAIN held \cup past, KFREE(p)
      PROVE  Regions!Next
  <2>1. /\ pc = "idle" /\ pc' = "insert"
        /\ held' = [q \in DOMAIN held \ {p} |-> held[q]]
        BY <1>4 DEF KFREE
  <2>2. PICK bs, r, stamp : Inv(bs, r, stamp) BY <2>1 DEF IInv
  <2>3. p \in DOMAIN held BY <1>4, <2>1, <2>2, Freeing
  <2>4. request = 0 /\ request' = 0 /\ end' = end BY <2>1
  <2>5. Regions!Return BY <2>1, <2>3, <2>4 DEF Regions!Return
  <2> QED BY <2>5 DEF Regions!Next
<1>5. ASSUME NEW n \in Requests, KMALLOC(n) PROVE Unseen
  <2>1. pc = "idle" /\ pc' = "find" /\ held' = held BY <1>5 DEF KMALLOC
  <2> QED BY <2>1
<1>6. CASE FindNext \/ FindNone \/ InsertNext \/ InsertLink
  <2>1. /\ pc \in {"find", "insert"} /\ pc' \in {"idle", "find", "insert"}
        /\ held' = held
        BY <1>6 DEF FindNext, FindNone, InsertNext, InsertLink
  <2> QED BY <2>1
<1>7. CASE UNCHANGED vars BY <1>7 DEF vars
<1> QED BY <1>1, <1>2, <1>3, <1>4, <1>5, <1>6, <1>7 DEF Next, Running

\* The first kernel's heap is an Allocator too: its callers cannot tell it
\* from the second kernel's (KMALLOC, HEAP.c:36-96; KFREE, HEAP.c:98-138).
THEOREM AllocationCorrect ==
    ASSUME Careful, NoWrap
    PROVE  Spec => Allocation
<1>1. Init => Regions!Init
  <2> SUFFICES ASSUME Init PROVE Regions!Init OBVIOUS
  <2>1. pc = "boot" /\ held = [p \in {} |-> 0] BY DEF Init
  <2> QED BY <2>1 DEF Regions!Init
<1> QED BY <1>1, NextAllocator, Invariant, AskedInvariant, PTL
        DEF Spec, Allocation, Regions!Spec
-----------------------------------------------------------------------------
(***************************************************************************)
(* Neither loop of the heap runs for ever: the search of find_free_block   *)
(* (HEAP.c:24-33) and that of insert_free_block go, at every iteration, to *)
(* a header further up in a heap of finitely many words, or to the end of  *)
(* the list.  Fairness apart, this is why the calls return.                *)
(***************************************************************************)
Looping == pc \in {"find", "insert"} /\ pc' = pc

Onward(h, n) == h \in Heap /\ (n = NULL \/ (n \in Heap /\ h < n))

LoopsAdvance == [][Looping => Onward(cur, cur')]_vars

\* The free list is in address order.
LEMMA NextOnward ==
    ASSUME NEW bs, NEW r, NEW stamp, Inv(bs, r, stamp), NEW h \in Loose(bs)
    PROVE  Onward(h, Nx(mem, h))
<1>1. Chain(mem, Loose(bs), free_list, r) /\ Address(r) BY DEF Inv
<1>2. Loose(bs) \subseteq Heap BY DEF Inv, Tiled, Loose
<1>3. \/ Nx(mem, h) = NULL
      \/ Nx(mem, h) \in Loose(bs) /\ r[Nx(mem, h)] < r[h]
      BY <1>1 DEF Chain
<1>4. CASE Nx(mem, h) = NULL BY <1>2, <1>4 DEF Onward
<1>5. CASE Nx(mem, h) \in Loose(bs) /\ r[Nx(mem, h)] < r[h]
  <2>1. h \in Heap /\ Nx(mem, h) \in Heap BY <1>2, <1>5
  <2>2. h < Nx(mem, h) BY <1>1, <1>5, <2>1 DEF Address
  <2> QED BY <2>1, <2>2 DEF Onward
<1> QED BY <1>3, <1>4, <1>5

LEMMA LoopStep ==
    ASSUME IInv, Next, Looping
    PROVE  Onward(cur, cur')
<1>1. FindNext \/ InsertNext
      BY DEF Looping, Next, Running, HEAP_INIT, KMALLOC, KFREE, FindNone,
             FindFit, Take, InsertLink
<1>2. pc \in {"find", "insert"} /\ cur # NULL /\ cur' = Nx(mem, cur)
      BY <1>1 DEF FindNext, InsertNext, Nx
<1>3. PICK bs, r, stamp : Inv(bs, r, stamp) BY <1>2 DEF IInv
<1>4. cur \in Loose(bs) BY <1>2, <1>3 DEF Inv, Cursors
<1> QED BY <1>2, <1>3, <1>4, NextOnward

\* The loops of KMALLOC and KFREE come to the end of the free list.
THEOREM LoopsEnd == ASSUME Careful PROVE Spec => LoopsAdvance
<1>1. IInv /\ [Next]_vars => [Looping => Onward(cur, cur')]_vars
      BY LoopStep
<1> QED BY <1>1, Invariant, PTL DEF Spec, LoopsAdvance
=============================================================================
