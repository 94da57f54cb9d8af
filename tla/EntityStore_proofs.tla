-------------------------- MODULE EntityStore_proofs --------------------------
(***************************************************************************)
(* Proofs about EntityStore and EntitySystems: the type invariant, the     *)
(* soundness of the free lists, the pairing of handles and entities, that  *)
(* EntityTable is implemented, and what an entity starts with, for every   *)
(* number of pools, chunk sizes, batch sizes and systems.                  *)
(***************************************************************************)
EXTENDS EntitySystems, SequenceTheorems, TLAPS

\* A quotient and a remainder below the divisor are the ones \div and % return.
LEMMA DivModUnique ==
  ASSUME NEW s \in Nat \ {0}, NEW q \in Nat, NEW i \in 0 .. s - 1
  PROVE (q * s + i) \div s = q /\ (q * s + i) % s = i
  OBVIOUS

\* The division that numbers the slots of a new chunk loses no slot.
LEMMA DivModBack ==
  ASSUME NEW s \in Nat \ {0}, NEW a \in Nat
  PROVE /\ a \div s \in Nat
        /\ a % s \in 0 .. s - 1
        /\ a = (a \div s) * s + (a % s)
  OBVIOUS

\* Appending to a free list: two lists without repetition and without a
\* common element give a list without repetition.
LEMMA ConcatSound ==
  ASSUME NEW S, NEW s \in Seq(S), NEW t \in Seq(S),
         IsInjective(s), IsInjective(t), Range(s) \cap Range(t) = {}
  PROVE /\ s \o t \in Seq(S)
        /\ Len(s \o t) = Len(s) + Len(t)
        /\ IsInjective(s \o t)
        /\ Range(s \o t) = Range(s) \cup Range(t)
  <1>1. /\ s \o t \in Seq(S)
        /\ Len(s \o t) = Len(s) + Len(t)
        /\ \A i \in 1 .. Len(s) + Len(t) :
              (s \o t)[i] = IF i <= Len(s) THEN s[i] ELSE t[i - Len(s)]
    BY ConcatProperties
  <1>2. Range(s \o t) = Range(s) \cup Range(t)
    BY RangeConcatenation
  <1>3. ASSUME NEW i \in DOMAIN (s \o t), NEW j \in DOMAIN (s \o t),
               (s \o t)[i] = (s \o t)[j]
        PROVE  i = j
    <2>1. i \in 1 .. Len(s) + Len(t) /\ j \in 1 .. Len(s) + Len(t)
      BY <1>1, LenProperties
    <2>2. \A a \in 1 .. Len(s), b \in 1 .. Len(t) : s[a] # t[b]
      BY LenProperties DEF Range
    <2>3. \A a, b \in 1 .. Len(s) : s[a] = s[b] => a = b
      BY LenProperties DEF IsInjective
    <2>4. \A a, b \in 1 .. Len(t) : t[a] = t[b] => a = b
      BY LenProperties DEF IsInjective
    <2>5. Len(s) \in Nat /\ Len(t) \in Nat
      BY LenProperties
    <2>6. CASE i <= Len(s) /\ j <= Len(s)
      BY <1>1, <1>3, <2>1, <2>3, <2>5, <2>6
    <2>7. CASE i <= Len(s) /\ j > Len(s)
      BY <1>1, <1>3, <2>1, <2>2, <2>5, <2>7
    <2>8. CASE i > Len(s) /\ j <= Len(s)
      BY <1>1, <1>3, <2>1, <2>2, <2>5, <2>8
    <2>9. CASE i > Len(s) /\ j > Len(s)
      <3>1. i - Len(s) \in 1 .. Len(t) /\ j - Len(s) \in 1 .. Len(t)
        BY <2>1, <2>5, <2>9
      <3>2. t[i - Len(s)] = t[j - Len(s)]
        BY <1>1, <1>3, <2>1, <2>5, <2>9
      <3>3. i - Len(s) = j - Len(s)
        BY <2>4, <3>1, <3>2
      <3>. QED
        BY <2>1, <2>5, <3>3
    <2>. QED
      BY <2>1, <2>5, <2>6, <2>7, <2>8, <2>9
  <1>. QED
    BY <1>1, <1>2, <1>3 DEF IsInjective

\* Erasing the first k positions of a free list parts it into two disjoint
\* lists without repetition.
LEMMA CutSound ==
  ASSUME NEW S, NEW s \in Seq(S), IsInjective(s), NEW k \in 0 .. Len(s)
  PROVE LET a == SubSeq(s, 1, k)
            b == SubSeq(s, k + 1, Len(s))
        IN /\ a \in Seq(S) /\ b \in Seq(S)
           /\ Len(a) = k
           /\ IsInjective(a) /\ IsInjective(b)
           /\ Range(a) \cap Range(b) = {}
           /\ Range(a) \cup Range(b) = Range(s)
  <1>. DEFINE a == SubSeq(s, 1, k)
              b == SubSeq(s, k + 1, Len(s))
  <1>0. Len(s) \in Nat /\ DOMAIN s = 1 .. Len(s) /\ \A i \in 1 .. Len(s) : s[i] \in S
    BY LenProperties
  <1>1. a \in Seq(S) /\ Len(a) = k /\ \A i \in 1 .. k : a[i] = s[i]
    BY <1>0, SubSeqProperties
  <1>2. b \in Seq(S) /\ Len(b) = Len(s) - k
        /\ \A i \in 1 .. Len(s) - k : b[i] = s[k + i]
    <2>1. \A i \in k + 1 .. Len(s) : s[i] \in S
      BY <1>0
    <2>2. /\ b \in Seq(S)
          /\ Len(b) = IF k + 1 <= Len(s) THEN Len(s) - (k + 1) + 1 ELSE 0
          /\ \A i \in 1 .. Len(s) - (k + 1) + 1 : b[i] = s[k + 1 + i - 1]
      BY <1>0, <2>1, SubSeqProperties
    <2>3. Len(b) = Len(s) - k
      <3>. HIDE DEF a, b
      <3>1. Len(s) \in Nat /\ k \in Nat /\ k <= Len(s)
        BY <1>0
      <3>2. Len(b) = IF k + 1 <= Len(s) THEN Len(s) - (k + 1) + 1 ELSE 0
        BY <2>2
      <3>3. CASE k + 1 <= Len(s)
        BY <3>1, <3>2, <3>3
      <3>4. CASE ~(k + 1 <= Len(s))
        BY <3>1, <3>2, <3>4
      <3>. QED
        BY <3>3, <3>4
    <2>4. ASSUME NEW i \in 1 .. Len(s) - k PROVE b[i] = s[k + i]
      <3>1. i \in 1 .. Len(s) - (k + 1) + 1 /\ k + 1 + i - 1 = k + i
        BY <1>0
      <3>. QED
        BY <2>2, <3>1
    <2>. QED
      BY <2>2, <2>3, <2>4
  <1>3. \A i, j \in 1 .. Len(s) : s[i] = s[j] => i = j
    BY <1>0 DEF IsInjective
  <1>4. DOMAIN a = 1 .. k /\ DOMAIN b = 1 .. Len(s) - k
    BY <1>1, <1>2, LenProperties
  <1>. HIDE DEF a, b
  <1>5. IsInjective(a) /\ IsInjective(b)
    <2>1. ASSUME NEW i \in 1 .. k, NEW j \in 1 .. k, a[i] = a[j] PROVE i = j
      BY <1>0, <1>1, <1>3, <2>1
    <2>2. ASSUME NEW i \in 1 .. Len(s) - k, NEW j \in 1 .. Len(s) - k, b[i] = b[j]
          PROVE  i = j
      <3>1. k + i \in 1 .. Len(s) /\ k + j \in 1 .. Len(s)
        BY <1>0
      <3>2. s[k + i] = s[k + j]
        BY <1>2, <2>2
      <3>3. k + i = k + j
        BY <1>3, <3>1, <3>2
      <3>. QED
        BY <3>3
    <2>. QED
      BY <1>4, <2>1, <2>2 DEF IsInjective
  <1>6. Range(a) \cap Range(b) = {}
    BY <1>0, <1>1, <1>2, <1>3, <1>4 DEF Range
  <1>7. Range(a) \cup Range(b) = Range(s)
    <2>1. ASSUME NEW i \in 1 .. Len(s) PROVE s[i] \in Range(a) \cup Range(b)
      <3>1. CASE i <= k
        BY <3>1, <1>1, <1>4 DEF Range
      <3>2. CASE i > k
        <4>1. i - k \in 1 .. Len(s) - k /\ b[i - k] = s[i]
          BY <3>2, <1>0, <1>2
        <4>. QED
          BY <4>1, <1>4 DEF Range
      <3>. QED
        BY <3>1, <3>2, <1>0
    <2>2. Range(a) \cup Range(b) \subseteq Range(s)
      <3>1. ASSUME NEW i \in 1 .. k PROVE a[i] \in Range(s)
        BY <1>0, <1>1 DEF Range
      <3>2. ASSUME NEW i \in 1 .. Len(s) - k PROVE b[i] \in Range(s)
        <4>1. k + i \in 1 .. Len(s) /\ b[i] = s[k + i]
          BY <1>0, <1>2
        <4>. QED
          BY <1>0, <4>1 DEF Range
      <3>. QED
        BY <1>4, <3>1, <3>2 DEF Range
    <2>. QED
      BY <2>1, <2>2, <1>0 DEF Range
  <1>. QED
    BY <1>1, <1>2, <1>5, <1>6, <1>7 DEF a, b

\* The positions addChunk appends are the slots of the new chunks, each once.
LEMMA NewPositionsSound ==
  ASSUME NEW x \in Stores, NEW m \in Nat, chunks[x] \in Nat
  PROVE /\ NewPositions(x, m) \in Seq(Pos)
        /\ Len(NewPositions(x, m)) = m * ChunkSize[x]
        /\ IsInjective(NewPositions(x, m))
        /\ Range(NewPositions(x, m)) = Slots(x, chunks[x] + m) \ Allocated(x)
        /\ Allocated(x) \subseteq Slots(x, chunks[x] + m)
  <1>. DEFINE s == ChunkSize[x]
              c == chunks[x]
              f == NewPositions(x, m)
  <1>1. s \in Nat \ {0} /\ c \in Nat
    BY PoolsAssumption
  <1>. HIDE DEF s, c
  <1>2. m * s \in Nat
    BY <1>1
  <1>3. f = [j \in 1 .. m * s |-> <<c + ((j - 1) \div s), (j - 1) % s>>]
    BY DEF NewPositions, s, c
  <1>4. ASSUME NEW j \in 1 .. m * s
        PROVE  /\ (j - 1) \div s \in 0 .. m - 1
               /\ (j - 1) % s \in 0 .. s - 1
               /\ j - 1 = ((j - 1) \div s) * s + ((j - 1) % s)
    <2>1. /\ (j - 1) \div s \in Nat
          /\ (j - 1) % s \in 0 .. s - 1
          /\ j - 1 = ((j - 1) \div s) * s + ((j - 1) % s)
      <3>1. j - 1 \in Nat
        BY <1>2
      <3>. QED
        BY <1>1, <3>1, DivModBack
    <2>2. (j - 1) \div s < m
      <3>. DEFINE q == (j - 1) \div s
      <3>1. q * s <= j - 1 /\ j - 1 < m * s
        BY <1>1, <1>2, <2>1
      <3>. QED
        BY <1>1, <2>1, <3>1
    <2>. QED
      BY <2>1, <2>2
  <1>5. \A j \in 1 .. m * s : f[j] \in Pos /\ f[j] \in Slots(x, c + m) \ Allocated(x)
    <2>1. ASSUME NEW j \in 1 .. m * s
          PROVE  f[j] \in Pos /\ f[j] \in Slots(x, c + m) \ Allocated(x)
      <3>. DEFINE d == (j - 1) \div s
                  e == (j - 1) % s
      <3>1. f[j] = <<c + d, e>> /\ d \in 0 .. m - 1 /\ e \in 0 .. s - 1
        BY <1>3, <1>4
      <3>. HIDE DEF d, e
      <3>2. c + d \in 0 .. c + m - 1 /\ c + d \notin 0 .. c - 1
        BY <1>1, <3>1
      <3>. QED
        BY <1>1, <3>1, <3>2 DEF Slots, Allocated, Pos, s, c
    <2>. QED
      BY <2>1
  <1>6. f \in Seq(Pos) /\ Len(f) = m * s /\ DOMAIN f = 1 .. m * s
    BY <1>2, <1>3, <1>5
  <1>7. IsInjective(f)
    <2>1. ASSUME NEW i \in 1 .. m * s, NEW j \in 1 .. m * s, f[i] = f[j]
          PROVE  i = j
      <3>1. /\ (i - 1) \div s = (j - 1) \div s
            /\ (i - 1) % s = (j - 1) % s
        <4>1. <<c + ((i - 1) \div s), (i - 1) % s>> = <<c + ((j - 1) \div s), (j - 1) % s>>
          BY <1>3, <2>1
        <4>. QED
          BY <1>1, <1>4, <4>1
      <3>2. i - 1 = j - 1
        BY <1>4, <3>1
      <3>. QED
        BY <1>2, <3>2
    <2>. QED
      BY <1>6, <2>1 DEF IsInjective
  <1>8. ASSUME NEW p \in Slots(x, c + m) \ Allocated(x)
        PROVE  p \in Range(f)
    <2>1. PICK d \in 0 .. c + m - 1, i \in 0 .. s - 1 : p = <<d, i>>
      BY <1>8 DEF Slots, s, c
    <2>2. d >= c
      BY <1>1, <2>1, <1>8 DEF Allocated, Slots, s, c
    <2>. DEFINE q == d - c
                j == q * s + i + 1
    <2>3. q \in 0 .. m - 1
      BY <1>1, <2>1, <2>2
    <2>4. j \in 1 .. m * s
      <3>1. q * s \in Nat /\ (m - 1) * s \in Int /\ (m - 1) * s = m * s - s
        BY <1>1, <2>3
      <3>2. q * s <= (m - 1) * s
        BY <1>1, <2>3
      <3>. QED
        BY <1>1, <1>2, <2>1, <3>1, <3>2
    <2>5. (j - 1) \div s = q /\ (j - 1) % s = i
      <3>1. j - 1 = q * s + i
        BY <1>1, <2>1, <2>3
      <3>. QED
        <4>1. (q * s + i) \div s = q /\ (q * s + i) % s = i
          <5>. HIDE DEF q
          <5>1. q \in Nat
            BY <1>2, <2>3
          <5>. QED
            BY <1>1, <2>1, <5>1, DivModUnique
        <4>. QED
          BY <3>1, <4>1
    <2>6. f[j] = p
      <3>1. f[j] = <<c + ((j - 1) \div s), (j - 1) % s>>
        BY <1>3, <2>4
      <3>2. c + q = d
        BY <1>1, <2>1
      <3>. QED
        BY <2>1, <2>5, <3>1, <3>2
    <2>. QED
      BY <1>6, <2>4, <2>6 DEF Range
  <1>9. Range(f) = Slots(x, c + m) \ Allocated(x)
    BY <1>5, <1>6, <1>8 DEF Range
  <1>10. Allocated(x) \subseteq Slots(x, c + m)
    BY <1>1 DEF Allocated, Slots, s, c
  <1>. QED
    BY <1>6, <1>7, <1>9, <1>10 DEF s, c

\* The k positions a create call takes from a grown free list were all free,
\* and afterwards exactly they have become live.
LEMMA TakeSound ==
  ASSUME TypeOK, FreeListsSound,
         NEW x \in Stores, NEW k \in Nat, NEW m \in Nat, Grows(x, k, m)
  PROVE LET taken == SubSeq(Grown(x, m), 1, k)
            rest == SubSeq(Grown(x, m), k + 1, Len(Grown(x, m)))
            dom == Slots(x, chunks[x] + m)
        IN /\ chunks[x] \in Nat /\ chunks[x] + m \in 0 .. MaxChunks
           /\ taken \in Seq(Pos) /\ rest \in Seq(Pos)
           /\ Len(taken) = k
           /\ IsInjective(taken) /\ IsInjective(rest)
           /\ Range(taken) \subseteq dom /\ Range(rest) \subseteq dom
           /\ Allocated(x) \subseteq dom
           /\ Range(taken) \cap Range(rest) = {}
           /\ Range(taken) \cap Live(x) = {}
           /\ dom \ Range(rest) = Live(x) \cup Range(taken)
           /\ Range(rest) \subseteq Range(free[x]) \cup (dom \ Allocated(x))
  <1>. DEFINE new == NewPositions(x, m)
              g == Grown(x, m)
              dom == Slots(x, chunks[x] + m)
              taken == SubSeq(g, 1, k)
              rest == SubSeq(g, k + 1, Len(g))
  <1>1. /\ chunks[x] \in Nat /\ free[x] \in Seq(Pos)
        /\ IsInjective(free[x]) /\ Range(free[x]) \subseteq Allocated(x)
    BY DEF TypeOK, FreeListsSound
  <1>2. /\ new \in Seq(Pos) /\ Len(new) = m * ChunkSize[x] /\ IsInjective(new)
        /\ Range(new) = dom \ Allocated(x)
        /\ Allocated(x) \subseteq dom
    BY <1>1, NewPositionsSound
  <1>3. Range(free[x]) \cap Range(new) = {}
    BY <1>1, <1>2
  <1>. HIDE DEF new, dom
  <1>4. /\ g \in Seq(Pos) /\ Len(g) = Len(free[x]) + m * ChunkSize[x]
        /\ IsInjective(g)
        /\ Range(g) = Range(free[x]) \cup Range(new)
    BY <1>1, <1>2, <1>3, ConcatSound DEF Grown, new
  <1>5. k \in 0 .. Len(g)
    <2>1. k <= Len(g) /\ Len(g) \in Nat
      BY <1>4, LenProperties DEF Grows
    <2>. QED
      BY <2>1
  <1>. HIDE DEF g
  <1>6. /\ taken \in Seq(Pos) /\ rest \in Seq(Pos) /\ Len(taken) = k
        /\ IsInjective(taken) /\ IsInjective(rest)
        /\ Range(taken) \cap Range(rest) = {}
        /\ Range(taken) \cup Range(rest) = Range(g)
    BY <1>4, <1>5, CutSound
  <1>. HIDE DEF taken, rest
  <1>7. chunks[x] + m \in 0 .. MaxChunks
    BY <1>1, ValuesAssumption DEF Grows
  <1>8. Live(x) = Allocated(x) \ Range(free[x])
    BY DEF Live
  <1>9. /\ Range(taken) \subseteq dom /\ Range(rest) \subseteq dom
        /\ Range(taken) \cap Live(x) = {}
        /\ dom \ Range(rest) = Live(x) \cup Range(taken)
        /\ Range(rest) \subseteq Range(free[x]) \cup (dom \ Allocated(x))
    BY <1>1, <1>2, <1>4, <1>6, <1>8
  <1>. QED
    BY <1>1, <1>2, <1>6, <1>7, <1>9 DEF taken, rest, dom, g

\* setComponentsAtIndexes leaves the j-th value in the j-th slot.
LEMMA StoredAt ==
  ASSUME NEW column, NEW dom, NEW zero, NEW slots \in Seq(Pos), IsInjective(slots),
         Range(slots) \subseteq dom, NEW vals, NEW j \in 1 .. Len(slots)
  PROVE  Stored(column, dom, zero, slots, vals)[slots[j]] = vals[j]
  <1>1. DOMAIN slots = 1 .. Len(slots)
    BY LenProperties
  <1>2. slots[j] \in Range(slots)
    BY <1>1 DEF Range
  <1>3. j \in DOMAIN slots /\ \A i \in DOMAIN slots : slots[i] = slots[j] => i = j
    BY <1>1 DEF IsInjective
  <1>4. (CHOOSE i \in DOMAIN slots : slots[i] = slots[j]) = j
    BY <1>3
  <1>. QED
    BY <1>2, <1>4 DEF Stored

\* A column keeps its type when chunks are added and values stored.
LEMMA StoredTyped ==
  ASSUME NEW column, NEW dom, NEW zero, NEW slots \in Seq(Pos), IsInjective(slots),
         Range(slots) \subseteq dom, NEW vals, NEW V,
         \A p \in DOMAIN column : column[p] \in V,
         zero \in V,
         \A j \in 1 .. Len(slots) : vals[j] \in V
  PROVE  Stored(column, dom, zero, slots, vals) \in [dom -> V]
  <1>. DEFINE c == Stored(column, dom, zero, slots, vals)
  <1>1. c = [p \in dom |-> c[p]]
    BY DEF Stored
  <1>2. ASSUME NEW p \in dom PROVE c[p] \in V
    <2>1. CASE p \in Range(slots)
      <3>1. PICK j \in 1 .. Len(slots) : slots[j] = p
        BY <2>1, LenProperties DEF Range
      <3>2. c[slots[j]] = vals[j]
        BY StoredAt
      <3>. QED
        BY <3>1, <3>2
    <2>2. CASE p \notin Range(slots)
      BY <2>2 DEF Stored
    <2>. QED
      BY <2>1, <2>2
  <1>. HIDE DEF c
  <1>3. c \in [dom -> V]
    BY <1>1, <1>2
  <1>. QED
    BY <1>3 DEF c

-----------------------------------------------------------------------------
\* The inductive invariant.  No part is inductive alone: destroy keeps the
\* free lists free of repetitions only because the entities its handles lead to
\* are live and different, which is the pairing; create keeps the pairing only
\* because the slots it takes were free once, which is the lists' soundness.
\* What the slots hold is kept apart, since systems may write there.
Sound == TypeOK /\ FreeListsSound /\ HandlesAndEntitiesPaired

IInv == Sound /\ FreeSlotsAreBlank

\* What the components of a pool's free slots may hold, the reset value at
\* least: that value alone for the manager, more for a program with systems.
Fresh == [PoolIds -> {values \in SUBSET Data : 0 \in values}]

Clean(fresh) ==
  /\ FreeSlotsAreFree
  /\ \A id \in PoolIds : \A p \in Range(free[id]) : data[id][p] \in fresh[id]

\* What EntitiesStartAnew asks of a step.
StartIn(fresh) ==
  \A id \in PoolIds : \A p \in Live(id)' \ Live(id) : data'[id][p] \in fresh[id]

\* From clean free slots a step makes entities that start clean, and leaves
\* the free slots clean.
KeepsClean == \A fresh \in Fresh : Clean(fresh) => Clean(fresh)' /\ StartIn(fresh)

ZeroFresh == [id \in PoolIds |-> {0}]

\* Blank slots are the ones clean of everything but the reset value.
LEMMA BlankIsClean == ZeroFresh \in Fresh /\ (FreeSlotsAreBlank <=> Clean(ZeroFresh))
  <1>1. ZeroFresh \in Fresh
    BY ValuesAssumption DEF ZeroFresh, Fresh
  <1>. QED
    BY <1>1 DEF FreeSlotsAreBlank, Clean, ZeroFresh

\* Pool numbers survive their conversion to entity_pool_id_t.
LEMMA StoresAreDistinct ==
  /\ PoolIds \subseteq Stores
  /\ Ptr \in Stores /\ Ptr \notin PoolIds
  /\ \A id \in PoolIds : id \in 0 .. PoolIdRange - 1 /\ id % PoolIdRange = id
  <1>1. PoolIds \subseteq Stores /\ Ptr \in Stores /\ Ptr \notin PoolIds
    BY PoolsAssumption DEF PoolIds, Stores, Ptr
  <1>2. ASSUME NEW id \in PoolIds
        PROVE  id \in 0 .. PoolIdRange - 1 /\ id % PoolIdRange = id
    <2>1. PoolIdRange \in Nat \ {0} /\ id \in 0 .. PoolIdRange - 1
      BY PoolsAssumption DEF PoolIds
    <2>. QED
      BY <2>1
  <1>. QED
    BY <1>1, <1>2

\* Two handles in use never stand for one entity.
LEMMA HandlesAreInjective ==
  ASSUME HandlesAndEntitiesPaired
  PROVE  Abstract!IsInjectiveTable(Handles)
  <1>1. ASSUME NEW g \in Live(Ptr), NEW h \in Live(Ptr), Handles[g] = Handles[h]
        PROVE  g = h
    <2>1. poolId[g] = poolId[h] /\ link[Ptr][g] = link[Ptr][h]
      BY <1>1 DEF Handles
    <2>. QED
      BY <2>1 DEF HandlesAndEntitiesPaired
  <1>. QED
    BY <1>1 DEF Abstract!IsInjectiveTable, Handles

\* A manager without chunks satisfies the invariant.
LEMMA InitStep == Init => IInv
  <1>. SUFFICES ASSUME Init PROVE IInv
    OBVIOUS
  <1>1. \A x \in Stores : Allocated(x) = {} /\ Live(x) = {} /\ Range(free[x]) = {}
    BY DEF Init, Allocated, Slots, Live, Range
  <1>2. TypeOK
    <2>1. registered \in 0 .. NumPools /\ chunks \in [Stores -> 0 .. MaxChunks]
      BY PoolsAssumption, ValuesAssumption DEF Init
    <2>2. free \in [Stores -> Seq(Pos)]
      BY DEF Init
    <2>. QED
      BY <1>1, <2>1, <2>2, StoresAreDistinct DEF TypeOK, Init
  <1>3. FreeListsSound
    BY <1>1 DEF FreeListsSound, Init, IsInjective
  <1>4. HandlesAndEntitiesPaired /\ FreeSlotsAreBlank
    BY <1>1, StoresAreDistinct
       DEF HandlesAndEntitiesPaired, FreeSlotsAreBlank, FreeSlotsAreFree
  <1>. QED
    BY <1>2, <1>3, <1>4 DEF IInv, Sound

\* createEntity and createEntities preserve the invariant and add handles.
LEMMA CreateStep ==
  ASSUME Sound, NEW id \in PoolIds, id < registered,
         NEW k \in Nat, NEW st \in Statuses, NEW m \in Nat, NEW n \in Nat,
         Create(id, k, st, m, n)
  PROVE  Sound' /\ KeepsClean /\ Abstract!Add(id)
  <1>. DEFINE ents == SubSeq(Grown(id, m), 1, k)
              ptrs == SubSeq(Grown(Ptr, n), 1, k)
              restE == SubSeq(Grown(id, m), k + 1, Len(Grown(id, m)))
              restP == SubSeq(Grown(Ptr, n), k + 1, Len(Grown(Ptr, n)))
              domE == Slots(id, chunks[id] + m)
              domP == Slots(Ptr, chunks[Ptr] + n)
  <1>. USE StoresAreDistinct
  <1>0. TypeOK /\ FreeListsSound /\ HandlesAndEntitiesPaired
    BY DEF Sound
  <1>1. /\ chunks[id] \in Nat /\ chunks[id] + m \in 0 .. MaxChunks
        /\ ents \in Seq(Pos) /\ restE \in Seq(Pos) /\ Len(ents) = k
        /\ IsInjective(ents) /\ IsInjective(restE)
        /\ Range(ents) \subseteq domE /\ Range(restE) \subseteq domE
        /\ Allocated(id) \subseteq domE
        /\ Range(ents) \cap Range(restE) = {}
        /\ Range(ents) \cap Live(id) = {}
        /\ domE \ Range(restE) = Live(id) \cup Range(ents)
        /\ Range(restE) \subseteq Range(free[id]) \cup (domE \ Allocated(id))
    <2>1. Grows(id, k, m)
      BY DEF Create
    <2>. QED
      BY <1>0, <2>1, TakeSound
  <1>2. /\ chunks[Ptr] \in Nat /\ chunks[Ptr] + n \in 0 .. MaxChunks
        /\ ptrs \in Seq(Pos) /\ restP \in Seq(Pos) /\ Len(ptrs) = k
        /\ IsInjective(ptrs) /\ IsInjective(restP)
        /\ Range(ptrs) \subseteq domP /\ Range(restP) \subseteq domP
        /\ Allocated(Ptr) \subseteq domP
        /\ Range(ptrs) \cap Range(restP) = {}
        /\ Range(ptrs) \cap Live(Ptr) = {}
        /\ domP \ Range(restP) = Live(Ptr) \cup Range(ptrs)
        /\ Range(restP) \subseteq Range(free[Ptr]) \cup (domP \ Allocated(Ptr))
    <2>1. Grows(Ptr, k, n)
      BY DEF Create
    <2>. QED
      BY <1>0, <2>1, TakeSound
  <1>3. /\ registered' = registered
        /\ chunks' = [chunks EXCEPT ![id] = @ + m, ![Ptr] = @ + n]
        /\ free' = [free EXCEPT ![id] = restE, ![Ptr] = restP]
        /\ status' = [status EXCEPT
              ![id] = Stored(@, domE, ENT_NONE, ents, Constantly(st, k)),
              ![Ptr] = Stored(@, domP, ENT_NONE, ptrs, Constantly(ENT_ALIVE, k))]
        /\ link' = [link EXCEPT
              ![id] = Stored(@, domE, NoPos, ents, ptrs),
              ![Ptr] = Stored(@, domP, NoPos, ptrs, ents)]
        /\ poolId' = Stored(poolId, domP, 0, ptrs, Constantly(id % PoolIdRange, k))
        /\ data' = [data EXCEPT ![id] = Stored(@, domE, 0, <<>>, <<>>)]
    BY DEF Create
  <1>. HIDE DEF ents, ptrs, restE, restP, domE, domP
  <1>4. /\ Allocated(id)' = domE /\ Allocated(Ptr)' = domP
        /\ \A x \in Stores \ {id, Ptr} : Allocated(x)' = Allocated(x)
    BY <1>0, <1>3 DEF Allocated, TypeOK, domE, domP
  <1>5. /\ free'[id] = restE /\ free'[Ptr] = restP
        /\ \A x \in Stores \ {id, Ptr} : free'[x] = free[x]
    BY <1>0, <1>3 DEF TypeOK
  <1>6. /\ Live(id)' = Live(id) \cup Range(ents)
        /\ Live(Ptr)' = Live(Ptr) \cup Range(ptrs)
        /\ \A x \in Stores \ {id, Ptr} : Live(x)' = Live(x)
    BY <1>1, <1>2, <1>4, <1>5 DEF Live
  \* The columns after the step: what was stored, and what was kept.
  <1>7. /\ status'[id] \in [domE -> Statuses]
        /\ \A p \in domE \ Range(ents) :
              status'[id][p] = IF p \in Allocated(id) THEN status[id][p] ELSE ENT_NONE
    <2>1. status[id] \in [Allocated(id) -> Statuses] /\ ENT_NONE \in Statuses
      BY <1>0, ValuesAssumption DEF TypeOK
    <2>2. \A j \in 1 .. Len(ents) : Constantly(st, k)[j] \in Statuses
      BY <1>1 DEF Constantly
    <2>3. status'[id] = Stored(status[id], domE, ENT_NONE, ents, Constantly(st, k))
      BY <1>0, <1>3 DEF TypeOK
    <2>4. \A p \in DOMAIN status[id] : status[id][p] \in Statuses
      BY <2>1
    <2>5. Stored(status[id], domE, ENT_NONE, ents, Constantly(st, k)) \in [domE -> Statuses]
      BY <1>1, <2>1, <2>2, <2>4, StoredTyped
    <2>6. \A j \in 1 .. Len(ents) :
             Stored(status[id], domE, ENT_NONE, ents, Constantly(st, k))[ents[j]] = Constantly(st, k)[j]
      BY <1>1, StoredAt
    <2>7. \A p \in domE \ Range(ents) :
                /\ p \in DOMAIN status[id] => Stored(status[id], domE, ENT_NONE, ents, Constantly(st, k))[p] = status[id][p]
                /\ p \notin DOMAIN status[id] => Stored(status[id], domE, ENT_NONE, ents, Constantly(st, k))[p] = ENT_NONE
      BY DEF Stored
    <2>. QED
      BY <1>1, <1>3, <2>1, <2>2, <2>3, <2>5, <2>6, <2>7
  <1>8. status'[Ptr] \in [domP -> Statuses]
    <2>1. status[Ptr] \in [Allocated(Ptr) -> Statuses] /\ ENT_NONE \in Statuses
          /\ ENT_ALIVE \in Statuses
      BY <1>0, ValuesAssumption DEF TypeOK
    <2>2. \A j \in 1 .. Len(ptrs) : Constantly(ENT_ALIVE, k)[j] \in Statuses
      BY <1>2, <2>1 DEF Constantly
    <2>3. status'[Ptr] = Stored(status[Ptr], domP, ENT_NONE, ptrs, Constantly(ENT_ALIVE, k))
      BY <1>0, <1>3 DEF TypeOK
    <2>4. \A p \in DOMAIN status[Ptr] : status[Ptr][p] \in Statuses
      BY <2>1
    <2>5. Stored(status[Ptr], domP, ENT_NONE, ptrs, Constantly(ENT_ALIVE, k)) \in [domP -> Statuses]
      BY <1>2, <2>1, <2>2, <2>4, StoredTyped
    <2>. QED
      BY <1>2, <2>1, <2>3, <2>5, StoredAt
  <1>9. /\ link'[id] \in [domE -> Pos]
        /\ \A j \in 1 .. k : link'[id][ents[j]] = ptrs[j]
        /\ \A p \in domE \ Range(ents) :
              link'[id][p] = IF p \in Allocated(id) THEN link[id][p] ELSE NoPos
    <2>1. link[id] \in [Allocated(id) -> Pos] /\ NoPos \in Pos
      BY <1>0 DEF TypeOK, NoPos, Pos
    <2>2. \A j \in 1 .. Len(ents) : ptrs[j] \in Pos
      BY <1>1, <1>2, LenProperties
    <2>3. link'[id] = Stored(link[id], domE, NoPos, ents, ptrs)
      BY <1>0, <1>3 DEF TypeOK
    <2>4. \A p \in DOMAIN link[id] : link[id][p] \in Pos
      BY <2>1
    <2>5. Stored(link[id], domE, NoPos, ents, ptrs) \in [domE -> Pos]
      BY <1>1, <2>1, <2>2, <2>4, StoredTyped
    <2>6. \A j \in 1 .. Len(ents) :
             Stored(link[id], domE, NoPos, ents, ptrs)[ents[j]] = ptrs[j]
      BY <1>1, StoredAt
    <2>7. \A p \in domE \ Range(ents) :
                /\ p \in DOMAIN link[id] => Stored(link[id], domE, NoPos, ents, ptrs)[p] = link[id][p]
                /\ p \notin DOMAIN link[id] => Stored(link[id], domE, NoPos, ents, ptrs)[p] = NoPos
      BY DEF Stored
    <2>. QED
      BY <1>1, <1>3, <2>1, <2>2, <2>3, <2>5, <2>6, <2>7
  <1>10. /\ link'[Ptr] \in [domP -> Pos]
         /\ \A j \in 1 .. k : link'[Ptr][ptrs[j]] = ents[j]
         /\ \A p \in domP \ Range(ptrs) :
               link'[Ptr][p] = IF p \in Allocated(Ptr) THEN link[Ptr][p] ELSE NoPos
    <2>1. link[Ptr] \in [Allocated(Ptr) -> Pos] /\ NoPos \in Pos
      BY <1>0 DEF TypeOK, NoPos, Pos
    <2>2. \A j \in 1 .. Len(ptrs) : ents[j] \in Pos
      BY <1>1, <1>2, LenProperties
    <2>3. link'[Ptr] = Stored(link[Ptr], domP, NoPos, ptrs, ents)
      BY <1>0, <1>3 DEF TypeOK
    <2>4. \A p \in DOMAIN link[Ptr] : link[Ptr][p] \in Pos
      BY <2>1
    <2>5. Stored(link[Ptr], domP, NoPos, ptrs, ents) \in [domP -> Pos]
      BY <1>2, <2>1, <2>2, <2>4, StoredTyped
    <2>6. \A j \in 1 .. Len(ptrs) :
             Stored(link[Ptr], domP, NoPos, ptrs, ents)[ptrs[j]] = ents[j]
      BY <1>2, StoredAt
    <2>7. \A p \in domP \ Range(ptrs) :
                /\ p \in DOMAIN link[Ptr] => Stored(link[Ptr], domP, NoPos, ptrs, ents)[p] = link[Ptr][p]
                /\ p \notin DOMAIN link[Ptr] => Stored(link[Ptr], domP, NoPos, ptrs, ents)[p] = NoPos
      BY DEF Stored
    <2>. QED
      BY <1>2, <1>3, <2>1, <2>2, <2>3, <2>5, <2>6, <2>7
  <1>11. /\ poolId' \in [domP -> 0 .. PoolIdRange - 1]
         /\ \A j \in 1 .. k : poolId'[ptrs[j]] = id
         /\ \A p \in domP \ Range(ptrs) :
               poolId'[p] = IF p \in Allocated(Ptr) THEN poolId[p] ELSE 0
    <2>1. poolId \in [Allocated(Ptr) -> 0 .. PoolIdRange - 1] /\ 0 \in 0 .. PoolIdRange - 1
      <3>1. PoolIdRange \in Nat \ {0}
        BY PoolsAssumption
      <3>2. 0 \in 0 .. PoolIdRange - 1
        BY <3>1
      <3>3. poolId \in [Allocated(Ptr) -> 0 .. PoolIdRange - 1]
        BY <1>0, Zenon DEF TypeOK
      <3>. QED
        BY <3>2, <3>3
    <2>2. \A j \in 1 .. k : /\ Constantly(id % PoolIdRange, k)[j] = id
                            /\ Constantly(id % PoolIdRange, k)[j] \in 0 .. PoolIdRange - 1
      BY DEF Constantly
    <2>3. \A p \in DOMAIN poolId : poolId[p] \in 0 .. PoolIdRange - 1
      BY <2>1
    <2>4. Stored(poolId, domP, 0, ptrs, Constantly(id % PoolIdRange, k))
            \in [domP -> 0 .. PoolIdRange - 1]
      BY <1>2, <2>1, <2>2, <2>3, StoredTyped
    <2>5. \A j \in 1 .. Len(ptrs) :
             Stored(poolId, domP, 0, ptrs, Constantly(id % PoolIdRange, k))[ptrs[j]] = Constantly(id % PoolIdRange, k)[j]
      BY <1>2, StoredAt
    <2>6. \A p \in domP \ Range(ptrs) :
                /\ p \in DOMAIN poolId => Stored(poolId, domP, 0, ptrs, Constantly(id % PoolIdRange, k))[p] = poolId[p]
                /\ p \notin DOMAIN poolId => Stored(poolId, domP, 0, ptrs, Constantly(id % PoolIdRange, k))[p] = 0
      BY DEF Stored
    <2>. QED
      BY <1>2, <1>3, <2>1, <2>2, <2>4, <2>5, <2>6
  <1>12. /\ data'[id] \in [domE -> Data]
         /\ \A p \in domE : data'[id][p] = IF p \in Allocated(id) THEN data[id][p] ELSE 0
    <2>1. data[id] \in [Allocated(id) -> Data] /\ 0 \in Data
      BY <1>0, ValuesAssumption DEF TypeOK
    <2>2. data'[id] = Stored(data[id], domE, 0, <<>>, <<>>)
      BY <1>0, <1>3 DEF TypeOK
    <2>3. \A p \in domE : p \notin Range(<<>>)
      BY DEF Range
    <2>. QED
      BY <1>1, <2>1, <2>2, <2>3 DEF Stored
  <1>13. /\ DOMAIN status' = Stores /\ DOMAIN link' = Stores /\ DOMAIN data' = PoolIds
         /\ \A x \in Stores \ {id, Ptr} : status'[x] = status[x] /\ link'[x] = link[x]
         /\ \A i \in PoolIds \ {id} : data'[i] = data[i]
    BY <1>0, <1>3 DEF TypeOK
  <1>14. TypeOK'
    <2>1. registered' \in 0 .. NumPools
      BY <1>0, <1>3 DEF TypeOK
    <2>2. chunks' \in [Stores -> 0 .. MaxChunks] /\ free' \in [Stores -> Seq(Pos)]
      BY <1>0, <1>1, <1>2, <1>3 DEF TypeOK
    <2>3. ASSUME NEW x \in Stores
          PROVE  status'[x] \in [Allocated(x)' -> Statuses] /\ link'[x] \in [Allocated(x)' -> Pos]
      BY <1>0, <1>4, <1>7, <1>8, <1>9, <1>10, <1>13 DEF TypeOK
    <2>4. ASSUME NEW i \in PoolIds PROVE data'[i] \in [Allocated(i)' -> Data]
      BY <1>0, <1>4, <1>12, <1>13 DEF TypeOK
    <2>5. poolId' \in [Allocated(Ptr)' -> 0 .. PoolIdRange - 1]
      BY <1>4, <1>11
    <2>. QED
      BY <1>13, <2>1, <2>2, <2>3, <2>4, <2>5 DEF TypeOK
  <1>15. FreeListsSound'
    BY <1>0, <1>1, <1>2, <1>4, <1>5 DEF FreeListsSound
  <1>16. \A h \in Live(Ptr) : h \in domP \ Range(ptrs) /\ h \in Allocated(Ptr)
    BY <1>2 DEF Live
  <1>17. \A p \in Live(id) : p \in domE \ Range(ents) /\ p \in Allocated(id)
    BY <1>1 DEF Live
  <1>18. ASSUME NEW h \in Live(Ptr)'
         PROVE  (/\ poolId[h] \in 0 .. registered - 1
                 /\ link[Ptr][h] \in Live(poolId[h])
                 /\ link[poolId[h]][link[Ptr][h]] = h)'
    <2>1. CASE h \in Range(ptrs)
      <3>1. PICK j \in 1 .. k : h = ptrs[j]
        BY <1>2, <2>1, LenProperties DEF Range
      <3>2. poolId'[h] = id /\ link'[Ptr][h] = ents[j] /\ link'[id][ents[j]] = h
        BY <1>9, <1>10, <1>11, <3>1
      <3>3. ents[j] \in Range(ents)
        BY <1>1, LenProperties DEF Range
      <3>. QED
        BY <1>0, <1>3, <1>6, <3>2, <3>3 DEF TypeOK, PoolIds
    <2>2. CASE h \in Live(Ptr)
      <3>1. poolId'[h] = poolId[h] /\ link'[Ptr][h] = link[Ptr][h]
        BY <1>10, <1>11, <1>16, <2>2
      <3>2. /\ poolId[h] \in 0 .. registered - 1
            /\ link[Ptr][h] \in Live(poolId[h])
            /\ link[poolId[h]][link[Ptr][h]] = h
        BY <1>0, <2>2 DEF HandlesAndEntitiesPaired
      <3>3. poolId[h] \in PoolIds
        <4>1. registered \in 0 .. NumPools /\ NumPools \in Nat
          BY <1>0, PoolsAssumption DEF TypeOK
        <4>. QED
          BY <3>2, <4>1 DEF PoolIds
      <3>4. CASE poolId[h] = id
        BY <1>3, <1>6, <1>9, <1>17, <3>1, <3>2, <3>4
      <3>5. CASE poolId[h] # id
        BY <1>3, <1>6, <1>13, <3>1, <3>2, <3>3, <3>5
      <3>. QED
        BY <3>4, <3>5
    <2>. QED
      BY <1>6, <2>1, <2>2
  <1>19. ASSUME NEW i \in PoolIds, NEW p \in Live(i)'
         PROVE  (/\ link[i][p] \in Live(Ptr)
                 /\ poolId[link[i][p]] = i
                 /\ link[Ptr][link[i][p]] = p)'
    <2>1. CASE i = id /\ p \in Range(ents)
      <3>1. PICK j \in 1 .. k : p = ents[j]
        BY <1>1, <2>1, LenProperties DEF Range
      <3>2. link'[id][p] = ptrs[j] /\ poolId'[ptrs[j]] = id /\ link'[Ptr][ptrs[j]] = p
        BY <1>9, <1>10, <1>11, <3>1
      <3>3. ptrs[j] \in Range(ptrs)
        BY <1>2, LenProperties DEF Range
      <3>. QED
        BY <1>6, <2>1, <3>2, <3>3
    <2>2. CASE p \in Live(i)
      <3>1. link'[i][p] = link[i][p]
        BY <1>9, <1>13, <1>17, <2>2
      <3>2. /\ link[i][p] \in Live(Ptr)
            /\ poolId[link[i][p]] = i
            /\ link[Ptr][link[i][p]] = p
        BY <1>0, <2>2 DEF HandlesAndEntitiesPaired
      <3>. QED
        BY <1>6, <1>10, <1>11, <1>16, <3>1, <3>2
    <2>. QED
      BY <1>6, <2>1, <2>2
  <1>20. HandlesAndEntitiesPaired'
    BY <1>18, <1>19 DEF HandlesAndEntitiesPaired
  <1>21. ASSUME NEW fresh \in Fresh, Clean(fresh), NEW i \in PoolIds,
                NEW p \in Range(free'[i])
         PROVE  status'[i][p] = ENT_NONE /\ link'[i][p] = NoPos /\ data'[i][p] \in fresh[i]
    <2>0. 0 \in fresh[id]
      BY DEF Fresh
    <2>1. CASE i # id
      BY <1>5, <1>13, <1>21, <2>1 DEF Clean, FreeSlotsAreFree
    <2>2. CASE i = id
      <3>1. p \in domE \ Range(ents) /\ (p \in Range(free[id]) \/ p \notin Allocated(id))
        BY <1>1, <1>5, <2>2
      <3>2. CASE p \in Allocated(id)
        BY <1>7, <1>9, <1>12, <1>21, <2>2, <3>1, <3>2 DEF Clean, FreeSlotsAreFree
      <3>3. CASE p \notin Allocated(id)
        BY <1>7, <1>9, <1>12, <2>0, <2>2, <3>1, <3>3
      <3>. QED
        BY <3>2, <3>3
    <2>. QED
      BY <2>1, <2>2
  <1>22. KeepsClean
    <2>1. ASSUME NEW fresh \in Fresh, Clean(fresh) PROVE Clean(fresh)'
      BY <1>21, <2>1 DEF Clean, FreeSlotsAreFree
    <2>2. ASSUME NEW fresh \in Fresh, Clean(fresh), NEW i \in PoolIds,
                 NEW p \in Live(i)' \ Live(i)
          PROVE  data'[i][p] \in fresh[i]
      <3>0. 0 \in fresh[id]
        BY DEF Fresh
      <3>1. i = id /\ p \in Range(ents) /\ p \in domE
        BY <1>1, <1>6, <2>2
      <3>2. p \in Allocated(id) => p \in Range(free[id])
        BY <2>2, <3>1 DEF Live
      <3>3. p \in Allocated(id) => data[id][p] \in fresh[id]
        BY <2>2, <3>2 DEF Clean
      <3>. QED
        BY <1>12, <3>0, <3>1, <3>3
    <2>. QED
      BY <2>1, <2>2 DEF KeepsClean, StartIn
  <1>23. \A h \in Live(Ptr) : Handles'[h] = Handles[h]
    <2>1. ASSUME NEW h \in Live(Ptr) PROVE poolId'[h] = poolId[h] /\ link'[Ptr][h] = link[Ptr][h]
      BY <1>10, <1>11, <1>16
    <2>. QED
      BY <1>6, <2>1 DEF Handles
  <1>24. \A h \in Range(ptrs) : Handles'[h][1] = id
    <2>1. ASSUME NEW h \in Range(ptrs) PROVE poolId'[h] = id
      <3>1. PICK j \in 1 .. k : h = ptrs[j]
        BY <1>2, LenProperties DEF Range
      <3>. QED
        BY <1>11, <3>1
    <2>. QED
      BY <1>6, <2>1 DEF Handles
  <1>25. Abstract!IsInjectiveTable(Handles)'
    BY <1>20, HandlesAreInjective, PTL
  <1>26. Abstract!Add(id)
    <2>1. DOMAIN Handles = Live(Ptr) /\ DOMAIN Handles' = Live(Ptr)'
      BY DEF Handles
    <2>. QED
      BY <1>6, <1>23, <1>24, <1>25, <2>1 DEF Abstract!Add, Abstract!Kept, Abstract!IsInjectiveTable
  <1>. QED
    BY <1>14, <1>15, <1>20, <1>22, <1>26 DEF Sound

\* registerEntityPool preserves the invariant and changes no handle.
LEMMA RegisterStep ==
  ASSUME Sound, RegisterEntityPool
  PROVE  Sound' /\ KeepsClean /\ Handles' = Handles
  <1>. USE StoresAreDistinct
  <1>1. /\ registered' = registered + 1 /\ registered' \in 0 .. NumPools
        /\ UNCHANGED <<chunks, free, status, link, poolId, data>>
        /\ registered \in 0 .. NumPools
    BY PoolsAssumption DEF Sound, TypeOK, RegisterEntityPool
  <1>2. \A x \in Stores : Allocated(x)' = Allocated(x) /\ Live(x)' = Live(x)
    BY <1>1 DEF Allocated, Live
  <1>3. \A i \in 0 .. registered - 1 : i \in 0 .. registered' - 1 /\ i \in PoolIds
    BY <1>1, PoolsAssumption DEF PoolIds
  <1>4. TypeOK'
    BY <1>1, <1>2 DEF Sound, TypeOK
  <1>5. FreeListsSound' /\ KeepsClean
    BY <1>1, <1>2
       DEF Sound, FreeListsSound, Clean, FreeSlotsAreFree, KeepsClean, StartIn
  <1>6. HandlesAndEntitiesPaired'
    BY <1>1, <1>2, <1>3 DEF Sound, HandlesAndEntitiesPaired
  <1>7. Handles' = Handles
    BY <1>1, <1>2 DEF Handles
  <1>. QED
    BY <1>4, <1>5, <1>6, <1>7 DEF Sound

\* Writing a component of a live entity preserves the invariant.
LEMMA SetDataStep ==
  ASSUME Sound, NEW id \in PoolIds, NEW p \in Live(id), NEW v \in Data, SetData(id, p, v)
  PROVE  Sound' /\ KeepsClean /\ Handles' = Handles
  <1>. USE StoresAreDistinct
  <1>1. /\ data' = [data EXCEPT ![id][p] = v]
        /\ UNCHANGED <<registered, chunks, free, status, link, poolId>>
    BY DEF SetData
  <1>2. \A x \in Stores : Allocated(x)' = Allocated(x) /\ Live(x)' = Live(x)
    BY <1>1 DEF Allocated, Live
  <1>3. DOMAIN data = PoolIds /\ \A i \in PoolIds : data[i] \in [Allocated(i) -> Data]
    BY DEF Sound, TypeOK
  <1>4. /\ DOMAIN data' = PoolIds
        /\ \A i \in PoolIds \ {id} : data'[i] = data[i]
        /\ data'[id] \in [Allocated(id) -> Data]
        /\ \A q \in Allocated(id) \ {p} : data'[id][q] = data[id][q]
    BY <1>1, <1>3
  <1>5. TypeOK'
    BY <1>1, <1>2, <1>3, <1>4 DEF Sound, TypeOK
  <1>6. FreeListsSound' /\ HandlesAndEntitiesPaired'
    <2>1. FreeListsSound'
      BY <1>1, <1>2 DEF Sound, FreeListsSound
    <2>2. \A i \in 0 .. registered - 1 : i \in Stores
      BY PoolsAssumption DEF Sound, TypeOK, Stores, PoolIds
    <2>3. HandlesAndEntitiesPaired'
      BY <1>1, <1>2, <2>2 DEF Sound, HandlesAndEntitiesPaired
    <2>. QED
      BY <2>1, <2>3
  <1>7. ASSUME NEW i \in PoolIds, NEW q \in Range(free[i])
        PROVE  data'[i][q] = data[i][q]
    <2>2. i = id => q # p /\ q \in Allocated(id)
      BY DEF Live, Sound, FreeListsSound
    <2>. QED
      BY <1>4, <2>2
  <1>8. KeepsClean
    BY <1>1, <1>2, <1>7 DEF Clean, FreeSlotsAreFree, KeepsClean, StartIn
  <1>9. Handles' = Handles
    BY <1>1, <1>2 DEF Handles
  <1>. QED
    BY <1>5, <1>6, <1>8, <1>9 DEF Sound

\* deleteEverything preserves the invariant and leaves no handle.
LEMMA DeleteEverythingStep ==
  ASSUME Sound, DeleteEverything
  PROVE  Sound' /\ KeepsClean /\ Abstract!Clear
  <1>. DEFINE gone == {x \in Stores : x < registered}
  <1>. USE StoresAreDistinct
  <1>0. registered \in 0 .. NumPools /\ TypeOK
    BY DEF Sound, TypeOK
  <1>1. /\ Ptr \in gone
        /\ \A x \in Stores : x \notin gone => x \in PoolIds /\ x \notin 0 .. registered - 1
    BY <1>0, PoolsAssumption DEF Stores, PoolIds, Ptr
  <1>2. /\ registered' = registered
        /\ poolId' = [p \in {} |-> 0]
        /\ \A x \in gone : /\ chunks'[x] = 0 /\ free'[x] = <<>>
                           /\ status'[x] = [p \in {} |-> ENT_NONE]
                           /\ link'[x] = [p \in {} |-> NoPos]
        /\ \A x \in Stores \ gone : /\ chunks'[x] = chunks[x] /\ free'[x] = free[x]
                                    /\ status'[x] = status[x] /\ link'[x] = link[x]
        /\ \A id \in PoolIds : data'[id] = IF id \in gone THEN [p \in {} |-> 0] ELSE data[id]
        /\ DOMAIN chunks' = Stores /\ DOMAIN free' = Stores
        /\ DOMAIN status' = Stores /\ DOMAIN link' = Stores /\ DOMAIN data' = PoolIds
    BY <1>0 DEF DeleteEverything, Emptied, TypeOK
  <1>3. /\ chunks' \in [Stores -> 0 .. MaxChunks] /\ free' \in [Stores -> Seq(Pos)]
    <2>1. chunks' = [x \in Stores |-> IF x \in gone THEN 0 ELSE chunks[x]]
      BY <1>0 DEF DeleteEverything, Emptied, TypeOK
    <2>2. free' = [x \in Stores |-> IF x \in gone THEN <<>> ELSE free[x]]
      BY <1>0 DEF DeleteEverything, Emptied, TypeOK
    <2>3. chunks \in [Stores -> 0 .. MaxChunks] /\ free \in [Stores -> Seq(Pos)]
      BY <1>0 DEF TypeOK
    <2>4. 0 \in 0 .. MaxChunks /\ <<>> \in Seq(Pos)
      BY ValuesAssumption
    <2>. QED
      BY <2>1, <2>2, <2>3, <2>4
  <1>. HIDE DEF gone
  <1>4. /\ \A x \in gone : Allocated(x)' = {} /\ Live(x)' = {} /\ Range(free'[x]) = {}
        /\ \A x \in Stores \ gone : Allocated(x)' = Allocated(x) /\ Live(x)' = Live(x)
    BY <1>2 DEF Allocated, Live, Slots, Range
  <1>5. TypeOK'
    <2>1. ASSUME NEW x \in Stores
          PROVE  status'[x] \in [Allocated(x)' -> Statuses] /\ link'[x] \in [Allocated(x)' -> Pos]
      <3>1. CASE x \in gone
        BY <1>2, <1>4, <3>1
      <3>2. CASE x \notin gone
        BY <1>0, <1>2, <1>4, <3>2 DEF TypeOK
      <3>. QED
        BY <3>1, <3>2
    <2>2. ASSUME NEW i \in PoolIds PROVE data'[i] \in [Allocated(i)' -> Data]
      <3>1. CASE i \in gone
        BY <1>2, <1>4, <3>1
      <3>2. CASE i \notin gone
        BY <1>0, <1>2, <1>4, <3>2 DEF TypeOK
      <3>. QED
        BY <3>1, <3>2
    <2>3. poolId' \in [Allocated(Ptr)' -> 0 .. PoolIdRange - 1]
      BY <1>1, <1>2, <1>4
    <2>. QED
      BY <1>0, <1>2, <1>3, <2>1, <2>2, <2>3 DEF TypeOK
  <1>6. FreeListsSound'
    <2>1. ASSUME NEW x \in Stores
          PROVE  Range(free'[x]) \subseteq Allocated(x)' /\ IsInjective(free'[x])
      <3>1. CASE x \in gone
        BY <1>2, <1>4, <3>1 DEF IsInjective
      <3>2. CASE x \notin gone
        BY <1>2, <1>4, <3>2 DEF Sound, FreeListsSound
      <3>. QED
        BY <3>1, <3>2
    <2>. QED
      BY <2>1 DEF FreeListsSound
  \* A pool that is not registered yet holds no entity.
  <1>7. \A x \in Stores \ gone : Live(x) = {}
    BY <1>1 DEF Sound, HandlesAndEntitiesPaired
  <1>8. HandlesAndEntitiesPaired'
    BY <1>1, <1>4, <1>7 DEF HandlesAndEntitiesPaired
  <1>9. KeepsClean
    <2>1. ASSUME NEW fresh \in Fresh, Clean(fresh) PROVE Clean(fresh)'
      <3>1. ASSUME NEW i \in PoolIds, NEW p \in Range(free'[i])
            PROVE  status'[i][p] = ENT_NONE /\ link'[i][p] = NoPos /\ data'[i][p] \in fresh[i]
        <4>1. i \in Stores \ gone
          BY <1>4
        <4>2. /\ free'[i] = free[i] /\ status'[i] = status[i] /\ link'[i] = link[i]
              /\ data'[i] = data[i]
          BY <1>2, <4>1
        <4>. QED
          BY <2>1, <4>2 DEF Clean, FreeSlotsAreFree
      <3>. QED
        BY <3>1 DEF Clean, FreeSlotsAreFree
    <2>2. ASSUME NEW fresh \in Fresh PROVE StartIn(fresh)
      BY <1>4 DEF StartIn
    <2>. QED
      BY <2>1, <2>2 DEF KeepsClean
  <1>10. Abstract!Clear
    BY <1>1, <1>4 DEF Abstract!Clear, Abstract!Empty, Handles
  <1>. QED
    BY <1>5, <1>6, <1>8, <1>9, <1>10 DEF Sound

\* Growing a pool preserves the invariant and changes no handle.
LEMMA AddChunkStep ==
  ASSUME Sound, NEW id \in PoolIds, AddChunk(id)
  PROVE  Sound' /\ KeepsClean /\ Handles' = Handles
  <1>. DEFINE dom == Slots(id, chunks[id] + 1)
  <1>. USE StoresAreDistinct
  <1>0. TypeOK /\ FreeListsSound /\ HandlesAndEntitiesPaired
    BY DEF Sound
  <1>1. /\ chunks[id] \in Nat /\ chunks[id] + 1 \in 0 .. MaxChunks
        /\ chunks' = [chunks EXCEPT ![id] = @ + 1]
        /\ free' = [free EXCEPT ![id] = Grown(id, 1)]
        /\ status' = [status EXCEPT ![id] = Stored(@, dom, ENT_NONE, <<>>, <<>>)]
        /\ link' = [link EXCEPT ![id] = Stored(@, dom, NoPos, <<>>, <<>>)]
        /\ data' = [data EXCEPT ![id] = Stored(@, dom, 0, <<>>, <<>>)]
        /\ UNCHANGED <<registered, poolId>>
    BY <1>0, ValuesAssumption DEF AddChunk, TypeOK
  <1>2. /\ Grown(id, 1) \in Seq(Pos)
        /\ IsInjective(Grown(id, 1))
        /\ Range(Grown(id, 1)) = Range(free[id]) \cup (dom \ Allocated(id))
        /\ Allocated(id) \subseteq dom
        /\ Range(free[id]) \subseteq Allocated(id)
    <2>1. /\ free[id] \in Seq(Pos) /\ IsInjective(free[id])
          /\ Range(free[id]) \subseteq Allocated(id)
      BY <1>0 DEF TypeOK, FreeListsSound
    <2>2. /\ NewPositions(id, 1) \in Seq(Pos) /\ IsInjective(NewPositions(id, 1))
          /\ Range(NewPositions(id, 1)) = dom \ Allocated(id)
          /\ Allocated(id) \subseteq dom
      BY <1>1, NewPositionsSound
    <2>3. Range(free[id]) \cap Range(NewPositions(id, 1)) = {}
      BY <2>1, <2>2
    <2>. QED
      BY <2>1, <2>2, <2>3, ConcatSound DEF Grown
  <1>. HIDE DEF dom
  <1>3. /\ Allocated(id)' = dom
        /\ \A x \in Stores \ {id} : Allocated(x)' = Allocated(x)
    BY <1>0, <1>1 DEF Allocated, TypeOK, dom
  <1>4. /\ free'[id] = Grown(id, 1)
        /\ \A x \in Stores \ {id} : /\ free'[x] = free[x]
                                    /\ status'[x] = status[x]
                                    /\ link'[x] = link[x]
        /\ \A i \in PoolIds \ {id} : data'[i] = data[i]
        /\ DOMAIN status' = Stores /\ DOMAIN link' = Stores /\ DOMAIN data' = PoolIds
    BY <1>0, <1>1 DEF TypeOK
  <1>5. \A x \in Stores : Live(x)' = Live(x)
    <2>1. Live(id)' = Live(id)
      BY <1>2, <1>3, <1>4 DEF Live
    <2>. QED
      BY <1>3, <1>4, <2>1 DEF Live
  <1>6. /\ status[id] \in [Allocated(id) -> Statuses]
        /\ link[id] \in [Allocated(id) -> Pos]
        /\ data[id] \in [Allocated(id) -> Data]
    BY <1>0 DEF TypeOK
  <1>7. /\ status'[id] = [p \in dom |-> IF p \in Allocated(id) THEN status[id][p] ELSE ENT_NONE]
        /\ link'[id] = [p \in dom |-> IF p \in Allocated(id) THEN link[id][p] ELSE NoPos]
        /\ data'[id] = [p \in dom |-> IF p \in Allocated(id) THEN data[id][p] ELSE 0]
    <2>1. Range(<<>>) = {}
      BY DEF Range
    <2>2. /\ status'[id] = Stored(status[id], dom, ENT_NONE, <<>>, <<>>)
          /\ link'[id] = Stored(link[id], dom, NoPos, <<>>, <<>>)
          /\ data'[id] = Stored(data[id], dom, 0, <<>>, <<>>)
      BY <1>0, <1>1 DEF TypeOK
    <2>. QED
      BY <1>6, <2>1, <2>2 DEF Stored
  <1>8. TypeOK'
    <2>1. ENT_NONE \in Statuses /\ NoPos \in Pos /\ 0 \in Data
      BY ValuesAssumption DEF NoPos, Pos
    <2>2. /\ status'[id] \in [dom -> Statuses]
          /\ link'[id] \in [dom -> Pos]
          /\ data'[id] \in [dom -> Data]
      BY <1>6, <1>7, <2>1
    <2>3. chunks' \in [Stores -> 0 .. MaxChunks] /\ free' \in [Stores -> Seq(Pos)]
      BY <1>0, <1>1, <1>2 DEF TypeOK
    <2>4. poolId' \in [Allocated(Ptr)' -> 0 .. PoolIdRange - 1] /\ registered' \in 0 .. NumPools
      BY <1>0, <1>1, <1>3 DEF TypeOK
    <2>5. ASSUME NEW x \in Stores
          PROVE  status'[x] \in [Allocated(x)' -> Statuses] /\ link'[x] \in [Allocated(x)' -> Pos]
      BY <1>0, <1>3, <1>4, <2>2 DEF TypeOK
    <2>6. ASSUME NEW i \in PoolIds PROVE data'[i] \in [Allocated(i)' -> Data]
      BY <1>0, <1>3, <1>4, <2>2 DEF TypeOK
    <2>. QED
      BY <1>4, <2>3, <2>4, <2>5, <2>6 DEF TypeOK
  <1>9. FreeListsSound'
    BY <1>0, <1>2, <1>3, <1>4 DEF FreeListsSound
  <1>10. HandlesAndEntitiesPaired'
    <2>1. \A x \in Stores : \A p \in Live(x) : link'[x][p] = link[x][p]
      BY <1>2, <1>4, <1>7 DEF Live
    <2>2. registered' = registered /\ poolId' = poolId
      BY <1>1
    <2>3. \A i \in 0 .. registered - 1 : i \in Stores
      BY <1>0, PoolsAssumption DEF TypeOK, Stores, PoolIds
    <2>4. ASSUME NEW h \in Live(Ptr)
          PROVE  /\ poolId[h] \in 0 .. registered - 1
                 /\ link'[Ptr][h] \in Live(poolId[h])'
                 /\ link'[poolId[h]][link'[Ptr][h]] = h
      <3>1. /\ poolId[h] \in 0 .. registered - 1
            /\ link[Ptr][h] \in Live(poolId[h])
            /\ link[poolId[h]][link[Ptr][h]] = h
        BY <1>0 DEF HandlesAndEntitiesPaired
      <3>. QED
        BY <1>1, <1>5, <2>1, <2>3, <3>1
    <2>5. ASSUME NEW i \in PoolIds, NEW p \in Live(i)
          PROVE  /\ link'[i][p] \in Live(Ptr)
                 /\ poolId[link'[i][p]] = i
                 /\ link'[Ptr][link'[i][p]] = p
      BY <1>0, <2>1 DEF HandlesAndEntitiesPaired
    <2>. QED
      BY <1>5, <2>2, <2>4, <2>5 DEF HandlesAndEntitiesPaired
  <1>11. ASSUME NEW fresh \in Fresh, Clean(fresh), NEW i \in PoolIds,
                NEW p \in Range(free'[i])
         PROVE  status'[i][p] = ENT_NONE /\ link'[i][p] = NoPos /\ data'[i][p] \in fresh[i]
    <2>0. 0 \in fresh[id]
      BY DEF Fresh
    <2>1. CASE i # id
      BY <1>4, <1>11, <2>1 DEF Clean, FreeSlotsAreFree
    <2>2. CASE i = id
      BY <1>2, <1>4, <1>7, <1>11, <2>0, <2>2 DEF Clean, FreeSlotsAreFree
    <2>. QED
      BY <2>1, <2>2
  <1>12. KeepsClean
    BY <1>5, <1>11 DEF Clean, FreeSlotsAreFree, KeepsClean, StartIn
  <1>13. Handles' = Handles
    BY <1>1, <1>4, <1>5 DEF Handles
  <1>. QED
    BY <1>8, <1>9, <1>10, <1>12, <1>13 DEF Sound

\* destroyEntity and destroyEntities preserve the invariant and remove handles.
LEMMA DestroyStep ==
  ASSUME Sound, NEW id \in PoolIds, NEW handles \in Seq(Live(Ptr)),
         IsBatchOf(id, handles), Destroy(id, handles)
  PROVE  Sound' /\ KeepsClean /\ Abstract!Remove(id)
  <1>. DEFINE ents == [j \in 1 .. Len(handles) |-> link[Ptr][handles[j]]]
  <1>. USE StoresAreDistinct
  <1>0. TypeOK /\ FreeListsSound /\ HandlesAndEntitiesPaired
    BY DEF Sound
  <1>1. /\ free' = [free EXCEPT ![Ptr] = @ \o handles, ![id] = @ \o ents]
        /\ status' = [status EXCEPT ![Ptr] = Reset(@, ENT_NONE, handles),
                                    ![id] = Reset(@, ENT_NONE, ents)]
        /\ link' = [link EXCEPT ![Ptr] = Reset(@, NoPos, handles),
                                ![id] = Reset(@, NoPos, ents)]
        /\ poolId' = Reset(poolId, 0, handles)
        /\ data' = [data EXCEPT ![id] = Reset(@, 0, ents)]
        /\ registered' = registered /\ chunks' = chunks
    BY DEF Destroy
  \* Each handle of the batch leads to a live entity of pool id and back.
  <1>2. /\ Len(handles) \in Nat /\ DOMAIN handles = 1 .. Len(handles)
        /\ IsInjective(handles)
        /\ \A j \in 1 .. Len(handles) :
              /\ handles[j] \in Live(Ptr)
              /\ poolId[handles[j]] = id
              /\ link[Ptr][handles[j]] \in Live(id)
              /\ link[id][link[Ptr][handles[j]]] = handles[j]
    <2>1. Len(handles) \in Nat /\ DOMAIN handles = 1 .. Len(handles) /\ IsInjective(handles)
      BY LenProperties DEF IsBatchOf
    <2>2. ASSUME NEW j \in 1 .. Len(handles)
          PROVE  handles[j] \in Live(Ptr) /\ poolId[handles[j]] = id
      BY <2>1 DEF IsBatchOf, Range
    <2>. QED
      BY <1>0, <2>1, <2>2 DEF HandlesAndEntitiesPaired
  <1>3. /\ \A x \in Stores : Allocated(x)' = Allocated(x)
        /\ \A x \in Stores : Live(x) \subseteq Allocated(x) /\ Allocated(x) \subseteq Pos
    <2>1. \A x \in Stores : chunks[x] \in Nat /\ ChunkSize[x] \in Nat
      BY <1>0, PoolsAssumption DEF TypeOK
    <2>. QED
      BY <1>1, <2>1 DEF Allocated, Live, Slots, Pos
  <1>4. /\ ents \in Seq(Pos) /\ Len(ents) = Len(handles)
        /\ DOMAIN ents = 1 .. Len(handles)
        /\ \A j \in 1 .. Len(handles) : ents[j] = link[Ptr][handles[j]]
        /\ IsInjective(ents)
        /\ Range(ents) \subseteq Live(id)
    <2>1. \A j \in 1 .. Len(handles) : ents[j] = link[Ptr][handles[j]] /\ ents[j] \in Live(id)
      BY <1>2
    <2>2. ents \in Seq(Pos) /\ Len(ents) = Len(handles) /\ DOMAIN ents = 1 .. Len(handles)
      BY <1>2, <1>3, <2>1
    <2>. HIDE DEF ents
    <2>3. ASSUME NEW a \in 1 .. Len(handles), NEW b \in 1 .. Len(handles), ents[a] = ents[b]
          PROVE  a = b
      <3>1. handles[a] = handles[b]
        BY <1>2, <2>1, <2>3
      <3>. QED
        BY <1>2, <3>1 DEF IsInjective
    <2>. QED
      BY <2>1, <2>2, <2>3 DEF IsInjective, Range
  <1>. HIDE DEF ents
  <1>5. /\ handles \in Seq(Pos) /\ Range(handles) \subseteq Live(Ptr)
        /\ \A h \in Range(handles) : poolId[h] = id
    <2>1. handles \in Seq(Pos)
      BY <1>3, SeqMonotonic
    <2>. QED
      BY <2>1 DEF IsBatchOf
  <1>6. /\ free[id] \o ents \in Seq(Pos) /\ IsInjective(free[id] \o ents)
        /\ Range(free[id] \o ents) = Range(free[id]) \cup Range(ents)
        /\ free[Ptr] \o handles \in Seq(Pos) /\ IsInjective(free[Ptr] \o handles)
        /\ Range(free[Ptr] \o handles) = Range(free[Ptr]) \cup Range(handles)
    <2>1. \A x \in Stores : free[x] \in Seq(Pos) /\ IsInjective(free[x])
      BY <1>0 DEF TypeOK, FreeListsSound
    <2>2. Range(free[id]) \cap Range(ents) = {} /\ Range(free[Ptr]) \cap Range(handles) = {}
      BY <1>4, <1>5 DEF Live
    <2>3. id \in Stores /\ Ptr \in Stores /\ IsInjective(handles)
      BY <1>2
    <2>4. free[id] \o ents \in Seq(Pos) /\ IsInjective(free[id] \o ents)
          /\ Range(free[id] \o ents) = Range(free[id]) \cup Range(ents)
      BY <1>4, <2>1, <2>2, <2>3, ConcatSound
    <2>5. free[Ptr] \o handles \in Seq(Pos) /\ IsInjective(free[Ptr] \o handles)
          /\ Range(free[Ptr] \o handles) = Range(free[Ptr]) \cup Range(handles)
      BY <1>5, <2>1, <2>2, <2>3, ConcatSound
    <2>. QED
      BY <2>4, <2>5
  <1>7. /\ free'[id] = free[id] \o ents /\ free'[Ptr] = free[Ptr] \o handles
        /\ status'[id] = Reset(status[id], ENT_NONE, ents)
        /\ status'[Ptr] = Reset(status[Ptr], ENT_NONE, handles)
        /\ link'[id] = Reset(link[id], NoPos, ents)
        /\ link'[Ptr] = Reset(link[Ptr], NoPos, handles)
        /\ data'[id] = Reset(data[id], 0, ents)
        /\ \A x \in Stores \ {id, Ptr} : /\ free'[x] = free[x]
                                         /\ status'[x] = status[x]
                                         /\ link'[x] = link[x]
        /\ \A i \in PoolIds \ {id} : data'[i] = data[i]
        /\ DOMAIN status' = Stores /\ DOMAIN link' = Stores /\ DOMAIN data' = PoolIds
    BY <1>0, <1>1 DEF TypeOK
  <1>8. /\ Live(id)' = Live(id) \ Range(ents)
        /\ Live(Ptr)' = Live(Ptr) \ Range(handles)
        /\ \A x \in Stores \ {id, Ptr} : Live(x)' = Live(x)
    BY <1>3, <1>6, <1>7 DEF Live
  <1>9. /\ \A x \in Stores : /\ status[x] \in [Allocated(x) -> Statuses]
                             /\ link[x] \in [Allocated(x) -> Pos]
        /\ \A i \in PoolIds : data[i] \in [Allocated(i) -> Data]
        /\ poolId \in [Allocated(Ptr) -> 0 .. PoolIdRange - 1]
    BY <1>0 DEF TypeOK
  <1>10. TypeOK'
    <2>1. ENT_NONE \in Statuses /\ NoPos \in Pos /\ 0 \in Data /\ 0 \in 0 .. PoolIdRange - 1
      BY PoolsAssumption, ValuesAssumption DEF NoPos, Pos
    <2>2. ASSUME NEW x \in Stores
          PROVE  status'[x] \in [Allocated(x)' -> Statuses] /\ link'[x] \in [Allocated(x)' -> Pos]
      <3>1. ASSUME NEW slots
            PROVE  /\ Reset(status[x], ENT_NONE, slots) \in [Allocated(x) -> Statuses]
                   /\ Reset(link[x], NoPos, slots) \in [Allocated(x) -> Pos]
        BY <1>9, <2>1 DEF Reset
      <3>2. CASE x = id
        BY <1>3, <1>7, <3>1, <3>2
      <3>3. CASE x = Ptr
        BY <1>3, <1>7, <3>1, <3>3
      <3>4. CASE x \notin {id, Ptr}
        BY <1>3, <1>7, <1>9, <3>4
      <3>. QED
        BY <3>2, <3>3, <3>4
    <2>3. ASSUME NEW i \in PoolIds PROVE data'[i] \in [Allocated(i)' -> Data]
      <3>1. ASSUME NEW slots
            PROVE  Reset(data[i], 0, slots) \in [Allocated(i) -> Data]
        BY <1>9, <2>1 DEF Reset
      <3>2. CASE i = id
        BY <1>3, <1>7, <3>1, <3>2
      <3>3. CASE i # id
        BY <1>3, <1>7, <1>9, <3>3
      <3>. QED
        BY <3>2, <3>3
    <2>4. poolId' \in [Allocated(Ptr)' -> 0 .. PoolIdRange - 1]
      BY <1>1, <1>3, <1>9, <2>1 DEF Reset
    <2>5. free' \in [Stores -> Seq(Pos)]
      BY <1>0, <1>1, <1>6 DEF TypeOK
    <2>. QED
      BY <1>0, <1>1, <1>7, <2>2, <2>3, <2>4, <2>5 DEF TypeOK
  <1>11. FreeListsSound'
    <2>1. ASSUME NEW x \in Stores
          PROVE  Range(free'[x]) \subseteq Allocated(x)' /\ IsInjective(free'[x])
      <3>1. Range(free[x]) \subseteq Allocated(x) /\ IsInjective(free[x])
        BY <1>0 DEF FreeListsSound
      <3>2. CASE x = id
        BY <1>3, <1>4, <1>6, <1>7, <3>1, <3>2
      <3>3. CASE x = Ptr
        BY <1>3, <1>5, <1>6, <1>7, <3>1, <3>3
      <3>4. CASE x \notin {id, Ptr}
        BY <1>3, <1>7, <3>1, <3>4
      <3>. QED
        BY <3>2, <3>3, <3>4
    <2>. QED
      BY <2>1 DEF FreeListsSound
  <1>12. /\ \A h \in Live(Ptr)' : link'[Ptr][h] = link[Ptr][h] /\ poolId'[h] = poolId[h]
         /\ \A i \in PoolIds : \A p \in Live(i)' : link'[i][p] = link[i][p]
    <2>1. ASSUME NEW h \in Live(Ptr)'
          PROVE  link'[Ptr][h] = link[Ptr][h] /\ poolId'[h] = poolId[h]
      <3>1. h \in Allocated(Ptr) /\ h \notin Range(handles)
        BY <1>3, <1>8
      <3>. QED
        BY <1>1, <1>7, <1>9, <3>1 DEF Reset
    <2>2. ASSUME NEW i \in PoolIds, NEW p \in Live(i)'
          PROVE  link'[i][p] = link[i][p]
      <3>1. CASE i = id
        <4>1. p \in Allocated(id) /\ p \notin Range(ents)
          BY <1>3, <1>8, <3>1
        <4>. QED
          BY <1>7, <1>9, <3>1, <4>1 DEF Reset
      <3>2. CASE i # id
        BY <1>7, <3>2
      <3>. QED
        BY <3>1, <3>2
    <2>. QED
      BY <2>1, <2>2
  <1>13. ASSUME NEW h \in Live(Ptr)'
         PROVE  (/\ poolId[h] \in 0 .. registered - 1
                 /\ link[Ptr][h] \in Live(poolId[h])
                 /\ link[poolId[h]][link[Ptr][h]] = h)'
    <2>1. h \in Live(Ptr) /\ h \notin Range(handles)
      BY <1>8
    <2>2. /\ poolId[h] \in 0 .. registered - 1
          /\ link[Ptr][h] \in Live(poolId[h])
          /\ link[poolId[h]][link[Ptr][h]] = h
      BY <1>0, <2>1 DEF HandlesAndEntitiesPaired
    <2>3. poolId[h] \in PoolIds
      <3>1. registered \in 0 .. NumPools /\ NumPools \in Nat
        BY <1>0, PoolsAssumption DEF TypeOK
      <3>. QED
        BY <2>2, <3>1 DEF PoolIds
    <2>4. poolId'[h] = poolId[h] /\ link'[Ptr][h] = link[Ptr][h]
      BY <1>12
    <2>5. (link[Ptr][h] \in Live(poolId[h]))'
      <3>1. CASE poolId[h] = id
        <4>1. ASSUME link[Ptr][h] \in Range(ents) PROVE FALSE
          <5>1. PICK j \in 1 .. Len(handles) : link[Ptr][h] = ents[j]
            BY <1>4, <4>1 DEF Range
          <5>2. h = handles[j]
            BY <1>2, <1>4, <2>2, <3>1, <5>1
          <5>. QED
            BY <1>2, <2>1, <5>2 DEF Range
        <4>. QED
          BY <1>8, <2>2, <2>4, <3>1, <4>1
      <3>2. CASE poolId[h] # id
        BY <1>8, <2>2, <2>3, <2>4, <3>2
      <3>. QED
        BY <3>1, <3>2
    <2>6. link'[poolId[h]][link[Ptr][h]] = link[poolId[h]][link[Ptr][h]]
      BY <1>12, <2>3, <2>4, <2>5
    <2>. QED
      BY <1>1, <2>2, <2>4, <2>5, <2>6
  <1>14. ASSUME NEW i \in PoolIds, NEW p \in Live(i)'
         PROVE  (/\ link[i][p] \in Live(Ptr)
                 /\ poolId[link[i][p]] = i
                 /\ link[Ptr][link[i][p]] = p)'
    <2>1. p \in Live(i) /\ (i = id => p \notin Range(ents))
      BY <1>8
    <2>2. /\ link[i][p] \in Live(Ptr)
          /\ poolId[link[i][p]] = i
          /\ link[Ptr][link[i][p]] = p
      BY <1>0, <2>1 DEF HandlesAndEntitiesPaired
    <2>3. link[i][p] \notin Range(handles)
      <3>1. ASSUME link[i][p] \in Range(handles) PROVE FALSE
        <4>1. PICK j \in 1 .. Len(handles) : link[i][p] = handles[j]
          BY <1>2, <3>1 DEF Range
        <4>2. i = id /\ p = ents[j]
          BY <1>2, <1>4, <2>2, <4>1
        <4>. QED
          BY <1>4, <2>1, <4>2 DEF Range
      <3>. QED
        BY <3>1
    <2>4. link[i][p] \in Live(Ptr)'
      BY <1>8, <2>2, <2>3
    <2>. QED
      BY <1>12, <2>2, <2>4
  <1>15. HandlesAndEntitiesPaired'
    BY <1>13, <1>14 DEF HandlesAndEntitiesPaired
  <1>16. ASSUME NEW fresh \in Fresh, Clean(fresh), NEW i \in PoolIds,
                NEW p \in Range(free'[i])
         PROVE  status'[i][p] = ENT_NONE /\ link'[i][p] = NoPos /\ data'[i][p] \in fresh[i]
    <2>0. 0 \in fresh[id]
      BY DEF Fresh
    <2>1. CASE i # id
      <3>1. i \in Stores \ {id, Ptr}
        BY <2>1
      <3>2. free'[i] = free[i] /\ status'[i] = status[i] /\ link'[i] = link[i] /\ data'[i] = data[i]
        BY <1>7, <2>1, <3>1
      <3>. QED
        BY <1>16, <3>2 DEF Clean, FreeSlotsAreFree
    <2>2. CASE i = id /\ p \in Range(ents)
      BY <1>3, <1>4, <1>7, <1>9, <2>0, <2>2 DEF Reset
    <2>3. CASE i = id /\ p \in Range(free[id]) /\ p \notin Range(ents)
      <3>1. p \in Allocated(id)
        BY <1>0, <2>3 DEF FreeListsSound
      <3>. QED
        BY <1>7, <1>9, <1>16, <2>0, <2>3, <3>1 DEF Reset, Clean, FreeSlotsAreFree
    <2>. QED
      BY <1>6, <1>7, <2>1, <2>2, <2>3
  <1>17. KeepsClean
    BY <1>8, <1>16 DEF Clean, FreeSlotsAreFree, KeepsClean, StartIn
  <1>18. Abstract!Remove(id)
    <2>1. DOMAIN Handles = Live(Ptr) /\ DOMAIN Handles' = Live(Ptr)'
      BY DEF Handles
    <2>2. \A h \in Live(Ptr)' : Handles'[h] = Handles[h]
      BY <1>8, <1>12 DEF Handles
    <2>3. \A h \in Live(Ptr) \ Live(Ptr)' : Handles[h][1] = id
      BY <1>5, <1>8 DEF Handles
    <2>. QED
      BY <1>8, <2>1, <2>2, <2>3 DEF Abstract!Remove, Abstract!Kept
  <1>. QED
    BY <1>10, <1>11, <1>15, <1>17, <1>18 DEF Sound

\* Every step preserves the invariant and is a step of the abstract table.
LEMMA NextStep == Sound /\ [Next]_vars => Sound' /\ KeepsClean /\ [Abstract!Next]_Handles
  <1>. DEFINE Goal == Sound' /\ KeepsClean /\ [Abstract!Next]_Handles
  <1>. SUFFICES ASSUME Sound, [Next]_vars PROVE Goal
    OBVIOUS
  <1>. USE StoresAreDistinct
  <1>1. CASE RegisterEntityPool
    BY <1>1, RegisterStep
  <1>2. ASSUME NEW id \in PoolIds, AddChunk(id) PROVE Goal
    BY <1>2, AddChunkStep
  <1>3. ASSUME NEW name \in Range(PoolName), NEW st \in CreatedAs, CreateEntity(name, st)
        PROVE  Goal
    <2>1. PICK id \in PoolIds, m \in 0 .. 1, n \in 0 .. 1 :
             IsPoolOf(id, name) /\ Create(id, 1, st, m, n)
      BY <1>3 DEF CreateEntity
    <2>2. id < registered /\ st \in Statuses
      BY <2>1, ValuesAssumption DEF IsPoolOf
    <2>. QED
      BY <2>1, <2>2, CreateStep DEF Abstract!Next
  <1>4. ASSUME NEW name \in Range(PoolName), NEW k \in 0 .. MaxBatch, NEW st \in CreatedAs,
               CreateEntities(name, k, st)
        PROVE  Goal
    <2>1. PICK id \in PoolIds, m \in 0 .. k, n \in 0 .. k :
             IsPoolOf(id, name) /\ Create(id, k, st, m, n)
      BY <1>4 DEF CreateEntities
    <2>2. id < registered /\ st \in Statuses /\ k \in Nat /\ m \in Nat /\ n \in Nat
      BY <2>1, ValuesAssumption DEF IsPoolOf
    <2>. QED
      BY <2>1, <2>2, CreateStep DEF Abstract!Next
  <1>5. ASSUME NEW h \in Live(Ptr), DestroyEntity(h) PROVE Goal
    <2>1. poolId[h] \in PoolIds
      <3>1. poolId[h] \in 0 .. registered - 1
        BY DEF Sound, HandlesAndEntitiesPaired
      <3>2. registered \in 0 .. NumPools /\ NumPools \in Nat
        BY PoolsAssumption DEF Sound, TypeOK
      <3>. QED
        BY <3>1, <3>2 DEF PoolIds
    <2>2. <<h>> \in Seq(Live(Ptr)) /\ Range(<<h>>) = {h} /\ IsInjective(<<h>>)
      BY DEF Range, IsInjective
    <2>3. IsBatchOf(poolId[h], <<h>>)
      BY <2>2 DEF IsBatchOf
    <2>. QED
      BY <1>5, <2>1, <2>2, <2>3, DestroyStep DEF DestroyEntity, Abstract!Next
  <1>6. ASSUME NEW name \in Range(PoolName), NEW handles \in Batches,
               DestroyEntities(handles, name)
        PROVE  Goal
    <2>1. PICK id \in PoolIds : IsBatchOf(id, handles) /\ Destroy(id, handles)
      BY <1>6 DEF DestroyEntities
    <2>2. handles \in Seq(Live(Ptr))
      BY ValuesAssumption DEF Batches
    <2>. QED
      BY <2>1, <2>2, DestroyStep DEF Abstract!Next
  <1>7. CASE DeleteEverything
    BY <1>7, DeleteEverythingStep DEF Abstract!Next
  <1>8. ASSUME NEW id \in PoolIds, NEW p \in Live(id), NEW v \in Data, SetData(id, p, v)
        PROVE  Goal
    BY <1>8, SetDataStep
  <1>9. CASE UNCHANGED vars
    <2>1. UNCHANGED <<registered, chunks, free, status, link, poolId, data>>
      BY <1>9 DEF vars
    <2>2. TypeOK'
      BY <2>1 DEF Sound, TypeOK, Allocated
    <2>3. FreeListsSound'
      BY <2>1 DEF Sound, FreeListsSound, Allocated
    <2>4. HandlesAndEntitiesPaired'
      BY <2>1 DEF Sound, HandlesAndEntitiesPaired, Live, Allocated
    <2>5. KeepsClean
      BY <2>1 DEF Clean, FreeSlotsAreFree, KeepsClean, StartIn, Live, Allocated
    <2>6. Handles' = Handles
      BY <2>1 DEF Handles, Live, Allocated
    <2>. QED
      BY <2>2, <2>3, <2>4, <2>5, <2>6 DEF Sound
  <1>. QED
    BY <1>1, <1>2, <1>3, <1>4, <1>5, <1>6, <1>7, <1>8, <1>9 DEF Next

\* The invariant holds in every reachable state.
LEMMA Inductive == Spec => []IInv
  <1>1. IInv /\ [Next]_vars => IInv'
    <2>1. FreeSlotsAreBlank' <=> Clean(ZeroFresh)'
      BY BlankIsClean, PTL
    <2>. QED
      BY <2>1, NextStep, BlankIsClean DEF IInv, KeepsClean
  <1>. QED
    BY <1>1, InitStep, PTL DEF Spec

\* Every column of every pool covers exactly the slots of the pool's chunks.
THEOREM TypeCorrect == Spec => []TypeOK
  <1>1. IInv => TypeOK
    BY DEF IInv, Sound
  <1>. QED
    BY <1>1, Inductive, PTL

\* No sequence of create and destroy calls leaves a slot on a free list twice,
\* whatever the pools, their chunk sizes and the batches.
THEOREM FreeListsAlwaysSound == Spec => []FreeListsSound
  <1>1. IInv => FreeListsSound
    BY DEF IInv, Sound
  <1>. QED
    BY <1>1, Inductive, PTL

\* A handle that was not destroyed always leads to the entity that leads back
\* to it, and no entity is live without a handle.
THEOREM AlwaysPaired == Spec => []HandlesAndEntitiesPaired
  <1>1. IInv => HandlesAndEntitiesPaired
    BY DEF IInv, Sound
  <1>. QED
    BY <1>1, Inductive, PTL

\* Free slots look free and hold no component of the entities they last held,
\* as long as only the manager and the holders of handles write to its pools.
THEOREM FreeSlotsAlwaysBlank == Spec => []FreeSlotsAreBlank
  <1>1. IInv => FreeSlotsAreBlank
    BY DEF IInv
  <1>. QED
    BY <1>1, Inductive, PTL

\* The chunked pools with their free lists implement the table of handles:
\* creating adds fresh handles, destroying removes the ones given and no
\* operation makes a handle stand for another entity.
THEOREM Refinement == Spec => ImplementsEntityTable
  <1>1. Init => Abstract!Init
    <2>1. Init => Live(Ptr) = {}
      BY DEF Init, Live, Allocated, Slots, Stores
    <2>. QED
      BY <2>1 DEF Abstract!Init, Abstract!Empty, Handles
  <1>2. IInv /\ [Next]_vars => [Abstract!Next]_Handles
    BY NextStep DEF IInv
  <1>. QED
    BY <1>1, <1>2, Inductive, PTL DEF Spec, ImplementsEntityTable, Abstract!Spec
-----------------------------------------------------------------------------
(* With systems that run over the pools. *)

\* A system writes components where it may, and nothing else: the types, the
\* free lists, the pairing and every handle stay as they are.
LEMMA RunSystemStep ==
  ASSUME Sound, NEW s \in Systems, RunSystem(s)
  PROVE  Sound' /\ Handles' = Handles
  <1>1. UNCHANGED <<registered, chunks, free, status, link, poolId>>
    BY DEF RunSystem
  <1>2. \A x \in Stores : Allocated(x)' = Allocated(x) /\ Live(x)' = Live(x)
    BY <1>1 DEF Allocated, Live
  <1>3. Ptr \in Stores /\ PoolIds \subseteq Stores
    BY StoresAreDistinct
  <1>4. DOMAIN data' = PoolIds
    BY DEF RunSystem
  <1>5. ASSUME NEW id \in PoolIds PROVE data'[id] \in [Allocated(id) -> Data]
    <2>1. data[id] \in [Allocated(id) -> Data]
      BY DEF Sound, TypeOK
    <2>2. PICK f \in Operate[s] :
             data'[id] = IF id < registered /\ id \in Query[s]
                         THEN [p \in Allocated(id) |->
                                  IF Accepts(s, id, p) THEN f[data[id][p]] ELSE data[id][p]]
                         ELSE data[id]
      BY DEF RunSystem
    <2>3. f \in [Data -> Data]
      BY SystemsAssumption
    <2>. HIDE DEF Accepts
    <2>. QED
      BY <2>1, <2>2, <2>3
  <1>6. TypeOK'
    BY <1>1, <1>2, <1>3, <1>4, <1>5 DEF Sound, TypeOK
  <1>7. FreeListsSound'
    BY <1>1, <1>2 DEF Sound, FreeListsSound
  <1>8. HandlesAndEntitiesPaired'
    <2>1. \A i \in 0 .. registered - 1 : i \in Stores
      BY PoolsAssumption DEF Sound, TypeOK, Stores, PoolIds
    <2>. QED
      BY <1>1, <1>2, <1>3, <2>1 DEF Sound, HandlesAndEntitiesPaired
  <1>9. Handles' = Handles
    BY <1>1, <1>2, <1>3 DEF Handles
  <1>. QED
    BY <1>6, <1>7, <1>8, <1>9 DEF Sound

\* Every step of manager or systems keeps what the manager's steps do.
LEMMA SystemsNextStep ==
  Sound /\ [SystemsNext]_vars => Sound' /\ [Abstract!Next]_Handles
  <1>. SUFFICES ASSUME Sound, [SystemsNext]_vars PROVE Sound' /\ [Abstract!Next]_Handles
    OBVIOUS
  <1>1. CASE [Next]_vars
    BY <1>1, NextStep
  <1>2. ASSUME NEW s \in Systems, RunSystem(s) PROVE Sound' /\ Handles' = Handles
    BY <1>2, RunSystemStep
  <1>. QED
    BY <1>1, <1>2 DEF SystemsNext

LEMMA SystemsInductive == SystemsSpec => []Sound
  <1>1. Init => Sound
    BY InitStep DEF IInv
  <1>2. Sound /\ [SystemsNext]_vars => Sound'
    BY SystemsNextStep
  <1>. QED
    BY <1>1, <1>2, PTL DEF SystemsSpec

\* Type correctness, whatever systems run.
THEOREM SystemsTypeCorrect == SystemsSpec => []TypeOK
  <1>1. Sound => TypeOK
    BY DEF Sound
  <1>. QED
    BY <1>1, SystemsInductive, PTL

\* The free lists stay sound whatever systems run: none of them creates,
\* destroys or grows.
THEOREM SystemsKeepFreeLists == SystemsSpec => []FreeListsSound
  <1>1. Sound => FreeListsSound
    BY DEF Sound
  <1>. QED
    BY <1>1, SystemsInductive, PTL

\* Handles and entities stay paired whatever systems run: a system writes its
\* components and neither a status nor a link.
THEOREM SystemsKeepPairs == SystemsSpec => []HandlesAndEntitiesPaired
  <1>1. Sound => HandlesAndEntitiesPaired
    BY DEF Sound
  <1>. QED
    BY <1>1, SystemsInductive, PTL

\* The manager with any systems still implements the table of handles.
THEOREM SystemsRefine == SystemsSpec => ImplementsEntityTable
  <1>1. Init => Abstract!Init
    <2>1. Init => Live(Ptr) = {}
      BY DEF Init, Live, Allocated, Slots, Stores
    <2>. QED
      BY <2>1 DEF Abstract!Init, Abstract!Empty, Handles
  <1>2. Sound /\ [SystemsNext]_vars => [Abstract!Next]_Handles
    BY SystemsNextStep
  <1>. QED
    BY <1>1, <1>2, SystemsInductive, PTL
       DEF SystemsSpec, ImplementsEntityTable, Abstract!Spec

\* What the systems may leave in free slots.
Anew == [id \in PoolIds |-> FromReset(id)]

\* A reset slot is one of them, and systems that visit free slots lead from one
\* to another.
LEMMA FromResetIsClosed ==
  /\ Anew \in Fresh
  /\ \A id \in PoolIds : Closed(id, FromReset(id))
  <1>1. ASSUME NEW id \in PoolIds PROVE FromReset(id) \in SUBSET Data /\ 0 \in FromReset(id)
    BY ValuesAssumption DEF FromReset
  <1>2. Anew \in Fresh
    BY <1>1 DEF Anew, Fresh
  <1>3. ASSUME NEW id \in PoolIds, NEW s \in VisitFreeSlots(id), NEW f \in Operate[s],
               NEW v \in FromReset(id)
        PROVE  f[v] \in FromReset(id)
    <2>1. f \in [Data -> Data] /\ v \in Data
      BY SystemsAssumption DEF VisitFreeSlots, FromReset
    <2>2. ASSUME NEW values \in SUBSET Data, 0 \in values, Closed(id, values)
          PROVE  f[v] \in values
      BY <2>2 DEF FromReset, Closed
    <2>. QED
      BY <2>1, <2>2 DEF FromReset
  <1>. QED
    BY <1>2, <1>3 DEF Closed

\* A plain system leads a free slot's components from one of these values to
\* another; a status system passes the slot over, since it looks free.
LEMMA SystemKeepsAnew ==
  ASSUME Sound, Clean(Anew), NEW s \in Systems, RunSystem(s)
  PROVE  Clean(Anew)' /\ StartIn(Anew)
  <1>1. UNCHANGED <<registered, chunks, free, status, link, poolId>>
    BY DEF RunSystem
  <1>2. \A id \in PoolIds : Live(id)' = Live(id)
    BY <1>1 DEF Live, Allocated
  <1>3. ASSUME NEW id \in PoolIds, NEW p \in Range(free[id])
        PROVE  data'[id][p] \in FromReset(id)
    <2>1. p \in Allocated(id)
      BY StoresAreDistinct DEF Sound, FreeListsSound
    <2>2. status[id][p] = ENT_NONE /\ data[id][p] \in FromReset(id)
      BY DEF Clean, FreeSlotsAreFree, Anew
    <2>3. PICK f \in Operate[s] :
             data'[id] = IF id < registered /\ id \in Query[s]
                         THEN [q \in Allocated(id) |->
                                  IF Accepts(s, id, q) THEN f[data[id][q]] ELSE data[id][q]]
                         ELSE data[id]
      BY DEF RunSystem
    <2>4. CASE id < registered /\ id \in Query[s] /\ Accepts(s, id, p)
      <3>1. s \in VisitFreeSlots(id)
        BY <2>2, <2>4 DEF Accepts, VisitFreeSlots
      <3>2. f[data[id][p]] \in FromReset(id)
        BY <2>2, <3>1, FromResetIsClosed DEF Closed
      <3>. QED
        BY <2>1, <2>3, <2>4, <3>2
    <2>5. CASE ~(id < registered /\ id \in Query[s] /\ Accepts(s, id, p))
      BY <2>1, <2>2, <2>3, <2>5
    <2>. QED
      BY <2>4, <2>5
  <1>. QED
    BY <1>1, <1>2, <1>3 DEF Clean, FreeSlotsAreFree, StartIn, Anew

\* What a program with systems preserves.
AnewInv == Sound /\ Clean(Anew)

LEMMA AnewStep == AnewInv /\ [SystemsNext]_vars => AnewInv' /\ StartIn(Anew)
  <1>. SUFFICES ASSUME AnewInv, [SystemsNext]_vars PROVE AnewInv' /\ StartIn(Anew)
    OBVIOUS
  <1>1. CASE [Next]_vars
    BY <1>1, NextStep, FromResetIsClosed DEF AnewInv, KeepsClean
  <1>2. ASSUME NEW s \in Systems, RunSystem(s) PROVE AnewInv' /\ StartIn(Anew)
    BY <1>2, RunSystemStep, SystemKeepsAnew DEF AnewInv
  <1>. QED
    BY <1>1, <1>2 DEF SystemsNext

LEMMA AnewInductive == SystemsSpec => []AnewInv
  <1>1. Init => AnewInv
    <2>1. FreeSlotsAreBlank => Clean(Anew)
      <3>1. \A id \in PoolIds : 0 \in Anew[id]
        BY FromResetIsClosed DEF Fresh
      <3>. QED
        BY <3>1 DEF FreeSlotsAreBlank, Clean
    <2>. QED
      BY <2>1, InitStep DEF IInv, AnewInv
  <1>. QED
    BY <1>1, AnewStep, PTL DEF SystemsSpec

\* Whatever systems run, a free slot looks free: those that ask for a status of
\* entities pass it over.
THEOREM SystemsLeaveSlotsFree == SystemsSpec => []FreeSlotsAreFree
  <1>1. AnewInv => FreeSlotsAreFree
    BY DEF AnewInv, Clean
  <1>. QED
    BY <1>1, AnewInductive, PTL

\* Whatever systems a program has, plain ones that run on every slot among them,
\* and whatever was created, destroyed, written and operated on in between, an
\* entity starts with a reset value or what those systems make of one, and
\* never with anything of the entity its slot held before.
THEOREM EntitiesAlwaysStartAnew == SystemsSpec => EntitiesStartAnew
  <1>1. AnewInv /\ [SystemsNext]_vars => [StartIn(Anew)]_vars
    BY AnewStep
  <1>2. SystemsSpec => [][StartIn(Anew)]_vars
    BY <1>1, AnewInductive, PTL DEF SystemsSpec
  <1>3. StartIn(Anew) => \A id \in PoolIds : \A p \in Live(id)' \ Live(id) :
                             data'[id][p] \in FromReset(id)
    BY DEF StartIn, Anew
  <1>. QED
    BY <1>2, <1>3, PTL DEF EntitiesStartAnew
=============================================================================
