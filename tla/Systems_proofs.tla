---------------------------- MODULE Systems_proofs ----------------------------
(***************************************************************************)
(* What runs the systems of lib_ecs, and what they run on: each system of  *)
(* the two trees holds every pool it should once, runs where it was asked  *)
(* to and for the time that passed; a walk misses nobody; a frame draws    *)
(* each entity once.  For any groups, systems, branches, pools, steps and  *)
(* times between frames.                                                   *)
(***************************************************************************)
EXTENDS Scheduler, Query, GameFrame, FiniteSetTheorems, TLAPS

-----------------------------------------------------------------------------
(* Induction.  The theorems of the library take the formula as a parameter;  *)
(* these two take a set, and no parameter.                                   *)

\* A set of numbers that has 0 and the next of each has them all: else adding
\* one would map those below the missing one into one fewer.
LEMMA Induction ==
    ASSUME NEW S, S \subseteq Nat, 0 \in S, NEW m \in Nat,
           \A n \in S : n < m => n + 1 \in S
    PROVE  m \in S
<1> SUFFICES ASSUME m \notin S PROVE FALSE
  OBVIOUS
<1> DEFINE B == {n \in S : n < m}
           C == B \ {0}
           f == [n \in B |-> n + 1]
<1>1. \A n \in B : n + 1 \in C
  <2> TAKE n \in B
  <2>1. n + 1 \in S /\ n + 1 # m
    OBVIOUS
  <2>2. QED
    BY <2>1
<1>2. 0 \in B
  OBVIOUS
<1>3. IsFiniteSet(B) /\ IsFiniteSet(C) /\ Cardinality(C) = Cardinality(B) - 1
  <2>1. IsFiniteSet(B)
    BY FS_BoundedSetOfNaturals
  <2>2. QED
    BY <2>1, <1>2, FS_RemoveElement
<1>4. Cardinality(C) < Cardinality(B)
  <2>1. Cardinality(B) \in Nat
    BY <1>3, FS_CardinalityType
  <2>2. QED
    BY <1>3, <2>1
<1>5. f \in [B -> C]
  BY <1>1
<1>6. \E x, y \in B : x # y /\ f[x] = f[y]
  <2> HIDE DEF B, C, f
  <2>1. QED
    BY <1>3, <1>4, <1>5, FS_PigeonHole
<1>7. QED
  BY <1>6

\* What is defined from what comes before it is defined.
Moves(n, T) == [1 .. n -> [T -> T]]

Follows(f, n, T, base, move) ==
    f \in [0 .. n -> T] /\ f[0] = base /\ \A i \in 1 .. n : f[i] = move[i][f[i - 1]]

\* A function defined step by step exists.
LEMMA Recursion ==
    ASSUME NEW n \in Nat, NEW T, NEW base \in T, NEW move \in Moves(n, T)
    PROVE  \E f : Follows(f, n, T, base, move)
<1> USE DEF Moves
<1> DEFINE Upto(m) ==
               \E f \in [0 .. m -> T] : f[0] = base /\ \A i \in 1 .. m : f[i] = move[i][f[i - 1]]
           S == {m \in 0 .. n : Upto(m)}
<1>1. 0 \in S
  <2> DEFINE f == [i \in 0 .. 0 |-> base]
  <2>1. f \in [0 .. 0 -> T] /\ f[0] = base
    OBVIOUS
  <2>2. \A i \in 1 .. 0 : f[i] = move[i][f[i - 1]]
    OBVIOUS
  <2> HIDE DEF f
  <2>3. Upto(0)
    BY <2>1, <2>2
  <2>4. QED
    BY <2>3
<1>2. ASSUME NEW m \in S, m < n PROVE m + 1 \in S
  <2>1. m \in Nat /\ m + 1 \in 1 .. n /\ m + 1 \in 0 .. n
    BY <1>2
  <2>2. PICK f \in [0 .. m -> T] : f[0] = base /\ \A i \in 1 .. m : f[i] = move[i][f[i - 1]]
    OBVIOUS
  <2> DEFINE g == [i \in 0 .. m + 1 |-> IF i = m + 1 THEN move[m + 1][f[m]] ELSE f[i]]
  <2>3. f[m] \in T /\ move[m + 1] \in [T -> T]
    BY <2>1, <2>2
  <2>4. move[m + 1][f[m]] \in T
    BY <2>3
  <2>5. \A i \in 0 .. m + 1 : i # m + 1 => i \in 0 .. m
    BY <2>1
  <2>6. g \in [0 .. m + 1 -> T]
    BY <2>2, <2>4, <2>5
  <2>7. g[0] = base
    BY <2>1, <2>2
  <2>8. \A i \in 1 .. m + 1 : g[i] = move[i][g[i - 1]]
    <3> TAKE i \in 1 .. m + 1
    <3>1. /\ i \in 0 .. m + 1 /\ i - 1 \in 0 .. m + 1 /\ i - 1 # m + 1
          /\ i # m + 1 => i \in 1 .. m
          /\ i = m + 1 => i - 1 = m
      BY <2>1
    <3>2. QED
      BY <2>2, <3>1
  <2>9. QED
    BY <2>1, <2>6, <2>7, <2>8
<1>3. n \in S
  <2> HIDE DEF S
  <2>1. S \subseteq Nat
    BY DEF S
  <2>2. QED
    BY <1>1, <1>2, <2>1, Induction
<1>4. QED
  BY <1>3 DEF Follows

-----------------------------------------------------------------------------
(* Sequences of sequences. *)

\* FlattenSeq, step by step.
Joins(u, seqs, E) ==
    /\ u \in [0 .. Len(seqs) -> Seq(E)]
    /\ u[0] = <<>>
    /\ \A i \in 1 .. Len(seqs) : u[i] = u[i - 1] \o seqs[i]

\* There are such steps.
LEMMA JoinsExist ==
    ASSUME NEW E, NEW seqs \in Seq(Seq(E))
    PROVE  \E u : Joins(u, seqs, E)
<1> DEFINE n == Len(seqs)
           T == Seq(E)
           base == <<>>
           move == [i \in 1 .. n |-> [x \in T |-> x \o seqs[i]]]
<1>1. n \in Nat /\ base \in T /\ \A i \in 1 .. n : seqs[i] \in Seq(E)
  OBVIOUS
<1>2. move \in [1 .. n -> [T -> T]]
  BY <1>1
<1>3. PICK f : Follows(f, n, T, base, move)
  <2> HIDE DEF n, T, base, move
  <2>1. QED
    BY <1>1, <1>2, Recursion DEF Moves
<1>4. \A i \in 1 .. n : f[i] = f[i - 1] \o seqs[i]
  <2> TAKE i \in 1 .. n
  <2>1. i - 1 \in 0 .. n
    BY <1>1
  <2>2. f[i - 1] \in T /\ f[i] = move[i][f[i - 1]]
    BY <1>3, <2>1 DEF Follows
  <2>3. QED
    BY <2>2
<1>5. QED
  BY <1>3, <1>4 DEF Follows, Joins

\* FlattenSeq is what the steps come to.
LEMMA FlattenJoins ==
    ASSUME NEW E, NEW seqs \in Seq(Seq(E)), NEW f, Joins(f, seqs, E)
    PROVE  FlattenSeq(seqs) = f[Len(seqs)]
<1> DEFINE n == Len(seqs)
           Body(u) == [i \in 1 .. n |-> IF i = 1 THEN seqs[i] ELSE u[i - 1] \o seqs[i]]
           w == CHOOSE u : u = Body(u)
           g == [i \in 1 .. n |-> f[i]]
<1>1. n \in Nat /\ \A i \in 1 .. n : seqs[i] \in Seq(E)
  OBVIOUS
<1>2. CASE n = 0
  BY <1>1, <1>2 DEF FlattenSeq, Joins
<1>3. CASE n # 0
  <2>1. FlattenSeq(seqs) = w[n]
    BY <1>3 DEF FlattenSeq
  <2>2. g = Body(g)
    <3>1. ASSUME NEW i \in 1 .. n PROVE f[i] = Body(g)[i]
      <4>1. CASE i = 1
        <5>1. 1 \in 1 .. n /\ i - 1 = 0
          BY <1>1, <4>1
        <5>2. f[i] = f[0] \o seqs[i] /\ f[0] = <<>>
          BY <5>1 DEF Joins
        <5>3. seqs[i] \in Seq(E)
          BY <1>1
        <5>4. f[i] = seqs[i]
          BY <5>2, <5>3
        <5>5. QED
          BY <4>1, <5>4
      <4>2. CASE i # 1
        <5>1. i - 1 \in 1 .. n
          BY <1>1, <4>2
        <5>2. QED
          BY <4>2, <5>1 DEF Joins
      <4>3. QED
        BY <4>1, <4>2
    <3>2. QED
      BY <3>1
  <2>3. w = Body(w)
    <3> HIDE DEF Body
    <3>1. QED
      BY <2>2
  <2> HIDE DEF w
  <2> DEFINE S == {i \in 0 .. n : i # 0 => w[i] = f[i]}
  <2>4. 0 \in S
    BY <1>1
  <2>5. ASSUME NEW i \in S, i < n PROVE i + 1 \in S
    <3>1. i + 1 \in 1 .. n /\ i + 1 \in 0 .. n /\ (i + 1) - 1 = i
      BY <1>1, <2>5
    <3>2. w[i + 1] = IF i + 1 = 1 THEN seqs[i + 1] ELSE w[i] \o seqs[i + 1]
      BY <2>3, <3>1
    <3>3. f[i + 1] = f[i] \o seqs[i + 1]
      BY <3>1 DEF Joins
    <3>4. CASE i = 0
      <4>1. f[0] = <<>> /\ seqs[i + 1] \in Seq(E)
        BY <1>1, <3>1 DEF Joins
      <4>2. f[i + 1] = seqs[i + 1]
        BY <3>3, <3>4, <4>1
      <4>3. QED
        BY <3>1, <3>2, <3>4, <4>2
    <3>5. CASE i # 0
      <4>1. w[i] = f[i] /\ i + 1 # 1
        BY <1>1, <3>5
      <4>2. w[i + 1] = f[i + 1]
        BY <3>2, <3>3, <4>1
      <4>3. QED
        BY <3>1, <4>2
    <3>6. QED
      BY <3>4, <3>5
  <2>6. n \in S
    <3>1. S \subseteq Nat
      OBVIOUS
    <3> HIDE DEF S
    <3>2. QED
      BY <1>1, <2>4, <2>5, <3>1, Induction
  <2>7. QED
    BY <1>3, <2>1, <2>6
<1>4. QED
  BY <1>2, <1>3

\* What two sequences hold together.
LEMMA ConcatRange ==
    ASSUME NEW E, NEW q \in Seq(E), NEW r \in Seq(E)
    PROVE  Range(q \o r) = Range(q) \cup Range(r)
<1>1. /\ q \o r \in Seq(E) /\ Len(q \o r) = Len(q) + Len(r) /\ Len(q) \in Nat /\ Len(r) \in Nat
      /\ \A k \in 1 .. Len(q) : (q \o r)[k] = q[k]
      /\ \A k \in 1 .. Len(r) : (q \o r)[Len(q) + k] = r[k]
  OBVIOUS
<1>2. \A k \in 1 .. Len(q) + Len(r) :
          k \in 1 .. Len(q) \/ \E j \in 1 .. Len(r) : k = Len(q) + j
  <2> TAKE k \in 1 .. Len(q) + Len(r)
  <2>1. k \in 1 .. Len(q) \/ (k - Len(q) \in 1 .. Len(r) /\ k = Len(q) + (k - Len(q)))
    BY <1>1
  <2>2. QED
    BY <2>1
<1>3. \A k \in 1 .. Len(q) : k \in 1 .. Len(q) + Len(r)
  BY <1>1
<1>4. \A j \in 1 .. Len(r) : Len(q) + j \in 1 .. Len(q) + Len(r)
  BY <1>1
<1>5. DOMAIN q = 1 .. Len(q) /\ DOMAIN r = 1 .. Len(r) /\ DOMAIN (q \o r) = 1 .. Len(q) + Len(r)
  BY <1>1
<1>6. Range(q \o r) \subseteq Range(q) \cup Range(r)
  <2>1. \A k \in 1 .. Len(q) + Len(r) : (q \o r)[k] \in Range(q) \cup Range(r)
    BY <1>1, <1>2, <1>5 DEF Range
  <2>2. QED
    BY <1>5, <2>1 DEF Range
<1>7. Range(q) \subseteq Range(q \o r)
  <2>1. \A k \in 1 .. Len(q) : q[k] \in Range(q \o r)
    BY <1>1, <1>3, <1>5 DEF Range
  <2>2. QED
    BY <1>5, <2>1 DEF Range
<1>8. Range(r) \subseteq Range(q \o r)
  <2>1. \A k \in 1 .. Len(r) : r[k] \in Range(q \o r)
    BY <1>1, <1>4, <1>5 DEF Range
  <2>2. QED
    BY <1>5, <2>1 DEF Range
<1>9. QED
  BY <1>6, <1>7, <1>8

\* Two sequences that share nothing repeat nothing together if neither does.
LEMMA ConcatInjective ==
    ASSUME NEW E, NEW q \in Seq(E), NEW r \in Seq(E),
           IsInjective(q), IsInjective(r), Range(q) \cap Range(r) = {}
    PROVE  IsInjective(q \o r)
<1>1. /\ q \o r \in Seq(E) /\ Len(q \o r) = Len(q) + Len(r) /\ Len(q) \in Nat /\ Len(r) \in Nat
      /\ \A k \in 1 .. Len(q) : (q \o r)[k] = q[k]
      /\ \A k \in 1 .. Len(r) : (q \o r)[Len(q) + k] = r[k]
  OBVIOUS
<1>2. \A k \in 1 .. Len(q) + Len(r) :
          k \in 1 .. Len(q) \/ \E j \in 1 .. Len(r) : k = Len(q) + j
  <2> TAKE k \in 1 .. Len(q) + Len(r)
  <2>1. k \in 1 .. Len(q) \/ (k - Len(q) \in 1 .. Len(r) /\ k = Len(q) + (k - Len(q)))
    BY <1>1
  <2>2. QED
    BY <2>1
<1>3. DOMAIN q = 1 .. Len(q) /\ DOMAIN r = 1 .. Len(r) /\ DOMAIN (q \o r) = 1 .. Len(q) + Len(r)
  BY <1>1
<1>4. \A j \in 1 .. Len(q), k \in 1 .. Len(r) : q[j] # r[k]
  BY <1>3 DEF Range
<1>5. \A j, k \in 1 .. Len(q) : q[j] = q[k] => j = k
  BY <1>3 DEF IsInjective
<1>6. \A j, k \in 1 .. Len(r) : r[j] = r[k] => j = k
  BY <1>3 DEF IsInjective
<1>7. \A j, k \in 1 .. Len(q) + Len(r) : (q \o r)[j] = (q \o r)[k] => j = k
  <2> SUFFICES ASSUME NEW j \in 1 .. Len(q) + Len(r), NEW k \in 1 .. Len(q) + Len(r),
                      (q \o r)[j] = (q \o r)[k]
               PROVE  j = k
    OBVIOUS
  <2>1. CASE j \in 1 .. Len(q) /\ k \in 1 .. Len(q)
    BY <1>1, <1>5, <2>1
  <2>2. CASE j \in 1 .. Len(q) /\ \E i \in 1 .. Len(r) : k = Len(q) + i
    BY <1>1, <1>4, <2>2
  <2>3. CASE k \in 1 .. Len(q) /\ \E i \in 1 .. Len(r) : j = Len(q) + i
    BY <1>1, <1>4, <2>3
  <2>4. CASE (\E i \in 1 .. Len(r) : j = Len(q) + i) /\ (\E i \in 1 .. Len(r) : k = Len(q) + i)
    BY <1>1, <1>6, <2>4
  <2>5. QED
    BY <1>2, <2>1, <2>2, <2>3, <2>4
<1>8. QED
  BY <1>3, <1>7 DEF IsInjective

\* What a flattened sequence holds, and when it repeats nothing.
LEMMA FlattenHolds ==
    ASSUME NEW E, NEW seqs \in Seq(Seq(E))
    PROVE  /\ FlattenSeq(seqs) \in Seq(E)
           /\ Range(FlattenSeq(seqs)) = UNION {Range(seqs[i]) : i \in DOMAIN seqs}
           /\ (/\ \A i \in DOMAIN seqs : IsInjective(seqs[i])
               /\ \A i, j \in DOMAIN seqs : i # j => Range(seqs[i]) \cap Range(seqs[j]) = {})
              => IsInjective(FlattenSeq(seqs))
<1> DEFINE n == Len(seqs)
           Apart == /\ \A i \in DOMAIN seqs : IsInjective(seqs[i])
                    /\ \A i, j \in DOMAIN seqs : i # j => Range(seqs[i]) \cap Range(seqs[j]) = {}
<1>1. PICK u : Joins(u, seqs, E)
  BY JoinsExist
<1>2. n \in Nat /\ DOMAIN seqs = 1 .. n /\ \A i \in 1 .. n : seqs[i] \in Seq(E)
  OBVIOUS
<1> DEFINE Held(i) == /\ Range(u[i]) = UNION {Range(seqs[j]) : j \in 1 .. i}
                      /\ Apart => IsInjective(u[i])
           S == {i \in 0 .. n : Held(i)}
<1>3. 0 \in S
  <2>1. u[0] = <<>> /\ DOMAIN <<>> = {}
    BY <1>1 DEF Joins
  <2>2. Range(u[0]) = {} /\ IsInjective(u[0])
    BY <2>1 DEF Range, IsInjective
  <2>3. QED
    BY <1>2, <2>2
<1>4. ASSUME NEW i \in S, i < n PROVE i + 1 \in S
  <2>1. /\ i \in Nat /\ i \in 0 .. n /\ i + 1 \in 1 .. n /\ i + 1 \in 0 .. n
        /\ (i + 1) - 1 = i /\ 1 .. i + 1 = (1 .. i) \cup {i + 1}
        /\ \A j \in 1 .. i : j \in 1 .. n /\ j # i + 1
    BY <1>2, <1>4
  <2>2. /\ u[i] \in Seq(E) /\ seqs[i + 1] \in Seq(E)
        /\ u[i + 1] = u[i] \o seqs[i + 1]
    BY <1>1, <1>2, <2>1 DEF Joins
  <2>3. Range(u[i + 1]) = Range(u[i]) \cup Range(seqs[i + 1])
    BY <2>2, ConcatRange
  <2>4. Range(u[i + 1]) = UNION {Range(seqs[j]) : j \in 1 .. i + 1}
    BY <2>1, <2>3
  <2>5. ASSUME Apart PROVE IsInjective(u[i + 1])
    <3>1. Range(u[i]) \cap Range(seqs[i + 1]) = {}
      <4>1. \A j \in 1 .. i : Range(seqs[j]) \cap Range(seqs[i + 1]) = {}
        BY <1>2, <2>1, <2>5
      <4>2. QED
        BY <4>1
    <3>2. IsInjective(u[i]) /\ IsInjective(seqs[i + 1])
      BY <1>2, <2>1, <2>5
    <3>3. QED
      BY <2>2, <3>1, <3>2, ConcatInjective
  <2>6. QED
    BY <2>1, <2>4, <2>5
<1>5. n \in S
  <2>1. S \subseteq Nat
    OBVIOUS
  <2> HIDE DEF S
  <2>2. QED
    BY <1>2, <1>3, <1>4, <2>1, Induction
<1>6. FlattenSeq(seqs) = u[n] /\ u[n] \in Seq(E)
  <2>1. u[n] \in Seq(E)
    BY <1>1, <1>2 DEF Joins
  <2>2. QED
    BY <1>1, <2>1, FlattenJoins
<1>7. QED
  BY <1>2, <1>5, <1>6

\* One more sequence goes behind.
LEMMA FlattenAppend ==
    ASSUME NEW E, NEW seqs \in Seq(Seq(E)), NEW q \in Seq(E)
    PROVE  FlattenSeq(Append(seqs, q)) = FlattenSeq(seqs) \o q
<1> DEFINE n == Len(seqs)
           more == Append(seqs, q)
<1>1. PICK u : Joins(u, seqs, E)
  BY JoinsExist
<1> DEFINE v == [i \in 0 .. n + 1 |-> IF i = n + 1 THEN u[n] \o q ELSE u[i]]
<1>2. n \in Nat /\ u[n] \in Seq(E)
  BY <1>1 DEF Joins
<1>3. /\ more \in Seq(Seq(E)) /\ Len(more) = n + 1 /\ more[n + 1] = q
      /\ \A i \in 1 .. n : more[i] = seqs[i]
  OBVIOUS
<1> HIDE DEF more
<1>4. Joins(v, more, E)
  <2>1. v \in [0 .. n + 1 -> Seq(E)]
    <3>1. \A i \in 0 .. n + 1 : i # n + 1 => i \in 0 .. n
      BY <1>2
    <3>2. QED
      BY <1>1, <1>2, <3>1 DEF Joins
  <2>2. v[0] = <<>>
    BY <1>1, <1>2 DEF Joins
  <2>3. ASSUME NEW i \in 1 .. n + 1 PROVE v[i] = v[i - 1] \o more[i]
    <3>1. CASE i = n + 1
      <4>1. i \in 0 .. n + 1 /\ i - 1 \in 0 .. n + 1 /\ i - 1 = n /\ n # n + 1
        BY <1>2, <3>1
      <4>2. QED
        BY <1>3, <3>1, <4>1
    <3>2. CASE i # n + 1
      <4>1. i \in 1 .. n /\ i \in 0 .. n + 1 /\ i - 1 \in 0 .. n + 1 /\ i - 1 # n + 1
        BY <1>2, <3>2
      <4>2. QED
        BY <1>1, <1>3, <3>2, <4>1 DEF Joins
    <3>3. QED
      BY <3>1, <3>2
  <2>4. QED
    BY <1>3, <2>1, <2>2, <2>3 DEF Joins
<1>5. FlattenSeq(more) = v[n + 1]
  BY <1>3, <1>4, FlattenJoins
<1>6. FlattenSeq(seqs) = u[n]
  BY <1>1, FlattenJoins
<1>7. v[n + 1] = u[n] \o q
  BY <1>2
<1>8. QED
  BY <1>5, <1>6, <1>7 DEF more

LEMMA FlattenNothing == FlattenSeq(<<>>) = <<>>
BY DEF FlattenSeq


\* A sequence with each of some things once is as long as they are many.
LEMMA LengthIsCardinality ==
    ASSUME NEW E, NEW q \in Seq(E), NEW S, NEW f \in [1 .. Len(q) -> S],
           IsInjective(f), S = {f[i] : i \in 1 .. Len(q)}
    PROVE  IsFiniteSet(S) /\ Cardinality(S) = Len(q)
<1> DEFINE n == Len(q)
<1>1. n \in Nat
  OBVIOUS
<1> HIDE DEF n
<1>2. f \in Bijection(1 .. n, S)
  BY DEF n, Bijection, Injection, Surjection
<1>3. IsFiniteSet(1 .. n) /\ Cardinality(1 .. n) = n
  BY <1>1, FS_CountingElements, FS_Interval
<1>4. ExistsBijection(1 .. n, S)
  BY <1>2 DEF ExistsBijection
<1>5. QED
  BY <1>3, <1>4, FS_Bijection DEF n

\* SetToSeq holds each element of a finite set once.
LEMMA SetToSeqIs ==
    ASSUME NEW S, IsFiniteSet(S)
    PROVE  /\ SetToSeq(S) \in Seq(S)
           /\ IsInjective(SetToSeq(S))
           /\ Range(SetToSeq(S)) = S
<1> DEFINE n == Cardinality(S)
           q == SetToSeq(S)
<1>1. n \in Nat
  BY FS_CardinalityType
<1>2. IsFiniteSet(1 .. n) /\ Cardinality(1 .. n) = n
  BY <1>1, FS_CountingElements, FS_Interval
<1>3. ExistsBijection(1 .. n, S)
  BY <1>2, FS_SameCardinalityBij
<1>4. \E f \in [1 .. n -> S] : IsInjective(f)
  BY <1>3 DEF ExistsBijection, Bijection, Injection
<1>5. q \in [1 .. n -> S] /\ IsInjective(q)
  BY <1>4 DEF SetToSeq
<1> HIDE DEF n, q
<1>6. q \in Surjection(1 .. n, S)
  <2>1. q \in Injection(1 .. n, S)
    BY <1>5 DEF Injection
  <2>2. Cardinality(1 .. n) = Cardinality(S)
    BY <1>2 DEF n
  <2>3. QED
    BY <2>1, <2>2, FS_Injection
<1>7. Range(q) = S
  BY <1>5, <1>6 DEF Surjection, Range
<1>8. q \in Seq(S)
  BY <1>1, <1>5
<1>9. QED
  BY <1>5, <1>7, <1>8 DEF q

\* Things that come in rank after rank stay so.
LEMMA FlattenRanked ==
    ASSUME NEW E, NEW seqs \in Seq(Seq(E)), NEW rank \in [E -> Int],
           \A i \in 1 .. Len(seqs) : \A k \in DOMAIN seqs[i] : rank[seqs[i][k]] = i
    PROVE  LET q == FlattenSeq(seqs) IN
           \A j, k \in DOMAIN q : j < k => rank[q[j]] <= rank[q[k]]
<1> DEFINE n == Len(seqs)
<1>1. PICK u : Joins(u, seqs, E)
  BY JoinsExist
<1>2. n \in Nat /\ \A i \in 1 .. n : seqs[i] \in Seq(E)
  OBVIOUS
<1> DEFINE Held(i) == /\ \A k \in DOMAIN u[i] : rank[u[i][k]] <= i
                      /\ \A j, k \in DOMAIN u[i] : j < k => rank[u[i][j]] <= rank[u[i][k]]
           S == {i \in 0 .. n : Held(i)}
<1>3. 0 \in S
  <2>1. u[0] = <<>> /\ DOMAIN <<>> = {}
    BY <1>1 DEF Joins
  <2>2. QED
    BY <1>2, <2>1
<1>4. ASSUME NEW i \in S, i < n PROVE i + 1 \in S
  <2> DEFINE q == u[i]
             r == seqs[i + 1]
  <2>1. i \in Nat /\ i \in 0 .. n /\ i + 1 \in 1 .. n /\ i + 1 \in 0 .. n /\ (i + 1) - 1 = i
    BY <1>2, <1>4
  <2>2. q \in Seq(E) /\ r \in Seq(E) /\ u[i + 1] = q \o r
    BY <1>1, <1>2, <2>1 DEF Joins
  <2>3. /\ \A k \in 1 .. Len(q) : rank[q[k]] <= i
        /\ \A j, k \in 1 .. Len(q) : j < k => rank[q[j]] <= rank[q[k]]
    <3>1. DOMAIN q = 1 .. Len(q)
      BY <2>2
    <3>2. QED
      BY <3>1
  <2>4. \A k \in 1 .. Len(r) : rank[r[k]] = i + 1
    <3>1. DOMAIN r = 1 .. Len(r)
      BY <2>2
    <3>2. QED
      BY <2>1, <3>1
  <2>5. \A k \in 1 .. Len(q) : rank[q[k]] \in Int
    BY <2>2
  <2> HIDE DEF q, r, S
  <2>6. /\ q \o r \in Seq(E) /\ Len(q \o r) = Len(q) + Len(r) /\ Len(q) \in Nat /\ Len(r) \in Nat
        /\ \A k \in 1 .. Len(q) : (q \o r)[k] = q[k]
        /\ \A k \in 1 .. Len(r) : (q \o r)[Len(q) + k] = r[k]
    BY <2>2
  <2>7. DOMAIN (q \o r) = 1 .. Len(q) + Len(r)
    BY <2>6
  <2>8. ASSUME NEW k \in 1 .. Len(q) + Len(r)
        PROVE  \/ k \in 1 .. Len(q) /\ (q \o r)[k] = q[k]
               \/ ~(k <= Len(q)) /\ rank[(q \o r)[k]] = i + 1
    <3>1. CASE k <= Len(q)
      BY <2>6, <3>1
    <3>2. CASE ~(k <= Len(q))
      <4>1. k - Len(q) \in 1 .. Len(r) /\ k = Len(q) + (k - Len(q))
        BY <2>6, <3>2
      <4>2. (q \o r)[k] = r[k - Len(q)]
        BY <2>6, <4>1
      <4>3. QED
        BY <2>4, <3>2, <4>1, <4>2
    <3>3. QED
      BY <3>1, <3>2
  <2>9. \A k \in 1 .. Len(q) + Len(r) : rank[(q \o r)[k]] <= i + 1
    BY <2>1, <2>3, <2>5, <2>8
  <2>10. \A j, k \in 1 .. Len(q) + Len(r) : j < k => rank[(q \o r)[j]] <= rank[(q \o r)[k]]
    <3> SUFFICES ASSUME NEW j \in 1 .. Len(q) + Len(r), NEW k \in 1 .. Len(q) + Len(r), j < k
                 PROVE  rank[(q \o r)[j]] <= rank[(q \o r)[k]]
      OBVIOUS
    <3>1. CASE k <= Len(q)
      <4>1. j \in 1 .. Len(q) /\ k \in 1 .. Len(q)
        BY <2>6, <3>1
      <4>2. QED
        BY <2>3, <2>6, <4>1
    <3>2. CASE ~(k <= Len(q))
      BY <2>8, <2>9, <3>2
    <3>3. QED
      BY <3>1, <3>2
  <2>11. QED
    BY <2>1, <2>2, <2>7, <2>9, <2>10 DEF S
<1>5. n \in S
  <2>1. S \subseteq Nat
    OBVIOUS
  <2> HIDE DEF S
  <2>2. QED
    BY <1>2, <1>3, <1>4, <2>1, Induction
<1>6. FlattenSeq(seqs) = u[n]
  BY <1>1, FlattenJoins
<1>7. QED
  BY <1>5, <1>6

-----------------------------------------------------------------------------
(* Frames. *)

LEMMA OrderIs ==
    Order \in Seq(Slots) /\ IsInjective(Order) /\ Range(Order) = Slots
<1> DEFINE q == SetToSeq(Still)
           r == SetToSeq(Animated)
<1>1. /\ q \in Seq(Still) /\ IsInjective(q) /\ Range(q) = Still
      /\ r \in Seq(Animated) /\ IsInjective(r) /\ Range(r) = Animated
  BY SetToSeqIs, GameFrameAssumption
<1> HIDE DEF q, r
<1>2. q \in Seq(Slots) /\ r \in Seq(Slots)
  BY <1>1 DEF Slots
<1>3. Range(q \o r) = Slots
  BY <1>1, <1>2, ConcatRange DEF Slots
<1>4. IsInjective(q \o r)
  BY <1>1, <1>2, ConcatInjective, GameFrameAssumption
<1>5. QED
  BY <1>2, <1>3, <1>4 DEF Order, q, r

\* What systems may draw: an entity on its layer.
View == [layer : 0 .. Layers - 1, slot : Slots]

\* A layer of what systems visit.
Cell(ents, visible, l, i) ==
    IF Order[i] \in visible /\ ents[Order[i]].layer = l - 1
    THEN <<[layer |-> l - 1, slot |-> Order[i]]>> ELSE <<>>
Row(ents, visible, l) == [i \in DOMAIN Order |-> Cell(ents, visible, l, i)]

\* What there is to see on a layer.
OnLayer(ents, visible, l) ==
    {v \in View : v.slot \in visible /\ v.layer = l - 1 /\ ents[v.slot].layer = l - 1}

\* Each entity of a layer that is visible is in the row of its layer, once.
LEMMA RowIs ==
    ASSUME NEW ents, NEW visible \in SUBSET Slots, NEW l \in 1 .. Layers
    PROVE  LET q == FlattenSeq(Row(ents, visible, l)) IN
           /\ q \in Seq(View)
           /\ IsInjective(q)
           /\ Range(q) = OnLayer(ents, visible, l)
<1> DEFINE row == Row(ents, visible, l)
           n == Len(Order)
           view(s) == [layer |-> l - 1, slot |-> s]
<1>1. /\ Layers \in Nat /\ n \in Nat /\ DOMAIN Order = 1 .. n /\ \A i \in 1 .. n : Order[i] \in Slots
      /\ \A s \in Slots : \E i \in 1 .. n : Order[i] = s
      /\ \A i, j \in 1 .. n : Order[i] = Order[j] => i = j
  <2>1. Layers \in Nat
    BY GameFrameAssumption
  <2>2. n \in Nat /\ DOMAIN Order = 1 .. n /\ \A i \in 1 .. n : Order[i] \in Slots
    BY OrderIs
  <2>3. \A s \in Slots : \E i \in 1 .. n : Order[i] = s
    BY <2>2, OrderIs DEF Range
  <2>4. \A i, j \in 1 .. n : Order[i] = Order[j] => i = j
    BY <2>2, OrderIs DEF IsInjective
  <2>5. QED
    BY <2>1, <2>2, <2>3, <2>4
<1>2. \A s \in Slots : view(s) \in View
  BY <1>1 DEF View
<1> DEFINE shows(i) == Order[i] \in visible /\ ents[Order[i]].layer = l - 1
<1> HIDE DEF n
<1>3. ASSUME NEW i \in 1 .. n
      PROVE  /\ row[i] \in Seq(View) /\ IsInjective(row[i])
             /\ Range(row[i]) = IF shows(i) THEN {view(Order[i])} ELSE {}
  <2>1. row[i] = IF shows(i) THEN <<view(Order[i])>> ELSE <<>>
    BY <1>1 DEF Row, Cell
  <2>2. view(Order[i]) \in View
    BY <1>1, <1>2
  <2> HIDE DEF view, row, shows
  <2>3. CASE shows(i)
    <3>1. row[i] = <<view(Order[i])>>
      BY <2>1, <2>3
    <3>2. DOMAIN row[i] = {1} /\ row[i][1] = view(Order[i])
      BY <3>1
    <3>3. QED
      BY <2>2, <2>3, <3>1, <3>2 DEF IsInjective, Range
  <2>4. CASE ~shows(i)
    <3>1. row[i] = <<>>
      BY <2>1, <2>4
    <3>2. DOMAIN row[i] = {}
      BY <3>1
    <3>3. QED
      BY <2>4, <3>1, <3>2 DEF IsInjective, Range
  <2>5. QED
    BY <2>3, <2>4
<1>4. row \in Seq(Seq(View)) /\ DOMAIN row = 1 .. n
  <2>1. row = [i \in 1 .. n |-> row[i]]
    BY <1>1 DEF Row
  <2> HIDE DEF row
  <2>2. QED
    BY <1>1, <1>3, <2>1
<1> HIDE DEF row
<1>5. \A i, j \in 1 .. n : i # j => Range(row[i]) \cap Range(row[j]) = {}
  <2> SUFFICES ASSUME NEW i \in 1 .. n, NEW j \in 1 .. n, i # j,
                      Range(row[i]) \cap Range(row[j]) # {}
               PROVE  FALSE
    OBVIOUS
  <2>1. view(Order[i]) = view(Order[j])
    <3> HIDE DEF view, shows
    <3>1. PICK v : v \in Range(row[i]) /\ v \in Range(row[j])
      OBVIOUS
    <3>2. Range(row[i]) = IF shows(i) THEN {view(Order[i])} ELSE {}
      BY <1>3
    <3>3. Range(row[j]) = IF shows(j) THEN {view(Order[j])} ELSE {}
      BY <1>3
    <3>4. QED
      BY <3>1, <3>2, <3>3
  <2>2. Order[i] = Order[j]
    <3>1. view(Order[i]).slot = view(Order[j]).slot
      BY <2>1
    <3>2. QED
      BY <3>1
  <2>3. QED
    BY <1>1, <2>2
<1>6. /\ FlattenSeq(row) \in Seq(View) /\ IsInjective(FlattenSeq(row))
      /\ Range(FlattenSeq(row)) = UNION {Range(row[i]) : i \in 1 .. n}
  <2> HIDE DEF view, shows
  <2>1. QED
    BY <1>3, <1>4, <1>5, FlattenHolds
<1>7. UNION {Range(row[i]) : i \in 1 .. n} = OnLayer(ents, visible, l)
  <2> DEFINE V == {v \in View : v.slot \in visible /\ v.layer = l - 1 /\ ents[v.slot].layer = l - 1}
  <2>1. ASSUME NEW v \in V PROVE \E i \in 1 .. n : v \in Range(row[i])
    <3>1. PICK i \in 1 .. n : Order[i] = v.slot
      BY <1>1 DEF View
    <3>2. v = view(Order[i])
      BY <3>1 DEF View
    <3>3. shows(i)
      BY <3>1
    <3> HIDE DEF view, shows
    <3>4. QED
      BY <1>3, <3>2, <3>3
  <2>2. ASSUME NEW i \in 1 .. n, NEW v \in Range(row[i]) PROVE v \in V
    <3>1. shows(i) /\ v = view(Order[i])
      <4> HIDE DEF view, shows, V
      <4>1. Range(row[i]) = IF shows(i) THEN {view(Order[i])} ELSE {}
        BY <1>3
      <4>2. QED
        BY <4>1
    <3>2. v \in View
      BY <1>1, <1>2, <3>1
    <3>3. QED
      BY <3>1, <3>2
  <2> HIDE DEF V
  <2>3. UNION {Range(row[i]) : i \in 1 .. n} = V
    BY <2>1, <2>2
  <2>4. QED
    BY <2>3 DEF V, OnLayer
<1>8. QED
  BY <1>6, <1>7 DEF row

\* What systems visit layer by layer: each entity of a layer there is, once,
\* the lower layers first.
LEMMA InLayersIs ==
    ASSUME NEW ents, NEW visible \in SUBSET Slots, \A s \in visible : ents[s].layer \in Nat
    PROVE  LET q == InLayers(ents, visible)
               seen == {s \in visible : ents[s].layer < Layers}
           IN /\ q \in Seq(View)
              /\ {v.slot : v \in Range(q)} = seen
              /\ Len(q) = Cardinality(seen)
              /\ \A j, k \in DOMAIN q : j < k => q[j].layer <= q[k].layer
<1> DEFINE rows == [l \in 1 .. Layers |-> FlattenSeq(Row(ents, visible, l))]
           q == InLayers(ents, visible)
           seen == {s \in visible : ents[s].layer < Layers}
           Shown(l) == OnLayer(ents, visible, l)
<1>1. Layers \in Nat /\ DOMAIN rows = 1 .. Layers
  BY GameFrameAssumption
<1>2. \A l \in 1 .. Layers : /\ rows[l] \in Seq(View) /\ IsInjective(rows[l])
                             /\ Range(rows[l]) = Shown(l)
  <2> TAKE l \in 1 .. Layers
  <2>1. rows[l] = FlattenSeq(Row(ents, visible, l))
    OBVIOUS
  <2> HIDE DEF rows
  <2>2. /\ FlattenSeq(Row(ents, visible, l)) \in Seq(View)
        /\ IsInjective(FlattenSeq(Row(ents, visible, l)))
        /\ Range(FlattenSeq(Row(ents, visible, l))) = Shown(l)
    BY RowIs
  <2> HIDE DEF Shown
  <2>3. QED
    BY <2>1, <2>2
<1>3. q = FlattenSeq(rows)
  BY DEF InLayers, Row, Cell
<1>4. rows \in Seq(Seq(View)) /\ Len(rows) = Layers
  <2> HIDE DEF Shown
  <2>1. \A l \in 1 .. Layers : FlattenSeq(Row(ents, visible, l)) \in Seq(View)
    BY <1>2
  <2>2. QED
    BY <1>1, <2>1
<1> HIDE DEF rows, q
<1>5. \A l, m \in 1 .. Layers : l # m => Range(rows[l]) \cap Range(rows[m]) = {}
  <2> SUFFICES ASSUME NEW l \in 1 .. Layers, NEW m \in 1 .. Layers, l # m,
                      NEW v, v \in Range(rows[l]), v \in Range(rows[m])
               PROVE  FALSE
    OBVIOUS
  <2>1. v \in Shown(l) /\ v \in Shown(m)
    BY <1>2
  <2>2. v.layer = l - 1 /\ v.layer = m - 1
    BY <2>1 DEF OnLayer
  <2>3. QED
    BY <1>1, <2>2
<1>6. q \in Seq(View) /\ IsInjective(q) /\ Range(q) = UNION {Range(rows[l]) : l \in 1 .. Layers}
  <2> HIDE DEF Shown
  <2>1. QED
    BY <1>1, <1>2, <1>3, <1>4, <1>5, FlattenHolds
<1>7. \A v \in Range(q) : v \in View /\ v.slot \in seen /\ v.layer = ents[v.slot].layer
  <2> TAKE v \in Range(q)
  <2>1. PICK l \in 1 .. Layers : v \in Shown(l)
    BY <1>2, <1>6
  <2>2. /\ v \in View /\ v.slot \in visible /\ v.layer = l - 1 /\ ents[v.slot].layer = l - 1
        /\ l - 1 < Layers
    BY <1>1, <2>1 DEF OnLayer
  <2>3. QED
    BY <2>2
<1>8. \A s \in seen : \E v \in Range(q) : v.slot = s
  <2> TAKE s \in seen
  <2> DEFINE l == ents[s].layer + 1
             v == [layer |-> l - 1, slot |-> s]
  <2>1. l \in 1 .. Layers /\ l - 1 = ents[s].layer /\ l - 1 \in 0 .. Layers - 1
    BY <1>1
  <2>2. v \in View
    BY <2>1 DEF View
  <2>3. v \in Shown(l)
    BY <2>1, <2>2 DEF OnLayer
  <2>4. v \in Range(rows[l])
    BY <1>2, <2>1, <2>3
  <2>5. v \in Range(q) /\ v.slot = s
    BY <1>6, <2>1, <2>4
  <2>6. QED
    BY <2>5
<1>9. {v.slot : v \in Range(q)} = seen
  <2> HIDE DEF seen
  <2>1. QED
    BY <1>7, <1>8
<1>10. DOMAIN q = 1 .. Len(q) /\ \A k \in 1 .. Len(q) : q[k] \in Range(q) /\ q[k] \in View
  <2>1. DOMAIN q = 1 .. Len(q)
    BY <1>6
  <2>2. QED
    BY <1>6, <2>1 DEF Range
<1>11. Len(q) = Cardinality(seen)
  <2> DEFINE f == [k \in 1 .. Len(q) |-> q[k].slot]
  <2>1. f \in [1 .. Len(q) -> seen]
    <3> HIDE DEF seen
    <3>1. QED
      BY <1>7, <1>10
  <2>2. \A j, k \in 1 .. Len(q) : q[j].slot = q[k].slot => j = k
    <3> SUFFICES ASSUME NEW j \in 1 .. Len(q), NEW k \in 1 .. Len(q), q[j].slot = q[k].slot
                 PROVE  j = k
      OBVIOUS
    <3>1. q[j].layer = q[k].layer
      <4> HIDE DEF seen
      <4>1. QED
        BY <1>7, <1>10
    <3>2. q[j] = q[k]
      BY <1>10, <3>1 DEF View
    <3>3. QED
      BY <1>6, <1>10, <3>2 DEF IsInjective
  <2>3. IsInjective(f)
    BY <2>2 DEF IsInjective
  <2>4. seen = {f[k] : k \in 1 .. Len(q)}
    <3>1. \A s \in seen : \E k \in 1 .. Len(q) : f[k] = s
      <4> TAKE s \in seen
      <4>1. PICK v \in Range(q) : v.slot = s
        BY <1>8
      <4>2. PICK k \in 1 .. Len(q) : q[k] = v
        BY <1>10 DEF Range
      <4>3. QED
        BY <4>1, <4>2
    <3> HIDE DEF f, seen
    <3>2. QED
      BY <2>1, <3>1
  <2> HIDE DEF f, seen
  <2>5. QED
    BY <1>6, <2>1, <2>3, <2>4, LengthIsCardinality
<1>12. \A j, k \in DOMAIN q : j < k => q[j].layer <= q[k].layer
  <2> DEFINE rank == [v \in View |-> v.layer + 1]
  <2>1. \A v \in View : v.layer \in Int
    BY <1>1 DEF View
  <2>2. rank \in [View -> Int]
    BY <2>1
  <2>3. ASSUME NEW l \in 1 .. Len(rows), NEW k \in DOMAIN rows[l]
        PROVE  rank[rows[l][k]] = l
    <3>1. rows[l][k] \in Range(rows[l]) /\ l \in 1 .. Layers
      BY <1>4 DEF Range
    <3>2. rows[l][k] \in Shown(l)
      BY <1>2, <3>1
    <3>3. QED
      BY <1>1, <3>1, <3>2 DEF OnLayer
  <2> HIDE DEF rank
  <2>4. \A j, k \in DOMAIN q : j < k => rank[q[j]] <= rank[q[k]]
    BY <1>3, <1>4, <2>2, <2>3, FlattenRanked
  <2>5. \A k \in DOMAIN q : rank[q[k]] = q[k].layer + 1 /\ q[k].layer \in Int
    BY <1>10, <2>1 DEF rank
  <2>6. QED
    BY <2>4, <2>5
<1>13. QED
  BY <1>6, <1>9, <1>11, <1>12 DEF q

\* What a slot of the program holds: an entity has a texture, and a free slot
\* is as if reset but for its timer and place.
Held == [status : {"none", "alive"}, layer : Nat, id : Nat, pos : Nat, clock : Nat]

FrameInvariant ==
    /\ entity \in [Slots -> Held]
    /\ debugRender \in BOOLEAN
    /\ \A s \in Slots : entity[s].status = "alive" <=> entity[s].id # 0

LEMMA AnimateKeeps ==
    ASSUME NEW e \in Held, NEW time \in FrameLengths
    PROVE  LET f == Timed(Animate(e), time) IN
           /\ f \in Held
           /\ f.status = e.status /\ f.layer = e.layer /\ f.id = e.id
<1> DEFINE t == Animate(e)
<1>1. /\ time \in Nat /\ MaxClock \in Nat /\ AnimationTime \in Nat
      /\ Width \in Nat /\ Strips \in Nat /\ Strips > 0
  BY GameFrameAssumption
<1>2. /\ e.clock \in Nat /\ e.pos \in Nat /\ e.id \in Nat /\ e.layer \in Nat
      /\ e.status \in {"none", "alive"}
      /\ e = [status |-> e.status, layer |-> e.layer, id |-> e.id, pos |-> e.pos,
              clock |-> e.clock]
  BY DEF Held
<1>3. t \in Held /\ t.status = e.status /\ t.layer = e.layer /\ t.id = e.id
  <2>1. CASE e.id = 0 \/ e.clock < AnimationTime
    BY <2>1 DEF Animate
  <2>2. CASE ~(e.id = 0 \/ e.clock < AnimationTime)
    <3> DEFINE w == WidthOf(e.id)
               p == IF e.pos < w THEN e.pos + w \div Strips ELSE 0
               c == e.clock - AnimationTime
    <3>1. w \in Nat
      BY <1>1 DEF WidthOf
    <3> HIDE DEF w
    <3>2. w \div Strips \in Nat
      BY <1>1, <3>1
    <3>3. p \in Nat /\ c \in Nat
      BY <1>1, <1>2, <2>2, <3>1, <3>2
    <3>4. t = [e EXCEPT !.clock = c, !.pos = p]
      BY <2>2 DEF Animate, Stepped, w
    <3> HIDE DEF p, c, t
    <3>5. QED
      BY <1>2, <3>3, <3>4 DEF Held
  <2>3. QED
    BY <2>1, <2>2
<1> HIDE DEF t
<1>4. /\ t.clock \in Nat /\ t.pos \in Nat /\ t.id \in Nat /\ t.layer \in Nat
      /\ t.status \in {"none", "alive"}
      /\ t = [status |-> t.status, layer |-> t.layer, id |-> t.id, pos |-> t.pos,
              clock |-> t.clock]
  BY <1>3 DEF Held
<1>5. Timed(t, time) \in Held /\ Timed(t, time).status = t.status
      /\ Timed(t, time).layer = t.layer /\ Timed(t, time).id = t.id
  BY <1>1, <1>4 DEF Timed, Held
<1>6. QED
  BY <1>3, <1>5 DEF t

\* A frame draws each entity of a layer there is exactly once, the lower layers
\* first; the frame of F3 draws both views whole, or nothing; for any number of
\* layers, slots and entities.
THEOREM FramesComplete == FrameSpec => []FramesAreComplete
<1> DEFINE Inv == FrameInvariant /\ FramesAreComplete
<1>1. FrameInit => Inv
  <2> SUFFICES ASSUME FrameInit PROVE Inv
    OBVIOUS
  <2>1. Blank \in Held /\ Blank.status # "alive" /\ Blank.id = 0
    BY DEF Blank, Held
  <2>2. FrameInvariant
    BY <2>1 DEF FrameInit, FrameInvariant
  <2>3. QED
    BY <2>2 DEF FrameInit, FramesAreComplete
<1>2. Inv /\ [FrameNext]_frameVars => Inv'
  <2> SUFFICES ASSUME Inv, [FrameNext]_frameVars PROVE Inv'
    OBVIOUS
  <2>1. CASE LoadAsset
    <3>1. FrameInvariant'
      BY <2>1 DEF LoadAsset, FrameInvariant
    <3>2. QED
      BY <2>1, <3>1 DEF LoadAsset, NothingShown, FramesAreComplete
  <2>2. ASSUME NEW s \in Slots, Create(s) PROVE Inv'
    <3>1. PICK layer \in 0 .. MaxLayer, id \in 1 .. MaxTexture :
              entity' = [entity EXCEPT ![s] =
                             [@ EXCEPT !.status = "alive", !.layer = layer, !.id = id]]
      BY <2>2 DEF Create
    <3>2. layer \in Nat /\ id \in Nat /\ id # 0
      BY GameFrameAssumption
    <3>3. [entity[s] EXCEPT !.status = "alive", !.layer = layer, !.id = id] \in Held
      <4>1. entity[s] \in Held
        BY DEF FrameInvariant
      <4>2. QED
        BY <3>2, <4>1 DEF Held
    <3>4. /\ entity'[s].status = "alive" /\ entity'[s].id = id
          /\ \A u \in Slots : u # s => entity'[u] = entity[u]
          /\ entity' \in [Slots -> Held]
      <4>1. entity[s] \in Held
        BY DEF FrameInvariant
      <4>2. QED
        BY <3>1, <3>3, <4>1 DEF FrameInvariant, Held
    <3>5. FrameInvariant'
      BY <2>2, <3>2, <3>4 DEF Create, FrameInvariant
    <3>6. QED
      BY <2>2, <3>5 DEF Create, NothingShown, FramesAreComplete
  <2>3. ASSUME NEW s \in Slots, Destroy(s) PROVE Inv'
    <3>1. Blank \in Held /\ Blank.status # "alive" /\ Blank.id = 0
      BY DEF Blank, Held
    <3>2. FrameInvariant'
      BY <2>3, <3>1 DEF Destroy, FrameInvariant
    <3>3. QED
      BY <2>3, <3>2 DEF Destroy, NothingShown, FramesAreComplete
  <2>4. ASSUME NEW time \in FrameLengths, NEW f3 \in BOOLEAN, Frame(time, f3) PROVE Inv'
    <3>1. ASSUME NEW s \in Slots
          PROVE  /\ entity'[s] \in Held
                 /\ entity'[s].status = entity[s].status /\ entity'[s].layer = entity[s].layer
                 /\ entity'[s].id = entity[s].id
      <4>1. entity[s] \in Held
        BY DEF FrameInvariant
      <4>2. entity'[s] = IF s \in Animated THEN Timed(Animate(entity[s]), time) ELSE entity[s]
        BY <2>4 DEF Frame
      <4>3. QED
        BY <4>1, <4>2, AnimateKeeps
    <3>2. FrameInvariant'
      <4>1. entity' \in [Slots -> Held]
        BY <2>4, <3>1 DEF Frame
      <4>2. debugRender' \in BOOLEAN
        BY <2>4 DEF Frame, Toggle, FrameInvariant
      <4>3. QED
        BY <3>1, <4>1, <4>2 DEF FrameInvariant
    <3>3. FramesAreComplete'
      <4> DEFINE visible == {s \in Slots : entity[s].status = "alive"}
                 view == InLayers(entity, visible)
                 n == Cardinality(Visible')
                 whole(q) == /\ {v.slot : v \in Range(q)} = Visible'
                             /\ Len(q) = n
                             /\ \A i, j \in DOMAIN q : i < j => q[i].layer <= q[j].layer
      <4>1. visible = {s \in Slots : entity[s].id # 0}
        BY DEF FrameInvariant
      <4>2. Sprites(entity) = view /\ Boxes(entity) = view
        BY <4>1 DEF Sprites, Boxes
      <4>3. visible \in SUBSET Slots /\ \A s \in visible : entity[s].layer \in Nat
        BY DEF FrameInvariant, Held
      <4>4. Visible' = {s \in visible : entity[s].layer < Layers}
        BY <3>1 DEF Visible
      <4> HIDE DEF visible
      <4>5. view \in Seq(View) /\ Len(view) = n
        BY <4>3, <4>4, InLayersIs
      <4>6. whole(view)
        BY <4>3, <4>4, InLayersIs
      <4>7. toggled' = f3 /\ debugRender' = (IF f3 THEN ~debugRender ELSE debugRender)
        BY <2>4 DEF Frame, Toggle
      <4>8. drawn' = (IF debugRender THEN <<>> ELSE view) \o (IF debugRender' THEN view ELSE <<>>)
        BY <2>4, <4>2, <4>7 DEF Frame, Toggle
      <4> HIDE DEF view
      <4>9. debugRender \in BOOLEAN
        BY DEF FrameInvariant
      <4>10. CASE ~f3
        <5>1. drawn' = view
          BY <4>5, <4>7, <4>8, <4>9, <4>10
        <5>2. Complete(drawn)'
          BY <4>6, <5>1 DEF Complete
        <5>3. QED
          BY <4>7, <4>10, <5>2 DEF FramesAreComplete
      <4>11. CASE f3 /\ debugRender
        <5>1. toggled' /\ ~debugRender'
          BY <4>7, <4>11
        <5>2. drawn' = <<>> \o <<>>
          BY <4>8, <4>11, <5>1
        <5>3. drawn' = <<>>
          BY <5>2
        <5>4. QED
          BY <5>1, <5>3 DEF FramesAreComplete
      <4>12. CASE f3 /\ ~debugRender
        <5>1. drawn' = view \o view
          BY <4>7, <4>8, <4>12
        <5>2. /\ SubSeq(drawn', 1, n) = view
              /\ SubSeq(drawn', n + 1, Len(drawn')) = view
          BY <4>5, <5>1
        <5>3. Complete(SubSeq(drawn, 1, Cardinality(Visible)))'
          BY <4>6, <5>2 DEF Complete
        <5>4. Complete(SubSeq(drawn, Cardinality(Visible) + 1, Len(drawn)))'
          BY <4>6, <5>2 DEF Complete
        <5>5. QED
          BY <4>7, <4>12, <5>3, <5>4 DEF FramesAreComplete
      <4>13. QED
        BY <4>9, <4>10, <4>11, <4>12
    <3>4. QED
      BY <3>2, <3>3
  <2>5. CASE UNCHANGED frameVars
    <3>1. UNCHANGED <<debugRender, entity, drawn, toggled, shown>>
      BY <2>5 DEF frameVars, screen
    <3>2. UNCHANGED Visible
      BY <3>1 DEF Visible
    <3>3. QED
      BY <3>1, <3>2 DEF FrameInvariant, FramesAreComplete, Complete
  <2>6. QED
    BY <2>1, <2>2, <2>3, <2>4, <2>5 DEF FrameNext, Frames
<1>3. QED
  BY <1>1, <1>2, PTL DEF FrameSpec

-----------------------------------------------------------------------------
(* Walks of queries. *)

Places == [pool : Walked, chunk : Nat, index : Nat]
Pairs == Places \X Places

\* The slots of a chunk and of a pool.
InChunk(p, k) == {Slot(p, k, i) : i \in 1 .. Chunks[p][k]}
InPool(p) == UNION {InChunk(p, k) : k \in DOMAIN Chunks[p]}

LEMMA ChunkIs ==
    ASSUME NEW p \in Walked
    PROVE  /\ Chunks[p] \in Seq(Nat) /\ Len(Chunks[p]) \in Nat
           /\ DOMAIN Chunks[p] = 1 .. Len(Chunks[p])
           /\ \A k \in DOMAIN Chunks[p] : k \in Nat /\ Chunks[p][k] \in Nat
           /\ \A k \in DOMAIN Chunks[p] : \A i \in 1 .. Chunks[p][k] : Slot(p, k, i) \in Places
           /\ \A k \in DOMAIN Chunks[p] : InChunk(p, k) \subseteq Places
           /\ InPool(p) \subseteq Places
<1>1. Chunks[p] \in Seq(Nat)
  BY QueryAssumption
<1>2. /\ Len(Chunks[p]) \in Nat /\ DOMAIN Chunks[p] = 1 .. Len(Chunks[p])
      /\ \A k \in DOMAIN Chunks[p] : k \in Nat /\ Chunks[p][k] \in Nat
  BY <1>1
<1>3. \A k \in DOMAIN Chunks[p] : \A i \in 1 .. Chunks[p][k] : Slot(p, k, i) \in Places
  BY <1>2 DEF Slot, Places
<1>4. \A k \in DOMAIN Chunks[p] : InChunk(p, k) \subseteq Places
  BY <1>3 DEF InChunk
<1>5. InPool(p) \subseteq Places
  BY <1>4 DEF InPool
<1>6. QED
  BY <1>1, <1>2, <1>3, <1>4, <1>5

\* Chunks share no slot, and pools share none.
LEMMA ChunksApart ==
    ASSUME NEW p \in Walked, NEW q \in Walked,
           NEW k \in DOMAIN Chunks[p], NEW l \in DOMAIN Chunks[q], p # q \/ k # l
    PROVE  InChunk(p, k) \cap InChunk(q, l) = {}
<1> SUFFICES ASSUME NEW i \in 1 .. Chunks[p][k], NEW j \in 1 .. Chunks[q][l],
                    Slot(p, k, i) = Slot(q, l, j)
             PROVE  FALSE
  BY DEF InChunk
<1>1. /\ Slot(p, k, i).pool = p /\ Slot(p, k, i).chunk = k
      /\ Slot(q, l, j).pool = q /\ Slot(q, l, j).chunk = l
  BY DEF Slot
<1>2. QED
  BY <1>1

LEMMA PoolsApart ==
    ASSUME NEW p \in Walked, NEW q \in Walked, p # q
    PROVE  InPool(p) \cap InPool(q) = {}
BY ChunksApart DEF InPool

LEMMA SlotsOfIs ==
    ASSUME NEW seq
    PROVE  SlotsOf(seq) = UNION {InPool(seq[n]) : n \in DOMAIN seq}
<1>1. SlotsOf(seq) = UNION {InPool(p) : p \in Range(seq)}
  BY DEF SlotsOf, InPool, InChunk
<1>2. QED
  BY <1>1 DEF Range

\* What a list of lists comes to when it is as long as the chunks of a pool,
\* or the pools of a query.
Once(q, E, S) == q \in Seq(E) /\ IsInjective(q) /\ Range(q) = S
Together(S, n) == UNION {S[i] : i \in 1 .. n}

LEMMA FlattenOnce ==
    ASSUME NEW E, NEW n \in Nat, NEW seqs, seqs = [i \in 1 .. n |-> seqs[i]],
           NEW S, \A i \in 1 .. n : Once(seqs[i], E, S[i]),
           \A i, j \in 1 .. n : i # j => S[i] \cap S[j] = {}
    PROVE  Once(FlattenSeq(seqs), E, Together(S, n))
<1>1. seqs \in Seq(Seq(E)) /\ DOMAIN seqs = 1 .. n
  <2>1. \A i \in 1 .. n : seqs[i] \in Seq(E)
    BY DEF Once
  <2>2. QED
    BY <2>1
<1>2. /\ \A i \in 1 .. n : IsInjective(seqs[i]) /\ Range(seqs[i]) = S[i]
      /\ \A i, j \in 1 .. n : i # j => Range(seqs[i]) \cap Range(seqs[j]) = {}
  BY DEF Once
<1>3. /\ FlattenSeq(seqs) \in Seq(E)
      /\ Range(FlattenSeq(seqs)) = UNION {Range(seqs[i]) : i \in 1 .. n}
      /\ IsInjective(FlattenSeq(seqs))
  BY <1>1, <1>2, FlattenHolds
<1>4. UNION {Range(seqs[i]) : i \in 1 .. n} = Together(S, n)
  BY <1>2 DEF Together
<1>5. QED
  BY <1>3, <1>4 DEF Once

\* map calls its function once for each slot of a pool.
LEMMA MapCallsOnce ==
    ASSUME NEW p \in Walked
    PROVE  Once(MapCalls(p), {<<s>> : s \in Places}, {<<s>> : s \in InPool(p)})
<1> DEFINE n == Len(Chunks[p])
           E == {<<s>> : s \in Places}
           row(k) == [i \in 1 .. Chunks[p][k] |-> <<Slot(p, k, i)>>]
           seqs == [k \in 1 .. n |-> row(k)]
           S == [k \in 1 .. n |-> {<<s>> : s \in InChunk(p, k)}]
<1>1. /\ n \in Nat /\ DOMAIN Chunks[p] = 1 .. n
      /\ \A k \in 1 .. n : k \in Nat /\ Chunks[p][k] \in Nat
      /\ \A k \in 1 .. n : \A i \in 1 .. Chunks[p][k] : Slot(p, k, i) \in Places
  BY ChunkIs
<1> HIDE DEF n
<1>2. ASSUME NEW k \in 1 .. n
      PROVE  Once(seqs[k], E, S[k])
  <2>1. seqs[k] = row(k) /\ S[k] = {<<s>> : s \in InChunk(p, k)}
    OBVIOUS
  <2>2. \A i \in 1 .. Chunks[p][k] : <<Slot(p, k, i)>> \in E
    BY <1>1
  <2>3. row(k) \in Seq(E) /\ DOMAIN row(k) = 1 .. Chunks[p][k]
    <3> HIDE DEF E
    <3>1. QED
      BY <1>1, <2>2
  <2>4. IsInjective(row(k))
    <3> SUFFICES ASSUME NEW i \in 1 .. Chunks[p][k], NEW j \in 1 .. Chunks[p][k],
                        <<Slot(p, k, i)>> = <<Slot(p, k, j)>>
                 PROVE  i = j
      BY DEF IsInjective
    <3>1. Slot(p, k, i).index = i /\ Slot(p, k, j).index = j
      BY DEF Slot
    <3>2. Slot(p, k, i) = Slot(p, k, j)
      OBVIOUS
    <3>3. QED
      BY <3>1, <3>2
  <2>5. Range(row(k)) = {<<s>> : s \in InChunk(p, k)}
    BY DEF Range, InChunk
  <2> HIDE DEF row, seqs, S, E
  <2>6. QED
    BY <2>1, <2>3, <2>4, <2>5 DEF Once
<1>3. \A k, l \in 1 .. n : k # l => S[k] \cap S[l] = {}
  <2> SUFFICES ASSUME NEW k \in 1 .. n, NEW l \in 1 .. n, k # l,
                      NEW s \in InChunk(p, k), NEW u \in InChunk(p, l), <<s>> = <<u>>
               PROVE  FALSE
    OBVIOUS
  <2>1. s = u
    OBVIOUS
  <2>2. QED
    BY <1>1, <2>1, ChunksApart
<1>4. Once(FlattenSeq(seqs), E, Together(S, n))
  <2>1. seqs = [k \in 1 .. n |-> seqs[k]]
    OBVIOUS
  <2> HIDE DEF seqs, S, E
  <2>2. QED
    BY <1>1, <1>2, <1>3, <2>1, FlattenOnce
<1>5. Together(S, n) = {<<s>> : s \in InPool(p)}
  BY <1>1 DEF InPool, Together
<1>6. MapCalls(p) = FlattenSeq(seqs)
  BY <1>1 DEF MapCalls
<1>7. QED
  BY <1>4, <1>5, <1>6

Cross(A, B) == A \X B

\* cross calls its function once for each pair of slots of two chunks ...
LEMMA CrossChunksOnce ==
    ASSUME NEW p \in Walked, NEW q \in Walked,
           NEW k \in DOMAIN Chunks[p], NEW l \in DOMAIN Chunks[q]
    PROVE  Once(CrossChunks(p, k, q, l), Pairs, Cross(InChunk(p, k), InChunk(q, l)))
<1> DEFINE a == Chunks[p][k]
           b == Chunks[q][l]
           row(i) == [j \in 1 .. b |-> <<Slot(p, k, i), Slot(q, l, j)>>]
           seqs == [i \in 1 .. a |-> row(i)]
           S == [i \in 1 .. a |-> {Slot(p, k, i)} \X InChunk(q, l)]
<1>1. /\ a \in Nat /\ b \in Nat
      /\ \A i \in 1 .. a : Slot(p, k, i) \in Places
      /\ \A j \in 1 .. b : Slot(q, l, j) \in Places
  BY ChunkIs
<1>2. /\ \A i, j \in 1 .. a : Slot(p, k, i) = Slot(p, k, j) => i = j
      /\ \A i, j \in 1 .. b : Slot(q, l, i) = Slot(q, l, j) => i = j
  <2>1. \A i : Slot(p, k, i).index = i /\ Slot(q, l, i).index = i
    BY DEF Slot
  <2>2. QED
    BY <2>1
<1>3. ASSUME NEW i \in 1 .. a
      PROVE  Once(seqs[i], Pairs, S[i])
  <2>1. seqs[i] = row(i) /\ S[i] = {Slot(p, k, i)} \X InChunk(q, l)
    OBVIOUS
  <2>2. \A j \in 1 .. b : <<Slot(p, k, i), Slot(q, l, j)>> \in Pairs
    BY <1>1 DEF Pairs
  <2>3. row(i) \in Seq(Pairs) /\ DOMAIN row(i) = 1 .. b
    BY <1>1, <2>2
  <2>4. IsInjective(row(i))
    BY <1>2 DEF IsInjective
  <2>5. Range(row(i)) = {Slot(p, k, i)} \X InChunk(q, l)
    <3>1. \A c \in Range(row(i)) : c \in {Slot(p, k, i)} \X InChunk(q, l)
      <4> TAKE c \in Range(row(i))
      <4>1. PICK j \in 1 .. b : c = <<Slot(p, k, i), Slot(q, l, j)>>
        BY DEF Range
      <4>2. Slot(q, l, j) \in InChunk(q, l)
        BY DEF InChunk
      <4>3. QED
        BY <4>1, <4>2
    <3>2. \A s \in InChunk(q, l) : <<Slot(p, k, i), s>> \in Range(row(i))
      BY DEF Range, InChunk
    <3>3. QED
      BY <3>1, <3>2
  <2> HIDE DEF row, seqs, S, a, b
  <2>6. QED
    BY <2>1, <2>3, <2>4, <2>5 DEF Once
<1>4. \A i, j \in 1 .. a : i # j => S[i] \cap S[j] = {}
  BY <1>2
<1>5. Once(FlattenSeq(seqs), Pairs, Together(S, a))
  <2>1. seqs = [i \in 1 .. a |-> seqs[i]]
    OBVIOUS
  <2> HIDE DEF seqs, S, a
  <2>2. QED
    BY <1>1, <1>3, <1>4, <2>1, FlattenOnce
<1>6. Together(S, a) = InChunk(p, k) \X InChunk(q, l)
  <2>1. \A c \in Together(S, a) : c \in InChunk(p, k) \X InChunk(q, l)
    <3> TAKE c \in Together(S, a)
    <3>1. PICK i \in 1 .. a : c \in {Slot(p, k, i)} \X InChunk(q, l)
      BY DEF Together
    <3>2. Slot(p, k, i) \in InChunk(p, k)
      BY DEF InChunk
    <3>3. QED
      BY <3>1, <3>2
  <2>2. \A s \in InChunk(p, k), u \in InChunk(q, l) : <<s, u>> \in Together(S, a)
    <3> TAKE s \in InChunk(p, k), u \in InChunk(q, l)
    <3>1. PICK i \in 1 .. a : s = Slot(p, k, i)
      BY DEF InChunk
    <3>2. <<s, u>> \in S[i]
      BY <3>1
    <3> HIDE DEF S, a
    <3>3. QED
      BY <3>1, <3>2 DEF Together
  <2> HIDE DEF S, a
  <2>3. QED
    BY <2>1, <2>2
<1>7. CrossChunks(p, k, q, l) = FlattenSeq(seqs)
  BY DEF CrossChunks
<1>8. QED
  BY <1>5, <1>6, <1>7 DEF Cross

\* ... and what goes for the parts of one side goes for the whole of it.
LEMMA PairsTogether ==
    ASSUME NEW A, NEW n, NEW B, NEW S, \A i \in 1 .. n : S[i] = Cross(A, B[i])
    PROVE  Together(S, n) = Cross(A, Together(B, n))
<1> USE DEF Cross
<1>1. \A c \in Together(S, n) : c \in A \X Together(B, n)
  BY DEF Together
<1>2. \A s \in A, u \in Together(B, n) : <<s, u>> \in Together(S, n)
  BY DEF Together
<1>3. QED
  BY <1>1, <1>2

LEMMA TogetherPairs ==
    ASSUME NEW A, NEW n, NEW B, NEW S, \A i \in 1 .. n : S[i] = Cross(B[i], A)
    PROVE  Together(S, n) = Cross(Together(B, n), A)
<1> USE DEF Cross
<1>1. \A c \in Together(S, n) : c \in Together(B, n) \X A
  BY DEF Together
<1>2. \A s \in A, u \in Together(B, n) : <<u, s>> \in Together(S, n)
  BY DEF Together
<1>3. QED
  BY <1>1, <1>2

LEMMA InPoolIs ==
    ASSUME NEW p \in Walked, NEW B, \A k \in DOMAIN Chunks[p] : B[k] = InChunk(p, k)
    PROVE  Together(B, Len(Chunks[p])) = InPool(p)
BY ChunkIs DEF Together, InPool

\* Two pools, chunk by chunk.
CrossPools(p, q) ==
    FlattenSeq([k \in DOMAIN Chunks[p] |->
        FlattenSeq([l \in DOMAIN Chunks[q] |-> CrossChunks(p, k, q, l)])])

LEMMA CrossPoolsOnce ==
    ASSUME NEW p \in Walked, NEW q \in Walked
    PROVE  Once(CrossPools(p, q), Pairs, Cross(InPool(p), InPool(q)))
<1> DEFINE a == Len(Chunks[p])
           b == Len(Chunks[q])
<1>1. a \in Nat /\ b \in Nat /\ DOMAIN Chunks[p] = 1 .. a /\ DOMAIN Chunks[q] = 1 .. b
  BY ChunkIs
<1> HIDE DEF a, b
<1>2. ASSUME NEW k \in 1 .. a
      PROVE  Once(FlattenSeq([l \in 1 .. b |-> CrossChunks(p, k, q, l)]), Pairs,
                  Cross(InChunk(p, k), InPool(q)))
  <2> DEFINE seqs == [l \in 1 .. b |-> CrossChunks(p, k, q, l)]
             B == [l \in 1 .. b |-> InChunk(q, l)]
             S == [l \in 1 .. b |-> Cross(InChunk(p, k), InChunk(q, l))]
  <2>1. \A l \in 1 .. b :
            Once(CrossChunks(p, k, q, l), Pairs, Cross(InChunk(p, k), InChunk(q, l)))
    BY <1>1, CrossChunksOnce
  <2>2. \A l \in 1 .. b : Once(seqs[l], Pairs, S[l])
    BY <2>1
  <2>3. \A l, m \in 1 .. b : l # m => B[l] \cap B[m] = {}
    BY <1>1, ChunksApart
  <2>4. \A l, m \in 1 .. b : l # m => S[l] \cap S[m] = {}
    BY <2>3 DEF Cross
  <2>5. seqs = [l \in 1 .. b |-> seqs[l]] /\ \A l \in 1 .. b : S[l] = Cross(InChunk(p, k), B[l])
    OBVIOUS
  <2>6. Together(B, b) = InPool(q)
    BY <1>1, InPoolIs DEF b
  <2> HIDE DEF seqs, S, B
  <2>7. Once(FlattenSeq(seqs), Pairs, Together(S, b))
    BY <1>1, <2>2, <2>4, <2>5, FlattenOnce
  <2>8. Together(S, b) = Cross(InChunk(p, k), InPool(q))
    BY <2>5, <2>6, PairsTogether
  <2>9. QED
    BY <2>7, <2>8 DEF seqs
<1> DEFINE seqs == [k \in 1 .. a |-> FlattenSeq([l \in 1 .. b |-> CrossChunks(p, k, q, l)])]
           B == [k \in 1 .. a |-> InChunk(p, k)]
           S == [k \in 1 .. a |-> Cross(InChunk(p, k), InPool(q))]
<1>3. \A k \in 1 .. a : Once(seqs[k], Pairs, S[k])
  BY <1>2
<1>4. \A k, m \in 1 .. a : k # m => B[k] \cap B[m] = {}
  BY <1>1, ChunksApart
<1>5. \A k, m \in 1 .. a : k # m => S[k] \cap S[m] = {}
  BY <1>4 DEF Cross
<1>6. seqs = [k \in 1 .. a |-> seqs[k]] /\ \A k \in 1 .. a : S[k] = Cross(B[k], InPool(q))
  OBVIOUS
<1>7. Together(B, a) = InPool(p)
  BY <1>1, InPoolIs DEF a
<1>8. CrossPools(p, q) = FlattenSeq(seqs)
  BY <1>1 DEF CrossPools
<1> HIDE DEF seqs, S, B
<1>9. Once(FlattenSeq(seqs), Pairs, Together(S, a))
  BY <1>1, <1>3, <1>5, <1>6, FlattenOnce
<1>10. Together(S, a) = Cross(InPool(p), InPool(q))
  BY <1>6, <1>7, TogetherPairs
<1>11. QED
  BY <1>8, <1>9, <1>10

LEMMA WalkIs ==
    ASSUME NEW w \in Walks
    PROVE  /\ w.first \in Seq(Walked) /\ w.second \in Seq(Walked)
           /\ IsInjective(w.first) /\ IsInjective(w.second)
           /\ DOMAIN w.first = 1 .. Len(w.first) /\ DOMAIN w.second = 1 .. Len(w.second)
           /\ Len(w.first) \in Nat /\ Len(w.second) \in Nat
           /\ \A n \in DOMAIN w.first : w.first[n] \in Walked
           /\ \A n \in DOMAIN w.second : w.second[n] \in Walked
           /\ w.kind \in {"map", "cross", "selfCross"}
<1>1. /\ w.first \in Seq(Walked) /\ w.second \in Seq(Walked)
      /\ w.kind \in {"map", "cross", "selfCross"}
  BY QueryAssumption
<1>2. IsInjective(w.first) /\ IsInjective(w.second)
  BY QueryAssumption
<1>3. QED
  BY <1>1, <1>2

\* The pools of a query, one after the other.
LEMMA PoolsTogether ==
    ASSUME NEW seq \in Seq(Walked), NEW B, \A n \in DOMAIN seq : B[n] = InPool(seq[n])
    PROVE  Together(B, Len(seq)) = SlotsOf(seq)
BY SlotsOfIs DEF Together

LEMMA CrossCallsOnce ==
    ASSUME NEW w \in Walks, w.kind = "cross", NEW p \in Walked
    PROVE  Once(CrossCalls(w, p), Pairs, Cross(InPool(p), SlotsOf(w.second)))
<1> DEFINE a == Len(w.second)
           q(n) == w.second[n]
           seqs == [n \in 1 .. a |-> CrossPools(p, q(n))]
           B == [n \in 1 .. a |-> InPool(q(n))]
           S == [n \in 1 .. a |-> Cross(InPool(p), InPool(q(n)))]
<1>1. /\ a \in Nat /\ DOMAIN w.second = 1 .. a /\ \A n \in 1 .. a : q(n) \in Walked
      /\ \A m, n \in 1 .. a : m # n => q(m) # q(n)
  <2>1. a \in Nat /\ DOMAIN w.second = 1 .. a /\ \A n \in 1 .. a : q(n) \in Walked
    BY WalkIs
  <2>2. QED
    BY <2>1, WalkIs DEF IsInjective
<1>2. CrossCalls(w, p) = FlattenSeq(seqs)
  BY <1>1 DEF CrossCalls, CrossPools
<1>3. \A n \in 1 .. a : Once(seqs[n], Pairs, S[n])
  BY <1>1, CrossPoolsOnce
<1>4. \A m, n \in 1 .. a : m # n => B[m] \cap B[n] = {}
  BY <1>1, PoolsApart
<1>5. \A m, n \in 1 .. a : m # n => S[m] \cap S[n] = {}
  BY <1>4 DEF Cross
<1>6. seqs = [n \in 1 .. a |-> seqs[n]] /\ \A n \in 1 .. a : S[n] = Cross(InPool(p), B[n])
  OBVIOUS
<1>7. Together(B, a) = SlotsOf(w.second)
  BY <1>1, PoolsTogether, WalkIs
<1> HIDE DEF a, seqs, S, B
<1>8. Once(FlattenSeq(seqs), Pairs, Together(S, a))
  BY <1>1, <1>3, <1>5, <1>6, FlattenOnce
<1>9. Together(S, a) = Cross(InPool(p), SlotsOf(w.second))
  BY <1>6, <1>7, PairsTogether
<1>10. QED
  BY <1>2, <1>8, <1>9

\* What a walk calls its function on, pool by pool.
CallsAre(w) == [n \in DOMAIN w.first |-> CallsOf(w, PoolOf(w, n))]

\* A walk of one query calls each slot once.
LEMMA MapOnce ==
    ASSUME NEW w \in Walks, w.kind = "map"
    PROVE  Once(FlattenSeq(CallsAre(w)), {<<s>> : s \in Places}, {<<s>> : s \in SlotsOf(w.first)})
<1> DEFINE a == Len(w.first)
           q(n) == w.first[n]
           E == {<<s>> : s \in Places}
           seqs == [n \in 1 .. a |-> MapCalls(q(n))]
           S == [n \in 1 .. a |-> {<<s>> : s \in InPool(q(n))}]
<1>1. /\ a \in Nat /\ DOMAIN w.first = 1 .. a /\ \A n \in 1 .. a : q(n) \in Walked
      /\ \A m, n \in 1 .. a : m # n => q(m) # q(n)
  <2>1. a \in Nat /\ DOMAIN w.first = 1 .. a /\ \A n \in 1 .. a : q(n) \in Walked
    BY WalkIs
  <2>2. QED
    BY <2>1, WalkIs DEF IsInjective
<1>2. CallsAre(w) = seqs
  BY <1>1 DEF CallsAre, CallsOf, PoolOf
<1>3. \A n \in 1 .. a : Once(seqs[n], E, S[n])
  BY <1>1, MapCallsOnce
<1>4. \A m, n \in 1 .. a : m # n => S[m] \cap S[n] = {}
  <2> SUFFICES ASSUME NEW m \in 1 .. a, NEW n \in 1 .. a, m # n,
                      NEW s \in InPool(q(m)), NEW u \in InPool(q(n)), <<s>> = <<u>>
               PROVE  FALSE
    OBVIOUS
  <2>1. s = u /\ InPool(q(m)) \cap InPool(q(n)) = {}
    BY <1>1, PoolsApart
  <2>2. QED
    BY <2>1
<1>5. Together(S, a) = {<<s>> : s \in SlotsOf(w.first)}
  <2> DEFINE B == [n \in 1 .. a |-> InPool(q(n))]
  <2>1. Together(B, a) = SlotsOf(w.first)
    BY <1>1, PoolsTogether, WalkIs
  <2>2. Together(S, a) = {<<s>> : s \in Together(B, a)}
    <3>1. \A n \in 1 .. a : S[n] = {<<s>> : s \in B[n]}
      OBVIOUS
    <3> HIDE DEF S, B, a
    <3>2. \A c \in Together(S, a) : \E s \in Together(B, a) : c = <<s>>
      BY <3>1 DEF Together
    <3>3. \A s \in Together(B, a) : <<s>> \in Together(S, a)
      BY <3>1 DEF Together
    <3>4. QED
      BY <3>2, <3>3
  <2>3. QED
    BY <2>1, <2>2
<1>6. seqs = [n \in 1 .. a |-> seqs[n]]
  OBVIOUS
<1> HIDE DEF a, E, seqs, S
<1>7. Once(FlattenSeq(seqs), E, Together(S, a))
  BY <1>1, <1>3, <1>4, <1>6, FlattenOnce
<1>8. QED
  BY <1>2, <1>5, <1>7 DEF E

\* A walk of two calls each pair once.
LEMMA CrossOnce ==
    ASSUME NEW w \in Walks, w.kind = "cross"
    PROVE  Once(FlattenSeq(CallsAre(w)), Pairs, Cross(SlotsOf(w.first), SlotsOf(w.second)))
<1> DEFINE a == Len(w.first)
           q(n) == w.first[n]
           others == SlotsOf(w.second)
           seqs == [n \in 1 .. a |-> CrossCalls(w, q(n))]
           B == [n \in 1 .. a |-> InPool(q(n))]
           S == [n \in 1 .. a |-> Cross(InPool(q(n)), others)]
<1>1. /\ a \in Nat /\ DOMAIN w.first = 1 .. a /\ \A n \in 1 .. a : q(n) \in Walked
      /\ \A m, n \in 1 .. a : m # n => q(m) # q(n)
  <2>1. a \in Nat /\ DOMAIN w.first = 1 .. a /\ \A n \in 1 .. a : q(n) \in Walked
    BY WalkIs
  <2>2. QED
    BY <2>1, WalkIs DEF IsInjective
<1>2. CallsAre(w) = seqs
  BY <1>1 DEF CallsAre, CallsOf, PoolOf
<1>3. \A n \in 1 .. a : Once(seqs[n], Pairs, S[n])
  BY <1>1, CrossCallsOnce
<1>4. \A m, n \in 1 .. a : m # n => B[m] \cap B[n] = {}
  BY <1>1, PoolsApart
<1>5. \A m, n \in 1 .. a : m # n => S[m] \cap S[n] = {}
  BY <1>4 DEF Cross
<1>6. seqs = [n \in 1 .. a |-> seqs[n]] /\ \A n \in 1 .. a : S[n] = Cross(B[n], others)
  OBVIOUS
<1>7. Together(B, a) = SlotsOf(w.first)
  BY <1>1, PoolsTogether, WalkIs
<1> HIDE DEF a, seqs, S, B, others
<1>8. Once(FlattenSeq(seqs), Pairs, Together(S, a))
  BY <1>1, <1>3, <1>5, <1>6, FlattenOnce
<1>9. Together(S, a) = Cross(SlotsOf(w.first), others)
  BY <1>6, <1>7, TogetherPairs
<1>10. QED
  BY <1>2, <1>8, <1>9 DEF others

LEMMA FlattenRange ==
    ASSUME NEW E, NEW n \in Nat, NEW seqs, seqs = [i \in 1 .. n |-> seqs[i]],
           \A i \in 1 .. n : seqs[i] \in Seq(E)
    PROVE  /\ FlattenSeq(seqs) \in Seq(E)
           /\ \A c : c \in Range(FlattenSeq(seqs)) <=> \E i \in 1 .. n : c \in Range(seqs[i])
<1>1. seqs \in Seq(Seq(E)) /\ DOMAIN seqs = 1 .. n
  OBVIOUS
<1>2. /\ FlattenSeq(seqs) \in Seq(E)
      /\ Range(FlattenSeq(seqs)) = UNION {Range(seqs[i]) : i \in 1 .. n}
  BY <1>1, FlattenHolds
<1>3. QED
  BY <1>2

\* selfCross calls its function on each slot of a chunk with each of another
\* whose index is not above, but for one with itself.
LEMMA SelfCrossChunksAre ==
    ASSUME NEW p \in Walked, NEW q \in Walked,
           NEW k \in DOMAIN Chunks[p], NEW l \in DOMAIN Chunks[q]
    PROVE  /\ SelfCrossChunks(p, k, q, l) \in Seq(Pairs)
           /\ \A c : c \in Range(SelfCrossChunks(p, k, q, l)) <=>
                  \E i \in 1 .. Chunks[p][k] : \E j \in 1 .. i :
                      c = <<Slot(p, k, i), Slot(q, l, j)>> /\ Slot(p, k, i) # Slot(q, l, j)
<1> DEFINE a == Chunks[p][k]
           cell(i, j) == IF Slot(p, k, i) = Slot(q, l, j) THEN <<>>
                         ELSE <<<<Slot(p, k, i), Slot(q, l, j)>>>>
           row(i) == [j \in 1 .. i |-> cell(i, j)]
           seqs == [i \in 1 .. a |-> FlattenSeq(row(i))]
<1>1. /\ a \in Nat /\ k \in Nat /\ l \in Nat
      /\ \A i \in 1 .. a : Slot(p, k, i) \in Places
  BY ChunkIs
<1>2. \A j \in Nat : Slot(q, l, j) \in Places
  BY <1>1 DEF Slot, Places
<1> HIDE DEF a
<1>3. ASSUME NEW i \in 1 .. a
      PROVE  /\ FlattenSeq(row(i)) \in Seq(Pairs)
             /\ \A c : c \in Range(FlattenSeq(row(i))) <=>
                    \E j \in 1 .. i :
                        c = <<Slot(p, k, i), Slot(q, l, j)>> /\ Slot(p, k, i) # Slot(q, l, j)
  <2> DEFINE r == row(i)
  <2>1. i \in Nat
    BY <1>1
  <2>2. ASSUME NEW j \in 1 .. i
        PROVE  /\ r[j] \in Seq(Pairs)
               /\ \A c : c \in Range(r[j]) <=>
                      c = <<Slot(p, k, i), Slot(q, l, j)>> /\ Slot(p, k, i) # Slot(q, l, j)
    <3> DEFINE pair == <<Slot(p, k, i), Slot(q, l, j)>>
               same == Slot(p, k, i) = Slot(q, l, j)
    <3>1. r[j] = IF same THEN <<>> ELSE <<pair>>
      OBVIOUS
    <3>2. pair \in Pairs
      BY <1>1, <1>2, <2>1 DEF Pairs
    <3> HIDE DEF pair, same, r
    <3>3. CASE same
      <4>1. r[j] = <<>> /\ DOMAIN <<>> = {}
        BY <3>1, <3>3
      <4>2. Range(r[j]) = {}
        BY <4>1 DEF Range
      <4>3. QED
        BY <3>3, <4>1, <4>2 DEF same
    <3>4. CASE ~same
      <4>1. r[j] = <<pair>>
        BY <3>1, <3>4
      <4>2. DOMAIN <<pair>> = {1} /\ <<pair>>[1] = pair /\ <<pair>> \in Seq(Pairs)
        BY <3>2
      <4>3. Range(r[j]) = {pair}
        BY <4>1, <4>2 DEF Range
      <4>4. QED
        BY <3>4, <4>1, <4>2, <4>3 DEF same, pair
    <3>5. QED
      BY <3>3, <3>4
  <2>3. r = [j \in 1 .. i |-> r[j]]
    OBVIOUS
  <2> HIDE DEF r
  <2>4. /\ FlattenSeq(r) \in Seq(Pairs)
        /\ \A c : c \in Range(FlattenSeq(r)) <=> \E j \in 1 .. i : c \in Range(r[j])
    BY <2>1, <2>2, <2>3, FlattenRange
  <2>5. FlattenSeq(row(i)) = FlattenSeq(r)
    BY DEF r
  <2> HIDE DEF row
  <2>6. QED
    BY <2>2, <2>4, <2>5
<1>4. seqs = [i \in 1 .. a |-> seqs[i]] /\ SelfCrossChunks(p, k, q, l) = FlattenSeq(seqs)
  BY DEF SelfCrossChunks, a
<1>5. \A i \in 1 .. a : seqs[i] = FlattenSeq(row(i))
  OBVIOUS
<1> HIDE DEF row, seqs
<1>6. /\ FlattenSeq(seqs) \in Seq(Pairs)
      /\ \A c : c \in Range(FlattenSeq(seqs)) <=> \E i \in 1 .. a : c \in Range(seqs[i])
  <2>1. \A i \in 1 .. a : seqs[i] \in Seq(Pairs)
    BY <1>3, <1>5
  <2>2. QED
    BY <1>1, <1>4, <2>1, FlattenRange
<1>7. \A c : c \in Range(FlattenSeq(seqs)) <=>
               \E i \in 1 .. a : \E j \in 1 .. i :
                   c = <<Slot(p, k, i), Slot(q, l, j)>> /\ Slot(p, k, i) # Slot(q, l, j)
  <2>1. \A c : \A i \in 1 .. a :
            c \in Range(seqs[i]) <=>
                \E j \in 1 .. i :
                    c = <<Slot(p, k, i), Slot(q, l, j)>> /\ Slot(p, k, i) # Slot(q, l, j)
    BY <1>3, <1>5
  <2>2. QED
    BY <1>6, <2>1
<1>8. QED
  BY <1>4, <1>6, <1>7 DEF a

\* What it calls it on for one pool.
LEMMA SelfCrossCallsAre ==
    ASSUME NEW w \in Walks, w.kind = "selfCross", NEW p \in Walked
    PROVE  /\ CrossCalls(w, p) \in Seq(Pairs)
           /\ \A c : c \in Range(CrossCalls(w, p)) <=>
                  \E n \in DOMAIN w.second : \E k \in DOMAIN Chunks[p] :
                      \E l \in DOMAIN Chunks[w.second[n]] :
                          c \in Range(SelfCrossChunks(p, k, w.second[n], l))
<1> DEFINE a == Len(w.second)
           b == Len(Chunks[p])
           q(n) == w.second[n]
           cells(n, k) == [l \in DOMAIN Chunks[q(n)] |-> SelfCrossChunks(p, k, q(n), l)]
           rows(n) == [k \in DOMAIN Chunks[p] |-> FlattenSeq(cells(n, k))]
           seqs == [n \in DOMAIN w.second |-> FlattenSeq(rows(n))]
<1>1. a \in Nat /\ DOMAIN w.second = 1 .. a /\ \A n \in 1 .. a : q(n) \in Walked
  BY WalkIs
<1>2. b \in Nat /\ DOMAIN Chunks[p] = 1 .. b
  BY ChunkIs
<1>3. CrossCalls(w, p) = FlattenSeq(seqs)
  BY DEF CrossCalls
<1> HIDE DEF a, b
<1>4. ASSUME NEW n \in 1 .. a, NEW k \in 1 .. b
      PROVE  /\ FlattenSeq(cells(n, k)) \in Seq(Pairs)
             /\ \A c : c \in Range(FlattenSeq(cells(n, k))) <=>
                    \E l \in DOMAIN Chunks[q(n)] : c \in Range(SelfCrossChunks(p, k, q(n), l))
  <2> DEFINE d == Len(Chunks[q(n)])
             r == cells(n, k)
  <2>1. d \in Nat /\ DOMAIN Chunks[q(n)] = 1 .. d
    BY <1>1, ChunkIs
  <2>2. \A l \in 1 .. d : r[l] = SelfCrossChunks(p, k, q(n), l)
    BY <2>1
  <2>3. \A l \in 1 .. d : r[l] \in Seq(Pairs)
    BY <1>1, <1>2, <2>1, <2>2, SelfCrossChunksAre
  <2>4. r = [l \in 1 .. d |-> r[l]]
    BY <2>1
  <2> HIDE DEF r, d
  <2>5. /\ FlattenSeq(r) \in Seq(Pairs)
        /\ \A c : c \in Range(FlattenSeq(r)) <=> \E l \in 1 .. d : c \in Range(r[l])
    BY <2>1, <2>3, <2>4, FlattenRange
  <2>6. FlattenSeq(cells(n, k)) = FlattenSeq(r)
    BY DEF r
  <2> HIDE DEF cells
  <2>7. QED
    BY <2>1, <2>2, <2>5, <2>6
<1>5. ASSUME NEW n \in 1 .. a
      PROVE  /\ FlattenSeq(rows(n)) \in Seq(Pairs)
             /\ \A c : c \in Range(FlattenSeq(rows(n))) <=>
                    \E k \in 1 .. b : c \in Range(FlattenSeq(cells(n, k)))
  <2> DEFINE r == rows(n)
  <2>1. \A k \in 1 .. b : r[k] = FlattenSeq(cells(n, k))
    BY <1>2
  <2>2. r = [k \in 1 .. b |-> r[k]]
    BY <1>2
  <2>3. FlattenSeq(rows(n)) = FlattenSeq(r)
    OBVIOUS
  <2> HIDE DEF r, rows, cells
  <2>4. \A k \in 1 .. b : r[k] \in Seq(Pairs)
    BY <1>4, <2>1
  <2>5. /\ FlattenSeq(r) \in Seq(Pairs)
        /\ \A c : c \in Range(FlattenSeq(r)) <=> \E k \in 1 .. b : c \in Range(r[k])
    BY <1>2, <2>2, <2>4, FlattenRange
  <2>6. QED
    BY <2>1, <2>3, <2>5
<1>6. \A n \in 1 .. a : seqs[n] = FlattenSeq(rows(n))
  BY <1>1
<1>7. seqs = [n \in 1 .. a |-> seqs[n]]
  BY <1>1
<1> HIDE DEF cells, rows, seqs
<1>8. \A n \in 1 .. a : seqs[n] \in Seq(Pairs)
  BY <1>5, <1>6
<1>9. /\ FlattenSeq(seqs) \in Seq(Pairs)
      /\ \A c : c \in Range(FlattenSeq(seqs)) <=> \E n \in 1 .. a : c \in Range(seqs[n])
  BY <1>1, <1>7, <1>8, FlattenRange
<1>10. \A c : \A n \in 1 .. a :
           c \in Range(seqs[n]) <=>
               \E k \in 1 .. b : \E l \in DOMAIN Chunks[q(n)] :
                   c \in Range(SelfCrossChunks(p, k, q(n), l))
  <2> TAKE c
  <2> TAKE n \in 1 .. a
  <2>1. c \in Range(seqs[n]) <=> \E k \in 1 .. b : c \in Range(FlattenSeq(cells(n, k)))
    BY <1>5, <1>6
  <2>2. \A k \in 1 .. b :
            c \in Range(FlattenSeq(cells(n, k))) <=>
                \E l \in DOMAIN Chunks[q(n)] : c \in Range(SelfCrossChunks(p, k, q(n), l))
    BY <1>4
  <2>3. QED
    BY <2>1, <2>2
<1>11. QED
  BY <1>1, <1>2, <1>3, <1>9, <1>10

\* Calls that come once each are as many as there are different ones.
LEMMA OnceCounted ==
    ASSUME NEW w \in Walks, NEW E, NEW S, Once(FlattenSeq(CallsAre(w)), E, S),
           \A n \in DOMAIN w.first : CallsOf(w, PoolOf(w, n)) \in Seq(E),
           calls = CallsAre(w)
    PROVE  CallsMade = S /\ Cardinality(CallsMade) = Len(FlattenSeq(calls))
<1> DEFINE q == FlattenSeq(calls)
           a == Len(w.first)
<1>1. a \in Nat /\ DOMAIN w.first = 1 .. a
  BY WalkIs
<1>2. q \in Seq(E) /\ IsInjective(q) /\ Range(q) = S
  BY DEF Once
<1>3. calls = [n \in 1 .. a |-> calls[n]] /\ \A n \in 1 .. a : calls[n] \in Seq(E)
  BY <1>1 DEF CallsAre
<1>4. DOMAIN calls = 1 .. a
  BY <1>3
<1> HIDE DEF a
<1>5. \A c : c \in Range(q) <=> \E n \in 1 .. a : c \in Range(calls[n])
  <2> DEFINE seqs == calls
  <2>1. seqs = [n \in 1 .. a |-> seqs[n]] /\ \A n \in 1 .. a : seqs[n] \in Seq(E)
    BY <1>3
  <2>2. q = FlattenSeq(seqs) /\ \A n : calls[n] = seqs[n]
    OBVIOUS
  <2> HIDE DEF q, seqs
  <2>3. \A c : c \in Range(FlattenSeq(seqs)) <=> \E n \in 1 .. a : c \in Range(seqs[n])
    BY <1>1, <2>1, FlattenRange
  <2>4. QED
    BY <2>2, <2>3
<1>6. CallsMade = S
  BY <1>2, <1>4, <1>5 DEF CallsMade
<1> HIDE DEF q
<1>7. DOMAIN q = 1 .. Len(q)
  BY <1>2
<1>8. q \in [1 .. Len(q) -> S] /\ S = {q[i] : i \in 1 .. Len(q)}
  BY <1>2, <1>7 DEF Range
<1>9. Cardinality(S) = Len(q)
  BY <1>2, <1>8, LengthIsCardinality
<1>10. QED
  BY <1>6, <1>9 DEF q

\* selfCross misses no pair and makes none of one slot.
LEMMA SelfCrossMeets ==
    ASSUME NEW w \in Walks, w.kind = "selfCross", calls = CallsAre(w)
    PROVE  LET all == SlotsOf(w.first) IN
           /\ \A s, u \in all : s # u => {<<s, u>>, <<u, s>>} \cap CallsMade # {}
           /\ \A s \in all : <<s, s>> \notin CallsMade
           /\ CallsMade \subseteq all \X all
<1> DEFINE all == SlotsOf(w.first)
           q(n) == w.first[n]
           Between(c, p, k, r, l) ==
               \E i \in 1 .. Chunks[p][k] : \E j \in 1 .. i :
                   c = <<Slot(p, k, i), Slot(r, l, j)>> /\ Slot(p, k, i) # Slot(r, l, j)
<1>1. w.second = w.first /\ \A n \in DOMAIN w.first : q(n) \in Walked
  BY WalkIs, QueryAssumption
<1>2. \A m, n \in DOMAIN w.first : \A k \in DOMAIN Chunks[q(m)], l \in DOMAIN Chunks[q(n)] :
          Chunks[q(m)][k] = Chunks[q(n)][l]
  <2>1. \A n \in DOMAIN w.first : q(n) \in Range(w.first)
    BY DEF Range
  <2>2. QED
    BY <2>1, QueryAssumption
<1>3. \A c : c \in CallsMade <=>
                 \E m, n \in DOMAIN w.first :
                     \E k \in DOMAIN Chunks[q(m)], l \in DOMAIN Chunks[q(n)] :
                         Between(c, q(m), k, q(n), l)
  <2> TAKE c
  <2>1. DOMAIN calls = DOMAIN w.first
    BY DEF CallsAre
  <2>2. \A m \in DOMAIN w.first : calls[m] = CrossCalls(w, q(m))
    BY DEF CallsAre, CallsOf, PoolOf
  <2>3. c \in CallsMade <=> \E m \in DOMAIN w.first : c \in Range(CrossCalls(w, q(m)))
    BY <2>1, <2>2 DEF CallsMade
  <2>4. \A m \in DOMAIN w.first :
            c \in Range(CrossCalls(w, q(m))) <=>
                \E n \in DOMAIN w.first : \E k \in DOMAIN Chunks[q(m)] :
                    \E l \in DOMAIN Chunks[q(n)] :
                        c \in Range(SelfCrossChunks(q(m), k, q(n), l))
    BY <1>1, SelfCrossCallsAre
  <2>5. \A m, n \in DOMAIN w.first :
            \A k \in DOMAIN Chunks[q(m)], l \in DOMAIN Chunks[q(n)] :
                c \in Range(SelfCrossChunks(q(m), k, q(n), l)) <=> Between(c, q(m), k, q(n), l)
    BY <1>1, SelfCrossChunksAre
  <2> HIDE DEF Between
  <2>6. \A m \in DOMAIN w.first :
            c \in Range(CrossCalls(w, q(m))) <=>
                \E n \in DOMAIN w.first : \E k \in DOMAIN Chunks[q(m)] :
                    \E l \in DOMAIN Chunks[q(n)] : Between(c, q(m), k, q(n), l)
    <3> TAKE m \in DOMAIN w.first
    <3> DEFINE In(n, k, l) == c \in Range(SelfCrossChunks(q(m), k, q(n), l))
    <3>1. c \in Range(CrossCalls(w, q(m))) <=>
              \E n \in DOMAIN w.first : \E k \in DOMAIN Chunks[q(m)] :
                  \E l \in DOMAIN Chunks[q(n)] : In(n, k, l)
      BY <2>4
    <3>2. ASSUME NEW n \in DOMAIN w.first, NEW k \in DOMAIN Chunks[q(m)],
                 NEW l \in DOMAIN Chunks[q(n)]
          PROVE  In(n, k, l) <=> Between(c, q(m), k, q(n), l)
      BY <2>5
    <3> HIDE DEF In
    <3>3. QED
      BY <3>1, <3>2
  <2>7. QED
    BY <2>3, <2>6
<1>4. \A s \in all : \E m \in DOMAIN w.first : \E k \in DOMAIN Chunks[q(m)] :
          \E i \in 1 .. Chunks[q(m)][k] : s = Slot(q(m), k, i)
  <2> TAKE s \in all
  <2>1. PICK m \in DOMAIN w.first : s \in InPool(q(m))
    BY SlotsOfIs
  <2>2. QED
    BY <2>1 DEF InPool, InChunk
<1>5. \A m \in DOMAIN w.first : \A k \in DOMAIN Chunks[q(m)] : \A i \in 1 .. Chunks[q(m)][k] :
          Slot(q(m), k, i) \in all
  BY SlotsOfIs DEF InPool, InChunk
<1>6. \A m \in DOMAIN w.first : \A k \in DOMAIN Chunks[q(m)] : Chunks[q(m)][k] \in Nat
  BY <1>1, ChunkIs
<1> HIDE DEF all
<1>7. ASSUME NEW s \in all, NEW u \in all, s # u
      PROVE  {<<s, u>>, <<u, s>>} \cap CallsMade # {}
  <2>1. PICK m \in DOMAIN w.first : \E k \in DOMAIN Chunks[q(m)] :
            \E i \in 1 .. Chunks[q(m)][k] : s = Slot(q(m), k, i)
    BY <1>4
  <2>2. PICK k \in DOMAIN Chunks[q(m)] : \E i \in 1 .. Chunks[q(m)][k] : s = Slot(q(m), k, i)
    BY <2>1
  <2>3. PICK i \in 1 .. Chunks[q(m)][k] : s = Slot(q(m), k, i)
    BY <2>2
  <2>4. PICK n \in DOMAIN w.first : \E l \in DOMAIN Chunks[q(n)] :
            \E j \in 1 .. Chunks[q(n)][l] : u = Slot(q(n), l, j)
    BY <1>4
  <2>5. PICK l \in DOMAIN Chunks[q(n)] : \E j \in 1 .. Chunks[q(n)][l] : u = Slot(q(n), l, j)
    BY <2>4
  <2>6. PICK j \in 1 .. Chunks[q(n)][l] : u = Slot(q(n), l, j)
    BY <2>5
  <2>7. Chunks[q(m)][k] \in Nat /\ Chunks[q(n)][l] \in Nat
    BY <1>6
  <2>8. CASE j <= i
    <3>1. j \in 1 .. i
      BY <2>7, <2>8
    <3>2. Between(<<s, u>>, q(m), k, q(n), l)
      BY <1>7, <2>3, <2>6, <3>1
    <3> HIDE DEF Between
    <3>3. <<s, u>> \in CallsMade
      BY <1>3, <3>2
    <3>4. QED
      BY <3>3
  <2>9. CASE ~(j <= i)
    <3>1. i \in 1 .. j
      BY <2>7, <2>9
    <3>2. Between(<<u, s>>, q(n), l, q(m), k)
      BY <1>7, <2>3, <2>6, <3>1
    <3> HIDE DEF Between
    <3>3. <<u, s>> \in CallsMade
      BY <1>3, <3>2
    <3>4. QED
      BY <3>3
  <2>10. QED
    BY <2>8, <2>9
<1>8. ASSUME NEW c \in CallsMade
      PROVE  c \in all \X all /\ c[1] # c[2]
  <2>1. PICK m \in DOMAIN w.first, n \in DOMAIN w.first :
            \E k \in DOMAIN Chunks[q(m)], l \in DOMAIN Chunks[q(n)] :
                Between(c, q(m), k, q(n), l)
    <3> HIDE DEF Between
    <3>1. QED
      BY <1>3
  <2>2. PICK k \in DOMAIN Chunks[q(m)], l \in DOMAIN Chunks[q(n)] : Between(c, q(m), k, q(n), l)
    <3> HIDE DEF Between
    <3>1. QED
      BY <2>1
  <2>3. PICK i \in 1 .. Chunks[q(m)][k] : \E j \in 1 .. i :
            c = <<Slot(q(m), k, i), Slot(q(n), l, j)>> /\ Slot(q(m), k, i) # Slot(q(n), l, j)
    BY <2>2
  <2>4. PICK j \in 1 .. i :
            c = <<Slot(q(m), k, i), Slot(q(n), l, j)>> /\ Slot(q(m), k, i) # Slot(q(n), l, j)
    BY <2>3
  <2>5. Chunks[q(n)][l] = Chunks[q(m)][k] /\ Chunks[q(m)][k] \in Nat
    BY <1>2, <1>6
  <2>6. j \in 1 .. Chunks[q(n)][l]
    BY <2>5
  <2>7. Slot(q(m), k, i) \in all /\ Slot(q(n), l, j) \in all
    BY <1>5, <2>6
  <2>8. QED
    BY <2>4, <2>7
<1>9. \A s \in all : <<s, s>> \notin CallsMade
  <2> SUFFICES ASSUME NEW s \in all, <<s, s>> \in CallsMade PROVE FALSE
    OBVIOUS
  <2>1. <<s, s>>[1] # <<s, s>>[2]
    BY <1>8
  <2>2. QED
    BY <2>1
<1>10. QED
  BY <1>7, <1>8, <1>9 DEF all

WalkInvariant == walk \in Walks /\ calls = CallsAre(walk)

\* When a walk is over each slot, or each pair of slots, was called once, and
\* selfCross left out no pair, for any number of pools, chunks and slots.
THEOREM NobodyMissed == WalkSpec => []NobodyIsMissed
<1>1. WalkInit => WalkInvariant
  BY DEF WalkInit, WalkInvariant, CallsAre
<1>2. WalkInvariant /\ [WalkNext]_walkVars => WalkInvariant'
  BY DEF WalkInvariant, WalkNext, Begin, End, walkVars, CallsAre
<1>3. WalkInvariant => NobodyIsMissed
  <2> SUFFICES ASSUME WalkInvariant PROVE NobodyIsMissed
    OBVIOUS
  <2>1. walk \in Walks /\ calls = CallsAre(walk) /\ walk.kind \in {"map", "cross", "selfCross"}
    BY WalkIs DEF WalkInvariant
  <2>2. \A n \in DOMAIN walk.first : PoolOf(walk, n) \in Walked
    BY <2>1, WalkIs DEF PoolOf
  <2>3. CASE walk.kind = "map"
    <3> DEFINE E == {<<s>> : s \in Places}
               S == {<<s>> : s \in SlotsOf(walk.first)}
    <3>1. Once(FlattenSeq(CallsAre(walk)), E, S)
      BY <2>1, <2>3, MapOnce
    <3>2. \A n \in DOMAIN walk.first : CallsOf(walk, PoolOf(walk, n)) \in Seq(E)
      <4> TAKE n \in DOMAIN walk.first
      <4>1. CallsOf(walk, PoolOf(walk, n)) = MapCalls(PoolOf(walk, n))
        BY <2>3 DEF CallsOf
      <4>2. Once(MapCalls(PoolOf(walk, n)), E, {<<s>> : s \in InPool(PoolOf(walk, n))})
        BY <2>2, MapCallsOnce
      <4> HIDE DEF E
      <4>3. QED
        BY <4>1, <4>2 DEF Once
    <3> HIDE DEF E, S
    <3>3. CallsMade = S /\ Cardinality(CallsMade) = Len(FlattenSeq(calls))
      BY <2>1, <3>1, <3>2, OnceCounted
    <3>4. QED
      BY <2>3, <3>3 DEF S, NobodyIsMissed
  <2>4. CASE walk.kind = "cross"
    <3> DEFINE S == Cross(SlotsOf(walk.first), SlotsOf(walk.second))
    <3>1. Once(FlattenSeq(CallsAre(walk)), Pairs, S)
      BY <2>1, <2>4, CrossOnce
    <3>2. \A n \in DOMAIN walk.first : CallsOf(walk, PoolOf(walk, n)) \in Seq(Pairs)
      <4> TAKE n \in DOMAIN walk.first
      <4>1. CallsOf(walk, PoolOf(walk, n)) = CrossCalls(walk, PoolOf(walk, n))
        BY <2>4 DEF CallsOf
      <4>2. Once(CrossCalls(walk, PoolOf(walk, n)), Pairs,
                 Cross(InPool(PoolOf(walk, n)), SlotsOf(walk.second)))
        BY <2>1, <2>2, <2>4, CrossCallsOnce
      <4>3. QED
        BY <4>1, <4>2 DEF Once
    <3> HIDE DEF S
    <3>3. CallsMade = S /\ Cardinality(CallsMade) = Len(FlattenSeq(calls))
      BY <2>1, <3>1, <3>2, OnceCounted
    <3>4. QED
      BY <2>4, <3>3 DEF S, Cross, NobodyIsMissed
  <2>5. CASE walk.kind = "selfCross"
    BY <2>1, <2>5, SelfCrossMeets DEF NobodyIsMissed
  <2>6. QED
    BY <2>1, <2>3, <2>4, <2>5
<1>4. QED
  BY <1>1, <1>2, <1>3, PTL DEF WalkSpec
-----------------------------------------------------------------------------
(* Trees as sequences of nodes. *)

USE SchedulerAssumption

LEMMA NodeParts ==
    ASSUME NEW nodes, IsTree(nodes)
    PROVE  /\ Len(nodes) \in Nat /\ Len(nodes) >= 1 /\ DOMAIN nodes = 1 .. Len(nodes)
           /\ nodes \in Seq(Nodes)
           /\ \A i \in 1 .. Len(nodes) :
                  /\ nodes[i] \in Nodes /\ nodes[i].depth \in Nat
                  /\ nodes[i].starts \in Seq(AllSystems) /\ nodes[i].ends \in Seq(AllSystems)
<1>1. nodes \in Seq(Nodes) /\ nodes # <<>>
  BY DEF IsTree
<1>2. \A i \in 1 .. Len(nodes) : nodes[i] \in Nodes
  BY <1>1
<1>3. \A i \in 1 .. Len(nodes) :
          /\ nodes[i].depth \in Nat
          /\ nodes[i].starts \in Seq(AllSystems) /\ nodes[i].ends \in Seq(AllSystems)
  BY <1>2 DEF Nodes
<1>4. Len(nodes) \in Nat /\ Len(nodes) >= 1 /\ DOMAIN nodes = 1 .. Len(nodes)
  BY <1>1
<1>5. QED
  BY <1>1, <1>2, <1>3, <1>4

\* The last of the nodes behind i that are deeper than d, with none between
\* that is not.
LastDeeper(nodes, i, d) ==
    CHOOSE j \in i .. Len(nodes) :
        /\ \A k \in i + 1 .. j : nodes[k].depth > d
        /\ j < Len(nodes) => nodes[j + 1].depth <= d

LEMMA LastDeeperIs ==
    ASSUME NEW nodes, IsTree(nodes), NEW i \in 1 .. Len(nodes), NEW d \in Int
    PROVE  LET j == LastDeeper(nodes, i, d) IN
           /\ j \in i .. Len(nodes)
           /\ \A k \in i + 1 .. j : nodes[k].depth > d
           /\ j < Len(nodes) => nodes[j + 1].depth <= d
<1> DEFINE n == Len(nodes)
           Fits(j) == /\ \A k \in i + 1 .. j : nodes[k].depth > d
                      /\ j < n => nodes[j + 1].depth <= d
<1>1. n \in Nat /\ \A k \in 1 .. n : nodes[k].depth \in Nat
  BY NodeParts
<1>2. \E j \in i .. n : Fits(j)
  <2> SUFFICES ASSUME \A j \in i .. n : ~Fits(j) PROVE FALSE
    OBVIOUS
  <2> DEFINE S == {m \in 0 .. n - i : \A k \in i + 1 .. i + m : nodes[k].depth > d}
  <2>1. 0 \in S
    BY <1>1
  <2>2. ASSUME NEW m \in S, m < n - i PROVE m + 1 \in S
    <3>1. i + m \in i .. n /\ i + m < n /\ m + 1 \in 0 .. n - i /\ i + m + 1 \in 1 .. n
      BY <1>1, <2>2
    <3>2. ~(nodes[i + m + 1].depth <= d)
      BY <3>1
    <3>3. nodes[i + m + 1].depth > d
      BY <1>1, <3>1, <3>2
    <3>4. \A k \in i + 1 .. i + (m + 1) : k \in i + 1 .. i + m \/ k = i + m + 1
      BY <1>1, <3>1
    <3>5. QED
      BY <3>1, <3>3, <3>4
  <2>3. n - i \in S
    <3>1. S \subseteq Nat /\ n - i \in Nat
      BY <1>1
    <3> HIDE DEF S
    <3>2. QED
      BY <2>1, <2>2, <3>1, Induction
  <2>4. i + (n - i) = n /\ n \in i .. n /\ ~(n < n)
    BY <1>1
  <2>5. Fits(n)
    BY <2>3, <2>4
  <2>6. QED
    BY <2>4, <2>5
<1>3. QED
  BY <1>2 DEF LastDeeper

LEMMA LastDeeperOnly ==
    ASSUME NEW nodes, IsTree(nodes), NEW i \in 1 .. Len(nodes), NEW d \in Int,
           NEW j \in i .. Len(nodes),
           \A k \in i + 1 .. j : nodes[k].depth > d,
           j < Len(nodes) => nodes[j + 1].depth <= d
    PROVE  j = LastDeeper(nodes, i, d)
<1> DEFINE n == Len(nodes)
           l == LastDeeper(nodes, i, d)
<1>1. n \in Nat /\ \A k \in 1 .. n : nodes[k].depth \in Nat
  BY NodeParts
<1>2. /\ l \in i .. n /\ \A k \in i + 1 .. l : nodes[k].depth > d
      /\ l < n => nodes[l + 1].depth <= d
  BY LastDeeperIs
<1> HIDE DEF l
<1>3. CASE j < l
  <2>1. j + 1 \in i + 1 .. l /\ j < n /\ j + 1 \in 1 .. n
    BY <1>1, <1>2, <1>3
  <2>2. nodes[j + 1].depth > d /\ nodes[j + 1].depth <= d
    BY <1>2, <2>1
  <2>3. QED
    BY <1>1, <2>1, <2>2
<1>4. CASE l < j
  <2>1. l + 1 \in i + 1 .. j /\ l < n /\ l + 1 \in 1 .. n
    BY <1>1, <1>2, <1>4
  <2>2. nodes[l + 1].depth > d /\ nodes[l + 1].depth <= d
    BY <1>2, <2>1
  <2>3. QED
    BY <1>1, <2>1, <2>2
<1>5. QED
  BY <1>1, <1>2, <1>3, <1>4 DEF l

\* k is i or below it.
Under(nodes, i, k) ==
    i <= k /\ \A m \in i + 1 .. k : nodes[m].depth > nodes[i].depth

\* The nodes up to LastBelow are those below.
LEMMA LastBelowIs ==
    ASSUME NEW nodes, IsTree(nodes), NEW i \in 1 .. Len(nodes)
    PROVE  /\ LastBelow(nodes, i) \in i .. Len(nodes)
           /\ \A k \in i + 1 .. LastBelow(nodes, i) : nodes[k].depth > nodes[i].depth
           /\ LastBelow(nodes, i) < Len(nodes) =>
                  nodes[LastBelow(nodes, i) + 1].depth <= nodes[i].depth
           /\ LastBelow(nodes, i) = LastDeeper(nodes, i, nodes[i].depth)
<1>1. nodes[i].depth \in Int
  BY NodeParts
<1>2. LastBelow(nodes, i) = LastDeeper(nodes, i, nodes[i].depth)
  BY DEF LastBelow, LastDeeper
<1>3. QED
  BY <1>1, <1>2, LastDeeperIs

LEMMA UnderIs ==
    ASSUME NEW nodes, IsTree(nodes), NEW i \in 1 .. Len(nodes), NEW k \in 1 .. Len(nodes)
    PROVE  Under(nodes, i, k) <=> k \in i .. LastBelow(nodes, i)
<1> DEFINE l == LastBelow(nodes, i)
<1>1. Len(nodes) \in Nat /\ \A m \in 1 .. Len(nodes) : nodes[m].depth \in Nat
  BY NodeParts
<1>2. /\ l \in i .. Len(nodes) /\ \A m \in i + 1 .. l : nodes[m].depth > nodes[i].depth
      /\ l < Len(nodes) => nodes[l + 1].depth <= nodes[i].depth
  BY LastBelowIs
<1> HIDE DEF l
<1>3. ASSUME k \in i .. l PROVE Under(nodes, i, k)
  BY <1>1, <1>2, <1>3 DEF Under
<1>4. ASSUME Under(nodes, i, k) PROVE k \in i .. l
  <2> SUFFICES ASSUME l < k PROVE FALSE
    BY <1>1, <1>2, <1>4 DEF Under
  <2>1. l + 1 \in i + 1 .. k /\ l < Len(nodes) /\ l + 1 \in 1 .. Len(nodes)
    BY <1>1, <1>2
  <2>2. nodes[l + 1].depth > nodes[i].depth /\ nodes[l + 1].depth <= nodes[i].depth
    BY <1>2, <1>4, <2>1 DEF Under
  <2>3. QED
    BY <1>1, <2>1, <2>2
<1>5. QED
  BY <1>3, <1>4 DEF l

\* What is below a node is below what the node is below.
LEMMA UnderNested ==
    ASSUME NEW nodes, IsTree(nodes), NEW i \in 1 .. Len(nodes),
           NEW k \in i .. LastBelow(nodes, i)
    PROVE  LastBelow(nodes, k) <= LastBelow(nodes, i)
<1> DEFINE l == LastBelow(nodes, i)
           m == LastBelow(nodes, k)
<1>1. Len(nodes) \in Nat /\ \A j \in 1 .. Len(nodes) : nodes[j].depth \in Nat
  BY NodeParts
<1>2. /\ l \in i .. Len(nodes) /\ \A j \in i + 1 .. l : nodes[j].depth > nodes[i].depth
      /\ l < Len(nodes) => nodes[l + 1].depth <= nodes[i].depth
  BY LastBelowIs
<1>3. k \in 1 .. Len(nodes)
  BY <1>1, <1>2
<1>4. m \in k .. Len(nodes) /\ \A j \in k + 1 .. m : nodes[j].depth > nodes[k].depth
  BY <1>3, LastBelowIs
<1> HIDE DEF l, m
<1> SUFFICES ASSUME l < m PROVE FALSE
  BY <1>1, <1>2, <1>3, <1>4 DEF l, m
<1>5. k \in i .. l
  BY DEF l
<1>6. l + 1 \in k + 1 .. m /\ l < Len(nodes) /\ l + 1 \in 1 .. Len(nodes)
  BY <1>1, <1>2, <1>3, <1>4, <1>5
<1>7. nodes[l + 1].depth > nodes[k].depth /\ nodes[l + 1].depth <= nodes[i].depth
  BY <1>2, <1>4, <1>6
<1>8. nodes[k].depth >= nodes[i].depth
  <2>1. k = i \/ k \in i + 1 .. l
    BY <1>1, <1>2, <1>5
  <2>2. QED
    BY <1>1, <1>2, <1>3, <2>1
<1>9. QED
  BY <1>1, <1>3, <1>6, <1>7, <1>8

-----------------------------------------------------------------------------
(* What a tree runs. *)

\* What is so of each number when it is so of those above, is so of all.
LEMMA Downwards ==
    ASSUME NEW n \in Nat, NEW S,
           \A i \in 1 .. n : (\A k \in i + 1 .. n : k \in S) => i \in S
    PROVE  \A i \in 1 .. n : i \in S
<1> DEFINE T == {m \in 0 .. n : \A k \in n - m + 1 .. n : k \in S}
<1>1. 0 \in T
  OBVIOUS
<1>2. ASSUME NEW m \in T, m < n PROVE m + 1 \in T
  <2>1. m \in Nat /\ m + 1 \in 0 .. n /\ n - m \in 1 .. n /\ n - (m + 1) + 1 = n - m
    BY <1>2
  <2>2. n - m \in S
    BY <2>1
  <2>3. \A k \in n - m .. n : k = n - m \/ k \in n - m + 1 .. n
    BY <2>1
  <2>4. QED
    BY <2>1, <2>2, <2>3
<1>3. n \in T
  <2>1. T \subseteq Nat
    OBVIOUS
  <2> HIDE DEF T
  <2>2. QED
    BY <1>1, <1>2, <2>1, Induction
<1>4. QED
  BY <1>3

Behind(nodes, i) ==
    LET next == LastBelow(nodes, i) + 1
    IN next \in DOMAIN nodes /\ nodes[next].depth = nodes[i].depth

\* What node i and its siblings behind it run, when run says what later nodes do.
RunFrom(run, nodes, closed, i) ==
    (IF nodes[i].group \in closed THEN <<>>
     ELSE nodes[i].starts
          \o (IF LastBelow(nodes, i) > i THEN run[i + 1] ELSE <<>>)
          \o nodes[i].ends)
    \o (IF Behind(nodes, i) THEN run[LastBelow(nodes, i) + 1] ELSE <<>>)

LEMMA RunFromSequences ==
    ASSUME NEW nodes, IsTree(nodes), NEW closed, NEW i \in 1 .. Len(nodes), NEW run,
           \A k \in i + 1 .. Len(nodes) : run[k] \in Seq(AllSystems)
    PROVE  RunFrom(run, nodes, closed, i) \in Seq(AllSystems)
<1> DEFINE n == Len(nodes)
           l == LastBelow(nodes, i)
<1>1. /\ n \in Nat /\ DOMAIN nodes = 1 .. n
      /\ nodes[i].starts \in Seq(AllSystems) /\ nodes[i].ends \in Seq(AllSystems)
  BY NodeParts
<1>2. l \in i .. n
  BY LastBelowIs
<1> HIDE DEF l
<1> DEFINE inner == IF l > i THEN run[i + 1] ELSE <<>>
           rest == IF Behind(nodes, i) THEN run[l + 1] ELSE <<>>
           own == IF nodes[i].group \in closed THEN <<>>
                  ELSE nodes[i].starts \o inner \o nodes[i].ends
<1>3. inner \in Seq(AllSystems)
  <2>1. l > i => i + 1 \in i + 1 .. n
    BY <1>1, <1>2
  <2>2. QED
    BY <2>1
<1>4. rest \in Seq(AllSystems)
  <2>1. Behind(nodes, i) => l + 1 \in i + 1 .. n
    BY <1>1, <1>2 DEF Behind, l
  <2>2. QED
    BY <2>1
<1> HIDE DEF inner, rest
<1>5. own \in Seq(AllSystems)
  BY <1>1, <1>3
<1> HIDE DEF own
<1>6. own \o rest \in Seq(AllSystems)
  BY <1>4, <1>5
<1>7. RunFrom(run, nodes, closed, i) = own \o rest
  BY DEF RunFrom, own, rest, inner, l
<1>8. QED
  BY <1>6, <1>7

\* Only what run says of later nodes matters.
LEMMA RunFromLater ==
    ASSUME NEW nodes, IsTree(nodes), NEW closed, NEW i \in 1 .. Len(nodes), NEW run, NEW other,
           \A k \in i + 1 .. Len(nodes) : run[k] = other[k]
    PROVE  RunFrom(run, nodes, closed, i) = RunFrom(other, nodes, closed, i)
<1> DEFINE n == Len(nodes)
           l == LastBelow(nodes, i)
<1>1. n \in Nat /\ DOMAIN nodes = 1 .. n
  BY NodeParts
<1>2. l \in i .. n
  BY LastBelowIs
<1> HIDE DEF l
<1>3. l > i => run[i + 1] = other[i + 1]
  <2>1. l > i => i + 1 \in i + 1 .. n
    BY <1>1, <1>2
  <2>2. QED
    BY <2>1
<1>4. Behind(nodes, i) => run[l + 1] = other[l + 1]
  <2>1. Behind(nodes, i) => l + 1 \in i + 1 .. n
    BY <1>1, <1>2 DEF Behind, l
  <2>2. QED
    BY <2>1
<1>5. QED
  BY <1>3, <1>4 DEF RunFrom, l

\* The function that RunOrder defines has these values.
Runs(run, nodes, closed) ==
    \A i \in 1 .. Len(nodes) :
        run[i] \in Seq(AllSystems) /\ run[i] = RunFrom(run, nodes, closed, i)

LEMMA RunsExist ==
    ASSUME NEW nodes, IsTree(nodes), NEW closed
    PROVE  \E run : Runs(run, nodes, closed) /\ RunOrder(nodes, closed) = run[1]
<1> DEFINE n == Len(nodes)
           D == DOMAIN nodes
           Upto(m) == \E f : \A i \in n - m + 1 .. n :
                         /\ f[i] \in Seq(AllSystems)
                         /\ f[i] = RunFrom(f, nodes, closed, i)
           S == {m \in 0 .. n : Upto(m)}
           w == CHOOSE f : f = [i \in D |-> RunFrom(f, nodes, closed, i)]
<1>1. n \in Nat /\ D = 1 .. n
  BY NodeParts
<1>2. 0 \in S
  BY <1>1
<1>3. ASSUME NEW m \in S, m < n PROVE m + 1 \in S
  <2> DEFINE a == n - m
  <2>1. m + 1 \in 0 .. n /\ a \in 1 .. n /\ n - (m + 1) + 1 = a /\ n - m + 1 = a + 1
    BY <1>1, <1>3
  <2>2. PICK f : \A i \in a + 1 .. n :
                     f[i] \in Seq(AllSystems) /\ f[i] = RunFrom(f, nodes, closed, i)
    BY <2>1
  <2> HIDE DEF a
  <2> DEFINE x == RunFrom(f, nodes, closed, a)
             g == [k \in a .. n |-> IF k = a THEN x ELSE f[k]]
  <2>3. x \in Seq(AllSystems)
    BY <2>1, <2>2, RunFromSequences
  <2>4. \A k \in a + 1 .. n : g[k] = f[k]
    BY <1>1, <2>1
  <2>5. g[a] = x
    BY <1>1, <2>1
  <2> HIDE DEF g, x
  <2>6. ASSUME NEW i \in a .. n
        PROVE  g[i] \in Seq(AllSystems) /\ g[i] = RunFrom(g, nodes, closed, i)
    <3>1. i \in 1 .. n /\ \A k \in i + 1 .. n : k \in a + 1 .. n
      BY <1>1, <2>1
    <3>2. RunFrom(g, nodes, closed, i) = RunFrom(f, nodes, closed, i)
      BY <2>4, <3>1, RunFromLater
    <3>3. CASE i = a
      BY <2>3, <2>5, <3>2, <3>3 DEF x
    <3>4. CASE i \in a + 1 .. n
      BY <2>2, <2>4, <3>2, <3>4
    <3>5. QED
      BY <1>1, <2>1, <3>3, <3>4
  <2>7. QED
    BY <2>1, <2>6
<1>4. n \in S
  <2>1. S \subseteq Nat
    OBVIOUS
  <2> HIDE DEF S
  <2>2. QED
    BY <1>1, <1>2, <1>3, <2>1, Induction
<1>5. PICK f : \A i \in 1 .. n : f[i] \in Seq(AllSystems) /\ f[i] = RunFrom(f, nodes, closed, i)
  <2>1. n - n + 1 = 1
    BY <1>1
  <2>2. QED
    BY <1>4, <2>1
<1> DEFINE g == [i \in D |-> f[i]]
<1>6. g = [i \in D |-> RunFrom(g, nodes, closed, i)]
  <2>1. ASSUME NEW i \in D PROVE g[i] = RunFrom(g, nodes, closed, i)
    <3>1. \A k \in i + 1 .. n : g[k] = f[k]
      BY <1>1
    <3> HIDE DEF g
    <3>2. RunFrom(g, nodes, closed, i) = RunFrom(f, nodes, closed, i)
      BY <1>1, <3>1, RunFromLater
    <3>3. QED
      BY <1>1, <1>5, <3>2 DEF g
  <2>2. QED
    BY <2>1
<1>7. w = [i \in D |-> RunFrom(w, nodes, closed, i)]
  <2> HIDE DEF D, g
  <2>1. \E h : h = [i \in D |-> RunFrom(h, nodes, closed, i)]
    BY <1>6
  <2>2. QED
    BY <2>1
<1>8. RunOrder(nodes, closed) = w[1]
  BY DEF RunOrder, RunFrom, Behind
<1> HIDE DEF w
<1>9. \A i \in 1 .. n : w[i] = RunFrom(w, nodes, closed, i)
  BY <1>1, <1>7
<1>10. \A i \in 1 .. n : w[i] \in Seq(AllSystems)
  <2> DEFINE T == {i \in 1 .. n : w[i] \in Seq(AllSystems)}
  <2>1. ASSUME NEW i \in 1 .. n, \A k \in i + 1 .. n : k \in T
        PROVE  i \in T
    <3>1. \A k \in i + 1 .. n : w[k] \in Seq(AllSystems)
      BY <2>1
    <3>2. RunFrom(w, nodes, closed, i) \in Seq(AllSystems)
      BY <3>1, RunFromSequences
    <3>3. QED
      BY <1>9, <3>2
  <2>2. \A i \in 1 .. n : i \in T
    <3> HIDE DEF T
    <3>1. QED
      BY <1>1, <2>1, Downwards
  <2>3. QED
    BY <2>2
<1>11. Runs(w, nodes, closed)
  BY <1>9, <1>10 DEF Runs
<1>12. QED
  BY <1>8, <1>11

\* The parts of what node i and its siblings behind it run.
Inner(run, nodes, i) == IF LastBelow(nodes, i) > i THEN run[i + 1] ELSE <<>>
After(run, nodes, i) == IF Behind(nodes, i) THEN run[LastBelow(nodes, i) + 1] ELSE <<>>
Own(run, nodes, closed, i) ==
    IF nodes[i].group \in closed THEN <<>>
    ELSE (nodes[i].starts \o Inner(run, nodes, i)) \o nodes[i].ends

\* The last of the nodes below the parent of i.
FamilyEnd(nodes, i) == LastDeeper(nodes, i, nodes[i].depth - 1)

LEMMA FamilyParts ==
    ASSUME NEW nodes, IsTree(nodes), NEW i \in 1 .. Len(nodes)
    PROVE  LET l == LastBelow(nodes, i)
               e == FamilyEnd(nodes, i)
           IN /\ l \in i .. Len(nodes) /\ e \in l .. Len(nodes)
              /\ l > i => i + 1 \in 1 .. Len(nodes) /\ FamilyEnd(nodes, i + 1) = l
              /\ Behind(nodes, i) => l + 1 \in 1 .. Len(nodes) /\ FamilyEnd(nodes, l + 1) = e
<1> DEFINE n == Len(nodes)
           l == LastBelow(nodes, i)
           e == FamilyEnd(nodes, i)
           d == nodes[i].depth
<1>1. n \in Nat /\ DOMAIN nodes = 1 .. n /\ \A k \in 1 .. n : nodes[k].depth \in Nat
  BY NodeParts
<1>2. /\ l \in i .. n /\ \A k \in i + 1 .. l : nodes[k].depth > d
      /\ l < n => nodes[l + 1].depth <= d
  BY LastBelowIs
<1>3. d \in Nat /\ d - 1 \in Int
  BY <1>1
<1>4. /\ e \in i .. n /\ \A k \in i + 1 .. e : nodes[k].depth > d - 1
      /\ e < n => nodes[e + 1].depth <= d - 1
  BY <1>3, LastDeeperIs DEF FamilyEnd
<1> HIDE DEF l, e, d, n
<1>5. l <= e
  <2> SUFFICES ASSUME e < l PROVE FALSE
    BY <1>1, <1>2, <1>4
  <2>1. e + 1 \in i + 1 .. l /\ e < n /\ e + 1 \in 1 .. n
    BY <1>1, <1>2, <1>4 DEF n
  <2>2. nodes[e + 1].depth > d /\ nodes[e + 1].depth <= d - 1
    BY <1>2, <1>4, <2>1
  <2>3. QED
    BY <1>1, <1>3, <2>1, <2>2
<1>6. ASSUME l > i PROVE i + 1 \in 1 .. n /\ FamilyEnd(nodes, i + 1) = l
  <2>1. i + 1 \in 1 .. n /\ i + 1 \in i + 1 .. l /\ i + 1 \in 2 .. n /\ (i + 1) - 1 = i
    BY <1>1, <1>2, <1>6 DEF n
  <2>2. nodes[i + 1].depth \in 1 .. nodes[i].depth + 1
    BY <2>1 DEF IsTree, n
  <2>3. nodes[i + 1].depth > d
    BY <1>2, <2>1
  <2>4. nodes[i + 1].depth - 1 = d
    BY <1>3, <2>2, <2>3 DEF d
  <2>5. l \in i + 1 .. n /\ \A k \in (i + 1) + 1 .. l : k \in i + 1 .. l
    BY <1>1, <1>2, <2>1
  <2>6. l = LastDeeper(nodes, i + 1, d)
    <3>1. \A k \in (i + 1) + 1 .. l : nodes[k].depth > d
      BY <1>2, <2>5
    <3>2. d \in Int
      BY <1>3
    <3>3. QED
      BY <1>2, <2>1, <2>5, <3>1, <3>2, LastDeeperOnly DEF n
  <2>7. QED
    BY <2>1, <2>4, <2>6 DEF FamilyEnd
<1>7. ASSUME Behind(nodes, i) PROVE l + 1 \in 1 .. n /\ FamilyEnd(nodes, l + 1) = e
  <2>1. l + 1 \in 1 .. n /\ nodes[l + 1].depth = d
    BY <1>1, <1>7 DEF Behind, l, d
  <2>2. e # l
    BY <1>1, <1>3, <1>4, <2>1
  <2>3. e \in l + 1 .. n /\ \A k \in (l + 1) + 1 .. e : k \in i + 1 .. e
    BY <1>1, <1>2, <1>4, <1>5, <2>2
  <2>4. e = LastDeeper(nodes, l + 1, d - 1)
    <3>1. \A k \in (l + 1) + 1 .. e : nodes[k].depth > d - 1
      BY <1>4, <2>3
    <3>2. QED
      BY <1>3, <1>4, <2>1, <2>3, <3>1, LastDeeperOnly DEF n
  <2>5. QED
    BY <2>1, <2>4 DEF FamilyEnd
<1>8. QED
  BY <1>1, <1>2, <1>4, <1>5, <1>6, <1>7 DEF l, e, n

LEMMA RootFamily ==
    ASSUME NEW nodes, IsTree(nodes)
    PROVE  1 \in 1 .. Len(nodes) /\ FamilyEnd(nodes, 1) = Len(nodes)
           /\ LastBelow(nodes, 1) = Len(nodes)
<1> DEFINE n == Len(nodes)
<1>1. n \in Nat /\ n >= 1 /\ \A k \in 1 .. n : nodes[k].depth \in Nat
  BY NodeParts
<1>2. nodes[1].depth = 0 /\ \A k \in 2 .. n : nodes[k].depth \in 1 .. nodes[k - 1].depth + 1
  BY DEF IsTree
<1>3. \A k \in 2 .. n : nodes[k].depth > 0 /\ nodes[k].depth > 0 - 1
  <2> TAKE k \in 2 .. n
  <2>1. nodes[k].depth \in 1 .. nodes[k - 1].depth + 1
    BY <1>2
  <2>2. k - 1 \in 1 .. n
    BY <1>1
  <2>3. QED
    BY <1>1, <2>1, <2>2
<1>4. 1 \in 1 .. n /\ n \in 1 .. n /\ 1 + 1 = 2 /\ ~(n < n) /\ 0 \in Int /\ 0 - 1 \in Int
  BY <1>1
<1>5. n = LastDeeper(nodes, 1, 0)
  BY <1>3, <1>4, LastDeeperOnly
<1>6. n = LastDeeper(nodes, 1, 0 - 1)
  BY <1>3, <1>4, LastDeeperOnly
<1>7. LastBelow(nodes, 1) = LastDeeper(nodes, 1, nodes[1].depth)
  BY <1>4, LastBelowIs
<1>8. QED
  BY <1>2, <1>4, <1>5, <1>6, <1>7 DEF FamilyEnd

\* The systems of some nodes.
Within(nodes, i, j) == UNION {SystemsAt(nodes[k]) : k \in i .. j}

\* Each system has one place.
NodeOnce(node) ==
    /\ IsInjective(node.starts) /\ IsInjective(node.ends)
    /\ Range(node.starts) \cap Range(node.ends) = {}

PlacedOnce(nodes) ==
    \A i \in DOMAIN nodes :
        /\ NodeOnce(nodes[i])
        /\ \A k \in DOMAIN nodes : i # k => SystemsAt(nodes[i]) \cap SystemsAt(nodes[k]) = {}

LEMMA WithinApart ==
    ASSUME NEW nodes, IsTree(nodes), PlacedOnce(nodes),
           NEW i, NEW j, NEW k, NEW m, i .. j \subseteq DOMAIN nodes, k .. m \subseteq DOMAIN nodes,
           (i .. j) \cap (k .. m) = {}
    PROVE  Within(nodes, i, j) \cap Within(nodes, k, m) = {}
<1> SUFFICES ASSUME NEW x \in i .. j, NEW y \in k .. m,
                    SystemsAt(nodes[x]) \cap SystemsAt(nodes[y]) # {}
             PROVE  FALSE
  BY DEF Within
<1>1. x # y /\ x \in DOMAIN nodes /\ y \in DOMAIN nodes
  OBVIOUS
<1>2. QED
  BY <1>1 DEF PlacedOnce

\* The parts of a run are sequences.
LEMMA RunIs ==
    ASSUME NEW nodes, IsTree(nodes), NEW closed, NEW run, Runs(run, nodes, closed),
           NEW i \in 1 .. Len(nodes)
    PROVE  /\ run[i] = Own(run, nodes, closed, i) \o After(run, nodes, i)
           /\ run[i] \in Seq(AllSystems)
           /\ Own(run, nodes, closed, i) \in Seq(AllSystems)
           /\ After(run, nodes, i) \in Seq(AllSystems)
           /\ Inner(run, nodes, i) \in Seq(AllSystems)
<1> DEFINE l == LastBelow(nodes, i)
<1>1. l > i => i + 1 \in 1 .. Len(nodes)
  BY FamilyParts
<1>2. Behind(nodes, i) => l + 1 \in 1 .. Len(nodes)
  BY FamilyParts
<1>3. \A k \in 1 .. Len(nodes) : run[k] \in Seq(AllSystems)
  BY DEF Runs
<1>4. Inner(run, nodes, i) \in Seq(AllSystems)
  BY <1>1, <1>3 DEF Inner
<1>5. After(run, nodes, i) \in Seq(AllSystems)
  BY <1>2, <1>3 DEF After
<1>6. nodes[i].starts \in Seq(AllSystems) /\ nodes[i].ends \in Seq(AllSystems)
  BY NodeParts
<1>7. Own(run, nodes, closed, i) \in Seq(AllSystems)
  BY <1>4, <1>6 DEF Own
<1>8. run[i] = RunFrom(run, nodes, closed, i)
  BY DEF Runs
<1>9. RunFrom(run, nodes, closed, i) = Own(run, nodes, closed, i) \o After(run, nodes, i)
  BY DEF RunFrom, Own, After, Inner
<1>10. QED
  BY <1>3, <1>4, <1>5, <1>7, <1>8, <1>9

LEMMA NothingBehind ==
    ASSUME NEW nodes, IsTree(nodes), NEW i \in 1 .. Len(nodes), ~Behind(nodes, i)
    PROVE  FamilyEnd(nodes, i) = LastBelow(nodes, i)
<1> DEFINE n == Len(nodes)
           l == LastBelow(nodes, i)
           d == nodes[i].depth
<1>1. n \in Nat /\ DOMAIN nodes = 1 .. n /\ \A k \in 1 .. n : nodes[k].depth \in Nat
  BY NodeParts
<1>2. /\ l \in i .. n /\ \A k \in i + 1 .. l : nodes[k].depth > d
      /\ l < n => nodes[l + 1].depth <= d
  BY LastBelowIs
<1>3. d \in Nat /\ d - 1 \in Int
  BY <1>1
<1>4. l < n => nodes[l + 1].depth # d /\ l + 1 \in 1 .. n
  BY <1>1, <1>2 DEF Behind
<1> HIDE DEF d, l
<1>5. \A k \in i + 1 .. l : nodes[k].depth > d - 1
  <2> TAKE k \in i + 1 .. l
  <2>1. k \in 1 .. n
    BY <1>1, <1>2
  <2>2. QED
    BY <1>1, <1>2, <1>3, <2>1
<1>6. l < n => nodes[l + 1].depth <= d - 1
  BY <1>1, <1>2, <1>3, <1>4
<1>7. l = LastDeeper(nodes, i, d - 1)
  BY <1>2, <1>3, <1>5, <1>6, LastDeeperOnly
<1>8. QED
  BY <1>7 DEF FamilyEnd, d, l

\* A run holds the systems of its nodes, and none twice.
LEMMA RunHolds ==
    ASSUME NEW nodes, IsTree(nodes), PlacedOnce(nodes), NEW closed, NEW run,
           Runs(run, nodes, closed)
    PROVE  \A i \in 1 .. Len(nodes) :
               /\ Range(run[i]) \subseteq Within(nodes, i, FamilyEnd(nodes, i))
               /\ IsInjective(run[i])
<1> DEFINE n == Len(nodes)
           S == {i \in 1 .. n : /\ Range(run[i]) \subseteq Within(nodes, i, FamilyEnd(nodes, i))
                                /\ IsInjective(run[i])}
<1>1. n \in Nat /\ DOMAIN nodes = 1 .. n
  BY NodeParts
<1>2. Range(<<>>) = {} /\ IsInjective(<<>>)
  BY DEF Range, IsInjective
<1>3. ASSUME NEW i \in 1 .. n, \A k \in i + 1 .. n : k \in S
      PROVE  i \in S
  <2> DEFINE l == LastBelow(nodes, i)
             e == FamilyEnd(nodes, i)
             inner == Inner(run, nodes, i)
             after == After(run, nodes, i)
             own == Own(run, nodes, closed, i)
  <2>1. /\ l \in i .. n /\ e \in l .. n
        /\ l > i => i + 1 \in 1 .. n /\ FamilyEnd(nodes, i + 1) = l
        /\ Behind(nodes, i) => l + 1 \in 1 .. n /\ FamilyEnd(nodes, l + 1) = e
    BY FamilyParts
  <2>2. /\ run[i] = own \o after /\ own \in Seq(AllSystems)
        /\ after \in Seq(AllSystems) /\ inner \in Seq(AllSystems)
    BY RunIs
  <2>3. nodes[i].starts \in Seq(AllSystems) /\ nodes[i].ends \in Seq(AllSystems)
    BY NodeParts
  <2>4. Range(inner) \subseteq Within(nodes, i + 1, l) /\ IsInjective(inner)
    <3>1. CASE l > i
      <4>1. i + 1 \in i + 1 .. n
        BY <1>1, <2>1, <3>1
      <4>2. i + 1 \in S
        BY <1>3, <4>1
      <4>3. QED
        BY <2>1, <3>1, <4>2 DEF Inner
    <3>2. CASE ~(l > i)
      BY <1>2, <3>2 DEF Inner
    <3>3. QED
      BY <3>1, <3>2
  <2>5. Range(after) \subseteq Within(nodes, l + 1, e) /\ IsInjective(after)
    <3>1. CASE Behind(nodes, i)
      <4>1. l + 1 \in i + 1 .. n
        BY <1>1, <2>1, <3>1
      <4>2. l + 1 \in S
        BY <1>3, <4>1
      <4>3. QED
        BY <2>1, <3>1, <4>2 DEF After
    <3>2. CASE ~Behind(nodes, i)
      BY <1>2, <3>2 DEF After
    <3>3. QED
      BY <3>1, <3>2
  <2> HIDE DEF inner, after, l, e, S
  <2>6. /\ SystemsAt(nodes[i]) = Within(nodes, i, i)
        /\ Range(nodes[i].starts) \subseteq SystemsAt(nodes[i])
        /\ Range(nodes[i].ends) \subseteq SystemsAt(nodes[i])
    BY DEF Within, SystemsAt
  <2>7. NodeOnce(nodes[i])
    BY <1>1 DEF PlacedOnce
  <2>8. SystemsAt(nodes[i]) \cap Within(nodes, i + 1, l) = {}
    <3>1. /\ i .. i \subseteq DOMAIN nodes /\ i + 1 .. l \subseteq DOMAIN nodes
          /\ (i .. i) \cap (i + 1 .. l) = {}
      BY <1>1, <2>1
    <3>2. QED
      BY <2>6, <3>1, WithinApart
  <2>9. Range(own) \subseteq SystemsAt(nodes[i]) \cup Within(nodes, i + 1, l) /\ IsInjective(own)
    <3>1. CASE nodes[i].group \in closed
      BY <1>2, <3>1 DEF Own
    <3>2. CASE nodes[i].group \notin closed
      <4> DEFINE first == nodes[i].starts \o inner
      <4>1. /\ first \in Seq(AllSystems)
            /\ Range(first) = Range(nodes[i].starts) \cup Range(inner)
        BY <2>2, <2>3, ConcatRange
      <4>2. IsInjective(first)
        <5>1. Range(nodes[i].starts) \cap Range(inner) = {}
          BY <2>4, <2>6, <2>8
        <5>2. QED
          BY <2>2, <2>3, <2>4, <2>7, <5>1, ConcatInjective DEF NodeOnce
      <4>3. own = first \o nodes[i].ends
        BY <3>2 DEF Own, inner
      <4> HIDE DEF first, own
      <4>4. Range(own) = Range(first) \cup Range(nodes[i].ends)
        BY <2>3, <4>1, <4>3, ConcatRange
      <4>5. Range(first) \cap Range(nodes[i].ends) = {}
        BY <2>4, <2>6, <2>7, <2>8, <4>1 DEF NodeOnce
      <4>6. IsInjective(own)
        BY <2>3, <2>7, <4>1, <4>2, <4>3, <4>5, ConcatInjective DEF NodeOnce
      <4>7. QED
        BY <2>4, <2>6, <4>1, <4>4, <4>6
    <3>3. QED
      BY <3>1, <3>2
  <2> HIDE DEF own
  <2>10. Within(nodes, i, l) = SystemsAt(nodes[i]) \cup Within(nodes, i + 1, l)
    <3>1. i .. l = (i .. i) \cup (i + 1 .. l)
      BY <1>1, <2>1
    <3>2. QED
      BY <2>6, <3>1 DEF Within
  <2>11. Within(nodes, i, e) = Within(nodes, i, l) \cup Within(nodes, l + 1, e)
    <3>1. i .. e = (i .. l) \cup (l + 1 .. e)
      BY <1>1, <2>1
    <3>2. QED
      BY <3>1 DEF Within
  <2>12. Within(nodes, i, l) \cap Within(nodes, l + 1, e) = {}
    <3>1. /\ i .. l \subseteq DOMAIN nodes /\ l + 1 .. e \subseteq DOMAIN nodes
          /\ (i .. l) \cap (l + 1 .. e) = {}
      BY <1>1, <2>1
    <3>2. QED
      BY <3>1, WithinApart
  <2>13. Range(run[i]) = Range(own) \cup Range(after)
    BY <2>2, ConcatRange
  <2>14. IsInjective(run[i])
    <3>1. Range(own) \cap Range(after) = {}
      BY <2>5, <2>9, <2>10, <2>12
    <3>2. QED
      BY <2>2, <2>5, <2>9, <3>1, ConcatInjective
  <2>15. Range(run[i]) \subseteq Within(nodes, i, e)
    BY <2>5, <2>9, <2>10, <2>11, <2>13
  <2>16. QED
    BY <2>14, <2>15 DEF S, e
<1>4. \A i \in 1 .. n : i \in S
  <2> HIDE DEF S
  <2>1. QED
    BY <1>1, <1>3, Downwards
<1>5. QED
  BY <1>4

\* A run reaches each system below open nodes only.
LEMMA RunReaches ==
    ASSUME NEW nodes, IsTree(nodes), NEW closed, NEW run, Runs(run, nodes, closed),
           NEW m \in 1 .. Len(nodes), NEW s \in SystemsAt(nodes[m]),
           \A k \in 1 .. m : Under(nodes, k, m) => nodes[k].group \notin closed
    PROVE  \A i \in 1 .. Len(nodes) : m \in i .. FamilyEnd(nodes, i) => s \in Range(run[i])
<1> DEFINE n == Len(nodes)
           S == {i \in 1 .. n : m \in i .. FamilyEnd(nodes, i) => s \in Range(run[i])}
<1>1. n \in Nat /\ DOMAIN nodes = 1 .. n
  BY NodeParts
<1>2. ASSUME NEW i \in 1 .. n, \A k \in i + 1 .. n : k \in S
      PROVE  i \in S
  <2> DEFINE l == LastBelow(nodes, i)
             e == FamilyEnd(nodes, i)
             inner == Inner(run, nodes, i)
             after == After(run, nodes, i)
             own == Own(run, nodes, closed, i)
  <2> SUFFICES ASSUME m \in i .. e PROVE s \in Range(run[i])
    OBVIOUS
  <2>1. /\ l \in i .. n /\ e \in l .. n
        /\ l > i => i + 1 \in 1 .. n /\ FamilyEnd(nodes, i + 1) = l
        /\ Behind(nodes, i) => l + 1 \in 1 .. n /\ FamilyEnd(nodes, l + 1) = e
    BY FamilyParts
  <2>2. /\ run[i] = own \o after /\ own \in Seq(AllSystems)
        /\ after \in Seq(AllSystems) /\ inner \in Seq(AllSystems)
    BY RunIs
  <2>3. nodes[i].starts \in Seq(AllSystems) /\ nodes[i].ends \in Seq(AllSystems)
    BY NodeParts
  <2>4. Range(run[i]) = Range(own) \cup Range(after)
    BY <2>2, ConcatRange
  <2>5. CASE m <= l
    <3>1. m \in i .. l
      BY <1>1, <2>1, <2>5
    <3>2. Under(nodes, i, m) /\ i \in 1 .. m
      <4>1. i \in 1 .. m
        BY <1>1, <2>1, <3>1
      <4>2. QED
        BY <3>1, <4>1, UnderIs
    <3>3. own = (nodes[i].starts \o inner) \o nodes[i].ends
      BY <3>2 DEF Own
    <3>4. Range(own) = Range(nodes[i].starts) \cup Range(inner) \cup Range(nodes[i].ends)
      <4> DEFINE first == nodes[i].starts \o inner
      <4>1. first \in Seq(AllSystems) /\ Range(first) = Range(nodes[i].starts) \cup Range(inner)
        BY <2>2, <2>3, ConcatRange
      <4> HIDE DEF first, own
      <4>2. own = first \o nodes[i].ends
        BY <3>3 DEF first
      <4>3. Range(own) = Range(first) \cup Range(nodes[i].ends)
        BY <2>3, <4>1, <4>2, ConcatRange
      <4>4. QED
        BY <4>1, <4>3
    <3>5. CASE m = i
      BY <2>4, <3>4, <3>5 DEF SystemsAt
    <3>6. CASE m # i
      <4>1. l > i /\ i + 1 \in i + 1 .. n /\ m \in i + 1 .. l
        BY <1>1, <2>1, <3>1, <3>6
      <4>2. i + 1 \in S
        BY <1>2, <4>1
      <4>3. s \in Range(run[i + 1])
        BY <2>1, <4>1, <4>2
      <4>4. inner = run[i + 1]
        BY <4>1 DEF Inner
      <4>5. QED
        BY <2>4, <3>4, <4>3, <4>4
    <3>7. QED
      BY <3>5, <3>6
  <2>6. CASE l < m
    <3>1. Behind(nodes, i)
      <4>1. e # l
        BY <1>1, <2>1, <2>6
      <4>2. QED
        BY <4>1, NothingBehind
    <3>2. l + 1 \in i + 1 .. n /\ m \in l + 1 .. e
      BY <1>1, <2>1, <2>6, <3>1
    <3>3. l + 1 \in S
      BY <1>2, <3>2
    <3>4. s \in Range(run[l + 1])
      BY <2>1, <3>1, <3>2, <3>3
    <3>5. after = run[l + 1]
      BY <3>1 DEF After
    <3>6. QED
      BY <2>4, <3>4, <3>5
  <2>7. QED
    BY <1>1, <2>1, <2>5, <2>6
<1>3. \A i \in 1 .. n : i \in S
  <2> HIDE DEF S
  <2>1. QED
    BY <1>1, <1>2, Downwards
<1>4. QED
  BY <1>3

\* What a tree with one place for each system runs.
LEMMA RunOrderIs ==
    ASSUME NEW nodes, IsTree(nodes), PlacedOnce(nodes), NEW closed
    PROVE  /\ RunOrder(nodes, closed) \in Seq(AllSystems)
           /\ IsInjective(RunOrder(nodes, closed))
           /\ Range(RunOrder(nodes, closed)) \subseteq SystemsIn(nodes)
           /\ \A m \in DOMAIN nodes : \A s \in SystemsAt(nodes[m]) :
                  (\A k \in 1 .. m : Under(nodes, k, m) => nodes[k].group \notin closed)
                      => s \in Range(RunOrder(nodes, closed))
<1>1. PICK run : Runs(run, nodes, closed) /\ RunOrder(nodes, closed) = run[1]
  BY RunsExist
<1>2. 1 \in 1 .. Len(nodes) /\ FamilyEnd(nodes, 1) = Len(nodes)
  BY RootFamily
<1>3. DOMAIN nodes = 1 .. Len(nodes) /\ Len(nodes) \in Nat
  BY NodeParts
<1>4. Within(nodes, 1, Len(nodes)) = SystemsIn(nodes)
  BY <1>3 DEF Within, SystemsIn
<1>5. Range(run[1]) \subseteq SystemsIn(nodes) /\ IsInjective(run[1])
  BY <1>1, <1>2, <1>4, RunHolds
<1>6. run[1] \in Seq(AllSystems)
  BY <1>1, <1>2 DEF Runs
<1>7. ASSUME NEW m \in DOMAIN nodes, NEW s \in SystemsAt(nodes[m]),
             \A k \in 1 .. m : Under(nodes, k, m) => nodes[k].group \notin closed
      PROVE  s \in Range(run[1])
  <2>1. m \in 1 .. Len(nodes) /\ m \in 1 .. FamilyEnd(nodes, 1)
    BY <1>2, <1>3
  <2>2. QED
    BY <1>1, <1>2, <1>7, <2>1, RunReaches
<1>8. QED
  BY <1>1, <1>5, <1>6, <1>7

\* How often a system is in a sequence that repeats nothing.
LEMMA TimesIs ==
    ASSUME NEW E, NEW q \in Seq(E), IsInjective(q), NEW s
    PROVE  Times(s, q) = IF s \in Range(q) THEN 1 ELSE 0
<1> DEFINE P == {k \in DOMAIN q : q[k] = s}
<1>1. CASE s \in Range(q)
  <2>1. PICK k \in DOMAIN q : q[k] = s
    BY <1>1 DEF Range
  <2>2. P = {k}
    BY <2>1 DEF IsInjective
  <2>3. Cardinality(P) = 1
    BY <2>2, FS_Singleton
  <2>4. QED
    BY <1>1, <2>3 DEF Times
<1>2. CASE s \notin Range(q)
  <2>1. P = {}
    BY <1>2 DEF Range
  <2>2. Cardinality(P) = 0
    BY <2>1, FS_EmptySet
  <2>3. QED
    BY <1>2, <2>2 DEF Times
<1>3. QED
  BY <1>1, <1>2

\* All of A that is in a sequence comes before all of B that is.
Precede(q, A, B) == \A j, k \in DOMAIN q : q[j] \in A /\ q[k] \in B => j < k

LEMMA ConcatPrecede ==
    ASSUME NEW E, NEW q \in Seq(E), NEW r \in Seq(E), NEW A, NEW B,
           Precede(q, A, B), Precede(r, A, B),
           Range(q) \cap B = {} \/ Range(r) \cap A = {}
    PROVE  Precede(q \o r, A, B)
<1>1. /\ q \o r \in Seq(E) /\ Len(q \o r) = Len(q) + Len(r) /\ Len(q) \in Nat /\ Len(r) \in Nat
      /\ \A k \in 1 .. Len(q) : (q \o r)[k] = q[k]
      /\ \A k \in 1 .. Len(r) : (q \o r)[Len(q) + k] = r[k]
  OBVIOUS
<1>2. \A k \in 1 .. Len(q) + Len(r) :
          k \in 1 .. Len(q) \/ \E j \in 1 .. Len(r) : k = Len(q) + j
  <2> TAKE k \in 1 .. Len(q) + Len(r)
  <2>1. k \in 1 .. Len(q) \/ (k - Len(q) \in 1 .. Len(r) /\ k = Len(q) + (k - Len(q)))
    BY <1>1
  <2>2. QED
    BY <2>1
<1>3. DOMAIN q = 1 .. Len(q) /\ DOMAIN r = 1 .. Len(r) /\ DOMAIN (q \o r) = 1 .. Len(q) + Len(r)
  BY <1>1
<1>4. \A j \in 1 .. Len(q), k \in 1 .. Len(r) : ~(q[j] \in B /\ r[k] \in A)
  BY <1>3 DEF Range
<1>5. \A j, k \in 1 .. Len(q) : q[j] \in A /\ q[k] \in B => j < k
  BY <1>3 DEF Precede
<1>6. \A j, k \in 1 .. Len(r) : r[j] \in A /\ r[k] \in B => j < k
  BY <1>3 DEF Precede
<1>7. \A j, k \in 1 .. Len(q) + Len(r) : (q \o r)[j] \in A /\ (q \o r)[k] \in B => j < k
  <2> SUFFICES ASSUME NEW j \in 1 .. Len(q) + Len(r), NEW k \in 1 .. Len(q) + Len(r),
                      (q \o r)[j] \in A, (q \o r)[k] \in B
               PROVE  j < k
    OBVIOUS
  <2>1. CASE j \in 1 .. Len(q) /\ k \in 1 .. Len(q)
    BY <1>1, <1>5, <2>1
  <2>2. CASE j \in 1 .. Len(q) /\ \E i \in 1 .. Len(r) : k = Len(q) + i
    BY <1>1, <2>2
  <2>3. CASE k \in 1 .. Len(q) /\ \E i \in 1 .. Len(r) : j = Len(q) + i
    BY <1>1, <1>4, <2>3
  <2>4. CASE (\E i \in 1 .. Len(r) : j = Len(q) + i) /\ (\E i \in 1 .. Len(r) : k = Len(q) + i)
    <3>1. PICK x \in 1 .. Len(r), y \in 1 .. Len(r) : j = Len(q) + x /\ k = Len(q) + y
      BY <2>4
    <3>2. x < y
      BY <1>1, <1>6, <3>1
    <3>3. QED
      BY <1>1, <3>1, <3>2
  <2>5. QED
    BY <1>2, <2>1, <2>2, <2>3, <2>4
<1>8. QED
  BY <1>3, <1>7 DEF Precede

\* At no node would a run put some of B before some of A.
Sorted(nodes, A, B) ==
    \A i \in DOMAIN nodes :
        LET l == LastBelow(nodes, i)
            firsts == Range(nodes[i].starts)
            lasts == Range(nodes[i].ends)
        IN /\ firsts \cap A = {} \/ firsts \cap B = {}
           /\ lasts \cap A = {} \/ lasts \cap B = {}
           /\ firsts \cap B = {} \/ Within(nodes, i + 1, l) \cap A = {}
           /\ (firsts \cup Within(nodes, i + 1, l)) \cap B = {} \/ lasts \cap A = {}
           /\ Within(nodes, i, l) \cap B = {} \/ Within(nodes, l + 1, Len(nodes)) \cap A = {}

LEMMA RunPrecedes ==
    ASSUME NEW nodes, IsTree(nodes), PlacedOnce(nodes), NEW closed,
           NEW A, NEW B, Sorted(nodes, A, B)
    PROVE  Precede(RunOrder(nodes, closed), A, B)
<1> DEFINE n == Len(nodes)
<1>1. PICK run : Runs(run, nodes, closed) /\ RunOrder(nodes, closed) = run[1]
  BY RunsExist
<1> DEFINE S == {i \in 1 .. n : Precede(run[i], A, B)}
<1>2. n \in Nat /\ DOMAIN nodes = 1 .. n
  BY NodeParts
<1>3. Precede(<<>>, A, B) /\ Range(<<>>) = {}
  BY DEF Precede, Range
<1>4. ASSUME NEW i \in 1 .. n, \A k \in i + 1 .. n : k \in S
      PROVE  i \in S
  <2> DEFINE l == LastBelow(nodes, i)
             e == FamilyEnd(nodes, i)
             inner == Inner(run, nodes, i)
             after == After(run, nodes, i)
             own == Own(run, nodes, closed, i)
             firsts == Range(nodes[i].starts)
             lasts == Range(nodes[i].ends)
  <2>1. /\ l \in i .. n /\ e \in l .. n
        /\ l > i => i + 1 \in 1 .. n /\ FamilyEnd(nodes, i + 1) = l
        /\ Behind(nodes, i) => l + 1 \in 1 .. n /\ FamilyEnd(nodes, l + 1) = e
    BY FamilyParts
  <2>2. /\ run[i] = own \o after /\ own \in Seq(AllSystems)
        /\ after \in Seq(AllSystems) /\ inner \in Seq(AllSystems)
    BY <1>1, RunIs
  <2>3. nodes[i].starts \in Seq(AllSystems) /\ nodes[i].ends \in Seq(AllSystems)
    BY NodeParts
  <2>4. Range(inner) \subseteq Within(nodes, i + 1, l) /\ Precede(inner, A, B)
    <3>1. CASE l > i
      <4>1. i + 1 \in i + 1 .. n
        BY <1>2, <2>1, <3>1
      <4>2. i + 1 \in S
        BY <1>4, <4>1
      <4>3. Range(run[i + 1]) \subseteq Within(nodes, i + 1, l)
        BY <1>1, <2>1, <3>1, RunHolds
      <4>4. QED
        BY <3>1, <4>2, <4>3 DEF Inner
    <3>2. CASE ~(l > i)
      BY <1>3, <3>2 DEF Inner
    <3>3. QED
      BY <3>1, <3>2
  <2>5. Range(after) \subseteq Within(nodes, l + 1, n) /\ Precede(after, A, B)
    <3>1. CASE Behind(nodes, i)
      <4>1. l + 1 \in i + 1 .. n
        BY <1>2, <2>1, <3>1
      <4>2. l + 1 \in S
        BY <1>4, <4>1
      <4>3. Range(run[l + 1]) \subseteq Within(nodes, l + 1, e)
        BY <1>1, <2>1, <3>1, RunHolds
      <4>4. l + 1 .. e \subseteq l + 1 .. n
        BY <1>2, <2>1
      <4>5. Within(nodes, l + 1, e) \subseteq Within(nodes, l + 1, n)
        BY <4>4 DEF Within
      <4>6. QED
        BY <3>1, <4>2, <4>3, <4>5 DEF After
    <3>2. CASE ~Behind(nodes, i)
      BY <1>3, <3>2 DEF After
    <3>3. QED
      BY <3>1, <3>2
  <2>6. /\ firsts \cap A = {} \/ firsts \cap B = {}
        /\ lasts \cap A = {} \/ lasts \cap B = {}
        /\ firsts \cap B = {} \/ Within(nodes, i + 1, l) \cap A = {}
        /\ (firsts \cup Within(nodes, i + 1, l)) \cap B = {} \/ lasts \cap A = {}
        /\ Within(nodes, i, l) \cap B = {} \/ Within(nodes, l + 1, n) \cap A = {}
    BY <1>2 DEF Sorted
  <2>7. Precede(nodes[i].starts, A, B) /\ Precede(nodes[i].ends, A, B)
    BY <2>6 DEF Precede, Range
  <2> HIDE DEF inner, after, l, e, S
  <2>8. Within(nodes, i, l) = firsts \cup lasts \cup Within(nodes, i + 1, l)
    <3>1. i .. l = {i} \cup (i + 1 .. l)
      BY <1>2, <2>1
    <3>2. QED
      BY <3>1 DEF Within, SystemsAt
  <2> HIDE DEF firsts, lasts
  <2>9. Range(own) \subseteq Within(nodes, i, l) /\ Precede(own, A, B)
    <3>1. CASE nodes[i].group \in closed
      BY <1>3, <3>1 DEF Own
    <3>2. CASE nodes[i].group \notin closed
      <4> DEFINE first == nodes[i].starts \o inner
      <4>1. /\ first \in Seq(AllSystems)
            /\ Range(first) = firsts \cup Range(inner)
        BY <2>2, <2>3, ConcatRange DEF firsts
      <4>2. Precede(first, A, B)
        <5>1. firsts \cap B = {} \/ Range(inner) \cap A = {}
          BY <2>4, <2>6
        <5>2. QED
          BY <2>2, <2>3, <2>4, <2>7, <5>1, ConcatPrecede DEF firsts
      <4>3. own = first \o nodes[i].ends
        BY <3>2 DEF Own, inner
      <4> HIDE DEF first, own
      <4>4. Range(own) = Range(first) \cup lasts
        BY <2>3, <4>1, <4>3, ConcatRange DEF lasts
      <4>5. Precede(own, A, B)
        <5>1. Range(first) \cap B = {} \/ lasts \cap A = {}
          BY <2>4, <2>6, <4>1
        <5>2. QED
          BY <2>3, <2>7, <4>1, <4>2, <4>3, <5>1, ConcatPrecede DEF lasts
      <4>6. QED
        BY <2>4, <2>8, <4>1, <4>4, <4>5
    <3>3. QED
      BY <3>1, <3>2
  <2> HIDE DEF own
  <2>10. Range(own) \cap B = {} \/ Range(after) \cap A = {}
    BY <2>5, <2>6, <2>9
  <2>11. Precede(run[i], A, B)
    BY <2>2, <2>5, <2>9, <2>10, ConcatPrecede
  <2>12. QED
    BY <2>11 DEF S
<1>5. \A i \in 1 .. n : i \in S
  <2> HIDE DEF S
  <2>1. QED
    BY <1>2, <1>4, Downwards
<1>6. 1 \in 1 .. n
  BY RootFamily
<1>7. QED
  BY <1>1, <1>5, <1>6

\* Where systems of two stretches of nodes meet, the stretches do.
LEMMA WithinMeet ==
    ASSUME NEW nodes, IsTree(nodes), PlacedOnce(nodes),
           NEW i, NEW j, NEW k, NEW m, i .. j \subseteq DOMAIN nodes, k .. m \subseteq DOMAIN nodes,
           NEW A, NEW B, A \subseteq Within(nodes, i, j), B \subseteq Within(nodes, k, m),
           A \cap B # {}
    PROVE  \E x : x \in i .. j /\ x \in k .. m
<1>1. Within(nodes, i, j) \cap Within(nodes, k, m) # {}
  OBVIOUS
<1>2. (i .. j) \cap (k .. m) # {}
  BY <1>1, WithinApart
<1>3. QED
  BY <1>2

\* Where systems of a stretch of nodes are found around a node.
LEMMA FoundAround ==
    ASSUME NEW nodes, IsTree(nodes), PlacedOnce(nodes),
           NEW a, NEW b, a .. b \subseteq DOMAIN nodes,
           NEW A, A \subseteq Within(nodes, a, b), NEW x \in 1 .. Len(nodes)
    PROVE  LET n == Len(nodes)
               lx == LastBelow(nodes, x)
           IN /\ lx \in x .. n
              /\ Range(nodes[x].starts) \cap A # {} => x \in a .. b
              /\ Range(nodes[x].ends) \cap A # {} => x \in a .. b
              /\ Within(nodes, x + 1, lx) \cap A # {} => \E y \in x + 1 .. lx : y \in a .. b
              /\ Within(nodes, x, lx) \cap A # {} => \E y \in x .. lx : y \in a .. b
              /\ Within(nodes, lx + 1, n) \cap A # {} => \E y \in lx + 1 .. n : y \in a .. b
<1> DEFINE n == Len(nodes)
           lx == LastBelow(nodes, x)
           firsts == Range(nodes[x].starts)
           lasts == Range(nodes[x].ends)
<1>1. n \in Nat /\ DOMAIN nodes = 1 .. n
  BY NodeParts
<1>2. lx \in x .. n
  BY LastBelowIs
<1>3. ASSUME NEW c \in 1 .. n + 1, NEW d \in 0 .. n, NEW S, S \subseteq Within(nodes, c, d),
             S \cap A # {}
      PROVE  \E y \in c .. d : y \in a .. b
  <2>1. c .. d \subseteq DOMAIN nodes
    BY <1>1
  <2>2. \E y : y \in c .. d /\ y \in a .. b
    <3> HIDE DEF n
    <3>1. QED
      BY <1>3, <2>1, WithinMeet
  <2>3. QED
    BY <2>2
<1>4. firsts \subseteq Within(nodes, x, x) /\ lasts \subseteq Within(nodes, x, x)
  <2>1. firsts \subseteq SystemsAt(nodes[x]) /\ lasts \subseteq SystemsAt(nodes[x])
    BY DEF SystemsAt
  <2>2. x \in x .. x
    BY <1>1
  <2> HIDE DEF firsts, lasts, lx
  <2>3. QED
    BY <2>1, <2>2 DEF Within
<1> HIDE DEF n, firsts, lasts, lx
<1>5. /\ x \in 1 .. n + 1 /\ x \in 0 .. n /\ lx \in 0 .. n /\ x + 1 \in 1 .. n + 1
      /\ lx + 1 \in 1 .. n + 1 /\ n \in 0 .. n
  BY <1>1, <1>2 DEF n
<1>6. \A y \in x .. x : y = x
  BY <1>1, <1>5
<1>7. firsts \cap A # {} => x \in a .. b
  BY <1>3, <1>4, <1>5, <1>6
<1>8. lasts \cap A # {} => x \in a .. b
  BY <1>3, <1>4, <1>5, <1>6
<1>9. Within(nodes, x + 1, lx) \cap A # {} => \E y \in x + 1 .. lx : y \in a .. b
  BY <1>3, <1>5
<1>10. Within(nodes, x, lx) \cap A # {} => \E y \in x .. lx : y \in a .. b
  BY <1>3, <1>5
<1>11. Within(nodes, lx + 1, n) \cap A # {} => \E y \in lx + 1 .. n : y \in a .. b
  BY <1>3, <1>5
<1>12. QED
  BY <1>2, <1>7, <1>8, <1>9, <1>10, <1>11 DEF n, firsts, lasts, lx

\* The first systems of a node, or those below it.
LEMMA BelowIs ==
    ASSUME NEW nodes, IsTree(nodes), NEW x \in 1 .. Len(nodes), NEW B,
           (Range(nodes[x].starts) \cup Within(nodes, x + 1, LastBelow(nodes, x))) \cap B # {}
    PROVE  /\ Within(nodes, x, LastBelow(nodes, x)) \cap B # {}
           /\ \/ Range(nodes[x].starts) \cap B # {}
              \/ Within(nodes, x + 1, LastBelow(nodes, x)) \cap B # {}
<1> DEFINE lx == LastBelow(nodes, x)
<1>1. lx \in x .. Len(nodes) /\ Len(nodes) \in Nat
  BY LastBelowIs, NodeParts
<1>2. x \in x .. lx /\ x + 1 .. lx \subseteq x .. lx
  BY <1>1
<1>3. Range(nodes[x].starts) \subseteq SystemsAt(nodes[x])
  BY DEF SystemsAt
<1> HIDE DEF lx
<1>4. Range(nodes[x].starts) \cup Within(nodes, x + 1, lx) \subseteq Within(nodes, x, lx)
  BY <1>2, <1>3 DEF Within
<1>5. QED
  BY <1>4 DEF lx

\* Where the groups of two nodes that are not one below the other run.
LEMMA SubtreesSorted ==
    ASSUME NEW nodes, IsTree(nodes), PlacedOnce(nodes),
           NEW i \in DOMAIN nodes, NEW k \in DOMAIN nodes, i < k, ~Under(nodes, i, k)
    PROVE  Sorted(nodes, Within(nodes, i, LastBelow(nodes, i)),
                  Within(nodes, k, LastBelow(nodes, k)))
<1> DEFINE n == Len(nodes)
           l == LastBelow(nodes, i)
           m == LastBelow(nodes, k)
           A == Within(nodes, i, l)
           B == Within(nodes, k, m)
<1>1. n \in Nat /\ DOMAIN nodes = 1 .. n
  BY NodeParts
<1>2. l \in i .. n /\ m \in k .. n
  BY <1>1, LastBelowIs
<1>3. l < k
  BY <1>1, <1>2, UnderIs
<1>4. i .. l \subseteq DOMAIN nodes /\ k .. m \subseteq DOMAIN nodes
  BY <1>1, <1>2
<1>5. \A x \in 1 .. n : x \in i .. l => LastBelow(nodes, x) <= l
  BY <1>1, UnderNested
<1>6. A \subseteq Within(nodes, i, l) /\ B \subseteq Within(nodes, k, m)
  OBVIOUS
<1> HIDE DEF l, m, A, B
<1>7. ASSUME NEW x \in 1 .. n
      PROVE  LET lx == LastBelow(nodes, x)
                 firsts == Range(nodes[x].starts)
                 lasts == Range(nodes[x].ends)
             IN /\ firsts \cap A = {} \/ firsts \cap B = {}
                /\ lasts \cap A = {} \/ lasts \cap B = {}
                /\ firsts \cap B = {} \/ Within(nodes, x + 1, lx) \cap A = {}
                /\ (firsts \cup Within(nodes, x + 1, lx)) \cap B = {} \/ lasts \cap A = {}
                /\ Within(nodes, x, lx) \cap B = {} \/ Within(nodes, lx + 1, n) \cap A = {}
  <2> DEFINE lx == LastBelow(nodes, x)
             firsts == Range(nodes[x].starts)
             lasts == Range(nodes[x].ends)
  <2>1. lx \in x .. n
    BY LastBelowIs
  <2>2. /\ firsts \cap A # {} => x \in i .. l
        /\ lasts \cap A # {} => x \in i .. l
        /\ Within(nodes, x + 1, lx) \cap A # {} => \E y \in x + 1 .. lx : y \in i .. l
        /\ Within(nodes, lx + 1, n) \cap A # {} => \E y \in lx + 1 .. n : y \in i .. l
    BY <1>4, <1>6, FoundAround
  <2>3. /\ firsts \cap B # {} => x \in k .. m
        /\ lasts \cap B # {} => x \in k .. m
        /\ Within(nodes, x, lx) \cap B # {} => \E y \in x .. lx : y \in k .. m
    BY <1>4, <1>6, FoundAround
  <2>4. (firsts \cup Within(nodes, x + 1, lx)) \cap B # {} => Within(nodes, x, lx) \cap B # {}
    BY BelowIs
  <2>5. x \in i .. l => lx <= l
    BY <1>5
  <2> HIDE DEF lx, firsts, lasts, n
  <2>6. firsts \cap A = {} \/ firsts \cap B = {}
    BY <1>1, <1>2, <1>3, <2>1, <2>2, <2>3
  <2>7. lasts \cap A = {} \/ lasts \cap B = {}
    BY <1>1, <1>2, <1>3, <2>1, <2>2, <2>3
  <2>8. firsts \cap B = {} \/ Within(nodes, x + 1, lx) \cap A = {}
    BY <1>1, <1>2, <1>3, <2>1, <2>2, <2>3
  <2>9. (firsts \cup Within(nodes, x + 1, lx)) \cap B = {} \/ lasts \cap A = {}
    BY <1>1, <1>2, <1>3, <2>1, <2>2, <2>3, <2>4, <2>5
  <2>10. Within(nodes, x, lx) \cap B = {} \/ Within(nodes, lx + 1, n) \cap A = {}
    BY <1>1, <1>2, <1>3, <2>1, <2>2, <2>3
  <2>11. QED
    BY <2>6, <2>7, <2>8, <2>9, <2>10 DEF lx, firsts, lasts
<1>8. QED
  BY <1>1, <1>7 DEF Sorted, l, m, A, B

\* The first systems of a node come before the groups below it ...
LEMMA FirstsSorted ==
    ASSUME NEW nodes, IsTree(nodes), PlacedOnce(nodes),
           NEW i \in DOMAIN nodes, NEW k \in DOMAIN nodes, i < k, Under(nodes, i, k)
    PROVE  Sorted(nodes, Range(nodes[i].starts), Within(nodes, k, LastBelow(nodes, k)))
<1> DEFINE n == Len(nodes)
           m == LastBelow(nodes, k)
           A == Range(nodes[i].starts)
           B == Within(nodes, k, m)
<1>1. n \in Nat /\ DOMAIN nodes = 1 .. n
  BY NodeParts
<1>2. m \in k .. n
  BY <1>1, LastBelowIs
<1>3. i .. i \subseteq DOMAIN nodes /\ k .. m \subseteq DOMAIN nodes /\ \A y \in i .. i : y = i
  BY <1>1, <1>2
<1>4. A \subseteq Within(nodes, i, i) /\ B \subseteq Within(nodes, k, m)
  <2>1. A \subseteq SystemsAt(nodes[i]) /\ i \in i .. i
    BY <1>1 DEF SystemsAt
  <2> HIDE DEF A
  <2>2. QED
    BY <2>1 DEF Within
<1>5. A \cap Range(nodes[i].ends) = {}
  BY DEF PlacedOnce, NodeOnce
<1> HIDE DEF m, A, B
<1>6. ASSUME NEW x \in 1 .. n
      PROVE  LET lx == LastBelow(nodes, x)
                 firsts == Range(nodes[x].starts)
                 lasts == Range(nodes[x].ends)
             IN /\ firsts \cap A = {} \/ firsts \cap B = {}
                /\ lasts \cap A = {} \/ lasts \cap B = {}
                /\ firsts \cap B = {} \/ Within(nodes, x + 1, lx) \cap A = {}
                /\ (firsts \cup Within(nodes, x + 1, lx)) \cap B = {} \/ lasts \cap A = {}
                /\ Within(nodes, x, lx) \cap B = {} \/ Within(nodes, lx + 1, n) \cap A = {}
  <2> DEFINE lx == LastBelow(nodes, x)
             firsts == Range(nodes[x].starts)
             lasts == Range(nodes[x].ends)
  <2>1. lx \in x .. n
    BY LastBelowIs
  <2>2. /\ firsts \cap A # {} => x \in i .. i
        /\ lasts \cap A # {} => x \in i .. i
        /\ Within(nodes, x + 1, lx) \cap A # {} => \E y \in x + 1 .. lx : y \in i .. i
        /\ Within(nodes, lx + 1, n) \cap A # {} => \E y \in lx + 1 .. n : y \in i .. i
    BY <1>3, <1>4, FoundAround
  <2>3. /\ firsts \cap B # {} => x \in k .. m
        /\ lasts \cap B # {} => x \in k .. m
        /\ Within(nodes, x, lx) \cap B # {} => \E y \in x .. lx : y \in k .. m
    BY <1>3, <1>4, FoundAround
  <2>4. lasts \cap A = {}
    BY <1>3, <1>5, <2>2
  <2> HIDE DEF lx, firsts, lasts, n
  <2>5. firsts \cap A = {} \/ firsts \cap B = {}
    BY <1>1, <1>2, <2>1, <2>2, <2>3
  <2>6. firsts \cap B = {} \/ Within(nodes, x + 1, lx) \cap A = {}
    BY <1>1, <1>2, <2>1, <2>2, <2>3
  <2>7. Within(nodes, x, lx) \cap B = {} \/ Within(nodes, lx + 1, n) \cap A = {}
    BY <1>1, <1>2, <2>1, <2>2, <2>3
  <2>8. QED
    BY <2>4, <2>5, <2>6, <2>7 DEF lx, firsts, lasts
<1>7. QED
  BY <1>1, <1>6 DEF Sorted, m, A, B

\* ... and its last systems behind them.
LEMMA LastsSorted ==
    ASSUME NEW nodes, IsTree(nodes), PlacedOnce(nodes),
           NEW i \in DOMAIN nodes, NEW k \in DOMAIN nodes, i < k, Under(nodes, i, k)
    PROVE  Sorted(nodes, Within(nodes, k, LastBelow(nodes, k)), Range(nodes[i].ends))
<1> DEFINE n == Len(nodes)
           m == LastBelow(nodes, k)
           l == LastBelow(nodes, i)
           A == Within(nodes, k, m)
           B == Range(nodes[i].ends)
<1>1. n \in Nat /\ DOMAIN nodes = 1 .. n
  BY NodeParts
<1>2. m \in k .. n
  BY <1>1, LastBelowIs
<1>3. i .. i \subseteq DOMAIN nodes /\ k .. m \subseteq DOMAIN nodes /\ \A y \in i .. i : y = i
  BY <1>1, <1>2
<1>4. B \subseteq Within(nodes, i, i) /\ A \subseteq Within(nodes, k, m)
  <2>1. B \subseteq SystemsAt(nodes[i]) /\ i \in i .. i
    BY <1>1 DEF SystemsAt
  <2> HIDE DEF B
  <2>2. QED
    BY <2>1 DEF Within
<1>5. B \cap Range(nodes[i].starts) = {}
  BY DEF PlacedOnce, NodeOnce
<1>6. l \in i .. n /\ k \in i .. l /\ m <= l
  BY <1>1, LastBelowIs, UnderIs, UnderNested
<1>7. \A x \in 1 .. n : i \in x .. LastBelow(nodes, x) => l <= LastBelow(nodes, x)
  BY <1>1, UnderNested
<1> HIDE DEF m, l, A, B
<1>8. ASSUME NEW x \in 1 .. n
      PROVE  LET lx == LastBelow(nodes, x)
                 firsts == Range(nodes[x].starts)
                 lasts == Range(nodes[x].ends)
             IN /\ firsts \cap A = {} \/ firsts \cap B = {}
                /\ lasts \cap A = {} \/ lasts \cap B = {}
                /\ firsts \cap B = {} \/ Within(nodes, x + 1, lx) \cap A = {}
                /\ (firsts \cup Within(nodes, x + 1, lx)) \cap B = {} \/ lasts \cap A = {}
                /\ Within(nodes, x, lx) \cap B = {} \/ Within(nodes, lx + 1, n) \cap A = {}
  <2> DEFINE lx == LastBelow(nodes, x)
             firsts == Range(nodes[x].starts)
             lasts == Range(nodes[x].ends)
  <2>1. lx \in x .. n
    BY LastBelowIs
  <2>2. /\ firsts \cap B # {} => x \in i .. i
        /\ lasts \cap B # {} => x \in i .. i
        /\ Within(nodes, x + 1, lx) \cap B # {} => \E y \in x + 1 .. lx : y \in i .. i
        /\ Within(nodes, x, lx) \cap B # {} => \E y \in x .. lx : y \in i .. i
    BY <1>3, <1>4, FoundAround
  <2>3. /\ lasts \cap A # {} => x \in k .. m
        /\ Within(nodes, lx + 1, n) \cap A # {} => \E y \in lx + 1 .. n : y \in k .. m
    BY <1>3, <1>4, FoundAround
  <2>4. firsts \cap B = {}
    BY <1>3, <1>5, <2>2
  <2>5. (firsts \cup Within(nodes, x + 1, lx)) \cap B # {} => Within(nodes, x + 1, lx) \cap B # {}
    BY <2>4
  <2>6. i \in x .. lx => l <= lx
    BY <1>7
  <2> HIDE DEF lx, firsts, lasts, n
  <2>7. lasts \cap A = {} \/ lasts \cap B = {}
    BY <1>1, <1>2, <2>1, <2>2, <2>3
  <2>8. (firsts \cup Within(nodes, x + 1, lx)) \cap B = {} \/ lasts \cap A = {}
    BY <1>1, <1>2, <2>1, <2>2, <2>3, <2>5
  <2>9. Within(nodes, x, lx) \cap B = {} \/ Within(nodes, lx + 1, n) \cap A = {}
    BY <1>1, <1>2, <1>3, <1>6, <2>1, <2>2, <2>3, <2>6
  <2>10. QED
    BY <2>4, <2>7, <2>8, <2>9 DEF lx, firsts, lasts
<1>9. QED
  BY <1>1, <1>8 DEF Sorted, m, A, B

\* The systems of a group and of those below it.
LEMMA SystemsBelow ==
    ASSUME NEW nodes, IsTree(nodes), NEW i \in DOMAIN nodes
    PROVE  SystemsIn(SubSeq(nodes, i, LastBelow(nodes, i))) = Within(nodes, i, LastBelow(nodes, i))
<1> DEFINE n == Len(nodes)
           l == LastBelow(nodes, i)
           part == SubSeq(nodes, i, l)
<1>1. n \in Nat /\ DOMAIN nodes = 1 .. n /\ nodes \in Seq(Nodes)
  BY NodeParts
<1>2. l \in i .. n
  BY <1>1, LastBelowIs
<1> HIDE DEF l
<1>3. /\ DOMAIN part = 1 .. l - i + 1
      /\ \A j \in 1 .. l - i + 1 : part[j] = nodes[i + j - 1]
  BY <1>1, <1>2
<1> HIDE DEF part
<1>4. \A k \in i .. l : \E j \in 1 .. l - i + 1 : k = i + j - 1
  <2> TAKE k \in i .. l
  <2>1. k - i + 1 \in 1 .. l - i + 1 /\ k = i + (k - i + 1) - 1
    BY <1>1, <1>2
  <2>2. QED
    BY <2>1
<1>5. \A j \in 1 .. l - i + 1 : i + j - 1 \in i .. l
  BY <1>1, <1>2
<1>6. \A s : s \in SystemsIn(part) <=> \E k \in i .. l : s \in SystemsAt(nodes[k])
  BY <1>3, <1>4, <1>5 DEF SystemsIn
<1>7. QED
  BY <1>6 DEF Within, part, l

-----------------------------------------------------------------------------
(* What the program asked. *)

\* Each group has a name of its own.
Named(nodes) == \A i, k \in DOMAIN nodes : nodes[i].group = nodes[k].group => i = k

\* How the nodes of the two groups of a request stand to each other.
Stands(a, nodes, i, k) ==
    /\ nodes[i].group = a.target
    /\ nodes[k].group = a.new
    /\ a.inside => i < k /\ Under(nodes, i, k)
    /\ ~a.inside /\ a.before => k < i /\ ~Under(nodes, k, i)
    /\ ~a.inside /\ ~a.before => i < k /\ ~Under(nodes, i, k)

\* A group that stands where it was asked to runs there.
LEMMA RunsThere ==
    ASSUME NEW nodes, IsTree(nodes), PlacedOnce(nodes), Named(nodes),
           NEW a, a.inside \in BOOLEAN, a.before \in BOOLEAN,
           NEW i \in DOMAIN nodes, NEW k \in DOMAIN nodes, Stands(a, nodes, i, k)
    PROVE  LET order == RunOrder(nodes, {})
               node(g) == CHOOSE m \in DOMAIN nodes : nodes[m].group = g
               below(g) == SystemsIn(SubSeq(nodes, node(g), LastBelow(nodes, node(g))))
           IN CASE a.inside -> /\ Precede(order, Range(nodes[node(a.target)].starts), below(a.new))
                               /\ Precede(order, below(a.new), Range(nodes[node(a.target)].ends))
                [] ~a.inside /\ a.before -> Precede(order, below(a.new), below(a.target))
                [] OTHER -> Precede(order, below(a.target), below(a.new))
<1> DEFINE order == RunOrder(nodes, {})
           node(g) == CHOOSE m \in DOMAIN nodes : nodes[m].group = g
           below(g) == SystemsIn(SubSeq(nodes, node(g), LastBelow(nodes, node(g))))
<1>1. node(a.target) = i
  <2>1. \A m \in DOMAIN nodes : nodes[m].group = a.target <=> m = i
    BY DEF Named, Stands
  <2>2. QED
    BY <2>1
<1>2. node(a.new) = k
  <2>1. \A m \in DOMAIN nodes : nodes[m].group = a.new <=> m = k
    BY DEF Named, Stands
  <2>2. QED
    BY <2>1
<1> HIDE DEF node
<1>3. below(a.target) = Within(nodes, i, LastBelow(nodes, i))
  BY <1>1, SystemsBelow
<1>4. below(a.new) = Within(nodes, k, LastBelow(nodes, k))
  BY <1>2, SystemsBelow
<1> HIDE DEF below, order
<1>5. CASE a.inside
  <2>1. i < k /\ Under(nodes, i, k)
    BY <1>5 DEF Stands
  <2>2. Precede(order, Range(nodes[i].starts), below(a.new))
    BY <1>4, <2>1, FirstsSorted, RunPrecedes DEF order
  <2>3. Precede(order, below(a.new), Range(nodes[i].ends))
    BY <1>4, <2>1, LastsSorted, RunPrecedes DEF order
  <2>4. QED
    BY <1>1, <1>5, <2>2, <2>3 DEF order, node, below
<1>6. CASE ~a.inside /\ a.before
  <2>1. k < i /\ ~Under(nodes, k, i)
    BY <1>6 DEF Stands
  <2>2. Precede(order, below(a.new), below(a.target))
    BY <1>3, <1>4, <2>1, SubtreesSorted, RunPrecedes DEF order
  <2>3. QED
    BY <1>6, <2>2 DEF order, node, below
<1>7. CASE ~a.inside /\ ~a.before
  <2>1. i < k /\ ~Under(nodes, i, k)
    BY <1>7 DEF Stands
  <2>2. Precede(order, below(a.target), below(a.new))
    BY <1>3, <1>4, <2>1, SubtreesSorted, RunPrecedes DEF order
  <2>3. QED
    BY <1>7, <2>2 DEF order, node, below
<1>8. QED
  BY <1>5, <1>6, <1>7

-----------------------------------------------------------------------------
(* What registering does to a tree: the nodes there were are still there,    *)
(* in the same order and below the same nodes.                               *)

Grown(nodes, new, at) ==
    /\ at \in [DOMAIN nodes -> DOMAIN new]
    /\ \A i, k \in DOMAIN nodes : i < k => at[i] < at[k]
    /\ \A i \in DOMAIN nodes : /\ new[at[i]].group = nodes[i].group
                               /\ SystemsAt(nodes[i]) \subseteq SystemsAt(new[at[i]])
    /\ \A i, k \in DOMAIN nodes : Under(nodes, i, k) <=> Under(new, at[i], at[k])

LEMMA StandsStill ==
    ASSUME NEW nodes, NEW new, NEW at, Grown(nodes, new, at), NEW a,
           NEW i \in DOMAIN nodes, NEW k \in DOMAIN nodes, Stands(a, nodes, i, k)
    PROVE  /\ at[i] \in DOMAIN new /\ at[k] \in DOMAIN new
           /\ Stands(a, new, at[i], at[k])
BY DEF Grown, Stands

\* A start callback may keep these systems from running.
Gated(nodes, s) ==
    \E i, k \in DOMAIN nodes :
        nodes[i].group \in Hooked /\ Under(nodes, i, k) /\ s \in SystemsAt(nodes[k])

LEMMA GatedStill ==
    ASSUME NEW nodes, NEW new, NEW at, Grown(nodes, new, at), NEW s, Gated(nodes, s)
    PROVE  Gated(new, s)
<1>1. PICK i \in DOMAIN nodes, k \in DOMAIN nodes :
          nodes[i].group \in Hooked /\ Under(nodes, i, k) /\ s \in SystemsAt(nodes[k])
  BY DEF Gated
<1>2. /\ at[i] \in DOMAIN new /\ at[k] \in DOMAIN new
      /\ new[at[i]].group \in Hooked /\ Under(new, at[i], at[k]) /\ s \in SystemsAt(new[at[k]])
  BY <1>1 DEF Grown
<1>3. QED
  BY <1>2 DEF Gated

\* The systems that run are those no closed node is above.
LEMMA UngatedRuns ==
    ASSUME NEW nodes, IsTree(nodes), PlacedOnce(nodes), NEW closed \in SUBSET Hooked,
           NEW s, s \in SystemsIn(nodes), ~Gated(nodes, s)
    PROVE  s \in Range(RunOrder(nodes, closed))
<1>1. PICK m \in DOMAIN nodes : s \in SystemsAt(nodes[m])
  BY DEF SystemsIn
<1>2. DOMAIN nodes = 1 .. Len(nodes) /\ Len(nodes) \in Nat
  BY NodeParts
<1>3. \A k \in 1 .. m : Under(nodes, k, m) => nodes[k].group \notin closed
  <2> TAKE k \in 1 .. m
  <2>1. k \in DOMAIN nodes
    BY <1>2
  <2>2. QED
    BY <1>1, <2>1 DEF Gated
<1>4. QED
  BY <1>1, <1>3, RunOrderIs

\* The nodes of a branch go in at a place, so much deeper than they are.
Graft(nodes, branch, new, place, deeper) ==
    /\ place \in 2 .. Len(nodes) + 1
    /\ deeper \in 1 .. nodes[place - 1].depth + 1
    /\ place <= Len(nodes) => nodes[place].depth <= deeper
    /\ new \in Seq(Nodes)
    /\ Len(new) = Len(nodes) + Len(branch)
    /\ \A i \in 1 .. place - 1 : new[i] = nodes[i]
    /\ \A i \in 1 .. Len(branch) :
           /\ new[place - 1 + i].group = branch[i].group
           /\ new[place - 1 + i].starts = branch[i].starts
           /\ new[place - 1 + i].ends = branch[i].ends
           /\ new[place - 1 + i].depth = branch[i].depth + deeper
    /\ \A i \in place .. Len(nodes) : new[i + Len(branch)] = nodes[i]

\* Where the nodes of a tree with a branch more come from.
LEMMA GraftFrom ==
    ASSUME NEW nodes, IsTree(nodes), NEW branch, IsTree(branch), NEW new, NEW place, NEW deeper,
           Graft(nodes, branch, new, place, deeper), NEW x \in 1 .. Len(nodes) + Len(branch)
    PROVE  \/ x \in 1 .. place - 1 /\ x \in 1 .. Len(nodes)
           \/ \E i \in 1 .. Len(branch) : x = place - 1 + i
           \/ \E i \in place .. Len(nodes) : x = i + Len(branch)
<1>1. Len(nodes) \in Nat /\ Len(branch) \in Nat /\ place \in 2 .. Len(nodes) + 1
  BY NodeParts DEF Graft
<1>2. CASE x < place
  BY <1>1, <1>2
<1>3. CASE place <= x /\ x < place + Len(branch)
  <2>1. x - place + 1 \in 1 .. Len(branch) /\ x = place - 1 + (x - place + 1)
    BY <1>1, <1>3
  <2>2. QED
    BY <2>1
<1>4. CASE place + Len(branch) <= x
  <2>1. x - Len(branch) \in place .. Len(nodes) /\ x = (x - Len(branch)) + Len(branch)
    BY <1>1, <1>4
  <2>2. QED
    BY <2>1
<1>5. QED
  BY <1>1, <1>2, <1>3, <1>4

\* A tree with a branch more is a tree.
LEMMA GraftIsTree ==
    ASSUME NEW nodes, IsTree(nodes), NEW branch, IsTree(branch), NEW new, NEW place, NEW deeper,
           Graft(nodes, branch, new, place, deeper)
    PROVE  IsTree(new)
<1> DEFINE n == Len(nodes)
           b == Len(branch)
<1>1. n \in Nat /\ n >= 1 /\ \A i \in 1 .. n : nodes[i].depth \in Nat
  BY NodeParts
<1>2. b \in Nat /\ b >= 1 /\ \A i \in 1 .. b : branch[i].depth \in Nat
  BY NodeParts
<1>3. /\ nodes[1].depth = 0
      /\ \A i \in 2 .. n : nodes[i].depth \in 1 .. nodes[i - 1].depth + 1
  BY DEF IsTree
<1>4. /\ branch[1].depth = 0
      /\ \A i \in 2 .. b : branch[i].depth \in 1 .. branch[i - 1].depth + 1
  BY DEF IsTree
<1>5. /\ place \in 2 .. n + 1 /\ deeper \in 1 .. nodes[place - 1].depth + 1
      /\ place <= n => nodes[place].depth <= deeper
      /\ new \in Seq(Nodes) /\ Len(new) = n + b
      /\ \A i \in 1 .. place - 1 : new[i] = nodes[i]
      /\ \A i \in 1 .. b : new[place - 1 + i].depth = branch[i].depth + deeper
      /\ \A i \in place .. n : new[i + b] = nodes[i]
  BY DEF Graft
<1>6. deeper \in Nat /\ place - 1 \in 1 .. n /\ nodes[place - 1].depth \in Nat
  BY <1>1, <1>5
<1>7. ASSUME NEW x \in 2 .. n + b
      PROVE  new[x].depth \in 1 .. new[x - 1].depth + 1
  <2>1. CASE x \in 1 .. place - 1 /\ x \in 1 .. n
    <3>1. x \in 2 .. n /\ x - 1 \in 1 .. place - 1 /\ x \in 1 .. place - 1
      BY <1>1, <1>5, <2>1
    <3>2. new[x] = nodes[x] /\ new[x - 1] = nodes[x - 1]
      BY <1>5, <3>1
    <3>3. QED
      BY <1>3, <3>1, <3>2
  <2>2. ASSUME NEW i \in 1 .. b, x = place - 1 + i
        PROVE  new[x].depth \in 1 .. new[x - 1].depth + 1
    <3>1. new[x].depth = branch[i].depth + deeper
      BY <1>5, <2>2
    <3>2. CASE i = 1
      <4>1. x - 1 = place - 1 /\ place - 1 \in 1 .. place - 1
        BY <1>5, <1>6, <2>2, <3>2
      <4>2. new[x - 1] = nodes[place - 1]
        BY <1>5, <4>1
      <4>3. new[x].depth = deeper
        BY <1>4, <1>6, <3>1, <3>2
      <4>4. QED
        BY <1>5, <4>2, <4>3
    <3>3. CASE i # 1
      <4>1. i \in 2 .. b /\ i - 1 \in 1 .. b /\ x - 1 = place - 1 + (i - 1)
        BY <1>2, <1>5, <2>2, <3>3
      <4>2. new[x - 1].depth = branch[i - 1].depth + deeper
        BY <1>5, <4>1
      <4>3. branch[i].depth \in 1 .. branch[i - 1].depth + 1 /\ branch[i - 1].depth \in Nat
        BY <1>2, <1>4, <4>1
      <4>4. branch[i].depth + deeper \in 1 .. (branch[i - 1].depth + deeper) + 1
        <5> DEFINE c == branch[i].depth
                   d == branch[i - 1].depth
        <5>1. c \in 1 .. d + 1 /\ d \in Nat
          BY <4>3
        <5> HIDE DEF c, d
        <5>2. c + deeper \in 1 .. (d + deeper) + 1
          BY <1>6, <5>1
        <5>3. QED
          BY <5>2 DEF c, d
      <4>5. QED
        BY <3>1, <4>2, <4>4
    <3>4. QED
      BY <3>2, <3>3
  <2>3. ASSUME NEW i \in place .. n, x = i + b
        PROVE  new[x].depth \in 1 .. new[x - 1].depth + 1
    <3>1. i \in 2 .. n /\ new[x] = nodes[i] /\ nodes[i].depth \in 1 .. nodes[i - 1].depth + 1
      BY <1>1, <1>3, <1>5, <2>3
    <3>2. CASE i = place
      <4>1. x - 1 = place - 1 + b /\ b \in 1 .. b
        BY <1>2, <1>5, <2>3, <3>2
      <4>2. new[x - 1].depth = branch[b].depth + deeper /\ branch[b].depth \in Nat
        BY <1>2, <1>5, <4>1
      <4>3. nodes[i].depth <= deeper /\ nodes[i].depth \in Nat /\ nodes[i].depth >= 1
        <5>1. nodes[i - 1].depth \in Nat
          BY <1>6, <3>2
        <5>2. QED
          BY <1>1, <1>5, <3>1, <3>2, <5>1
      <4>4. new[x].depth = nodes[i].depth
        BY <3>1
      <4>5. QED
        BY <1>6, <4>2, <4>3, <4>4
    <3>3. CASE i # place
      <4>1. i - 1 \in place .. n /\ x - 1 = (i - 1) + b
        BY <1>1, <1>2, <1>5, <2>3, <3>3
      <4>2. new[x - 1] = nodes[i - 1]
        BY <1>5, <4>1
      <4>3. QED
        BY <3>1, <4>2
    <3>4. QED
      BY <3>2, <3>3
  <2>4. x \in 1 .. n + b
    BY <1>1, <1>2
  <2>5. QED
    BY <2>1, <2>2, <2>3, <2>4, GraftFrom
<1>8. new # <<>> /\ new[1].depth = 0
  <2>1. 1 \in 1 .. place - 1
    BY <1>5, <1>6
  <2>2. new[1] = nodes[1]
    BY <1>5, <2>1
  <2>3. Len(new) # 0
    BY <1>1, <1>2, <1>5
  <2>4. QED
    BY <1>3, <2>2, <2>3
<1>9. QED
  BY <1>5, <1>7, <1>8 DEF IsTree

\* Where the nodes there were are once a branch of b nodes went in.
Moved(nodes, place, b) == [i \in DOMAIN nodes |-> IF i < place THEN i ELSE i + b]

LEMMA MovedIs ==
    ASSUME NEW nodes, IsTree(nodes), NEW branch, IsTree(branch), NEW new, NEW place, NEW deeper,
           Graft(nodes, branch, new, place, deeper)
    PROVE  LET n == Len(nodes)
               b == Len(branch)
               at == Moved(nodes, place, b)
           IN /\ n \in Nat /\ b \in Nat /\ b >= 1 /\ place \in 2 .. n + 1
              /\ DOMAIN nodes = 1 .. n /\ DOMAIN new = 1 .. n + b
              /\ at \in [DOMAIN nodes -> DOMAIN new]
              /\ \A i \in 1 .. n : /\ i < place => at[i] = i
                                   /\ place <= i => at[i] = i + b
                                   /\ new[at[i]] = nodes[i]
<1> DEFINE n == Len(nodes)
           b == Len(branch)
           at == Moved(nodes, place, b)
<1>1. n \in Nat /\ b \in Nat /\ b >= 1 /\ DOMAIN nodes = 1 .. n
  BY NodeParts
<1>2. /\ place \in 2 .. n + 1 /\ Len(new) = n + b /\ new \in Seq(Nodes)
      /\ \A i \in 1 .. place - 1 : new[i] = nodes[i]
      /\ \A i \in place .. n : new[i + b] = nodes[i]
  BY DEF Graft
<1>3. DOMAIN new = 1 .. n + b
  BY <1>2
<1>4. \A i \in 1 .. n : at[i] = IF i < place THEN i ELSE i + b
  BY <1>1 DEF Moved
<1>5. at \in [1 .. n -> 1 .. n + b]
  <2>1. \A i \in 1 .. n : (IF i < place THEN i ELSE i + b) \in 1 .. n + b
    BY <1>1, <1>2
  <2>2. QED
    BY <1>1, <2>1 DEF Moved
<1> HIDE DEF at, n, b
<1>6. ASSUME NEW i \in 1 .. n
      PROVE  /\ i < place => at[i] = i
             /\ place <= i => at[i] = i + b
             /\ new[at[i]] = nodes[i]
  <2>1. CASE i < place
    <3>1. i \in 1 .. place - 1 /\ ~(place <= i)
      BY <1>1, <1>2, <2>1
    <3>2. QED
      BY <1>2, <1>4, <2>1, <3>1
  <2>2. CASE ~(i < place)
    <3>1. i \in place .. n
      BY <1>1, <1>2, <2>2
    <3>2. QED
      BY <1>2, <1>4, <2>2, <3>1
  <2>3. QED
    BY <2>1, <2>2
<1>7. QED
  BY <1>1, <1>2, <1>3, <1>5, <1>6 DEF at, n, b

\* A branch more leaves the nodes there were as they stood.
LEMMA GraftGrown ==
    ASSUME NEW nodes, IsTree(nodes), NEW branch, IsTree(branch), NEW new, NEW place, NEW deeper,
           Graft(nodes, branch, new, place, deeper)
    PROVE  Grown(nodes, new, Moved(nodes, place, Len(branch)))
<1> DEFINE n == Len(nodes)
           b == Len(branch)
           at == Moved(nodes, place, b)
<1>1. /\ n \in Nat /\ b \in Nat /\ b >= 1 /\ place \in 2 .. n + 1
      /\ DOMAIN nodes = 1 .. n /\ DOMAIN new = 1 .. n + b
      /\ at \in [DOMAIN nodes -> DOMAIN new]
      /\ \A i \in 1 .. n : /\ i < place => at[i] = i
                           /\ place <= i => at[i] = i + b
                           /\ new[at[i]] = nodes[i]
  BY MovedIs
<1>2. /\ \A i \in 1 .. n : nodes[i].depth \in Nat
      /\ \A i \in 1 .. b : branch[i].depth \in Nat
  BY NodeParts
<1>3. /\ place <= n => nodes[place].depth <= deeper
      /\ \A i \in 1 .. b : new[place - 1 + i].depth = branch[i].depth + deeper
      /\ deeper \in 1 .. nodes[place - 1].depth + 1
  BY DEF Graft
<1>4. deeper \in Nat
  <2>1. place - 1 \in 1 .. n
    BY <1>1
  <2>2. nodes[place - 1].depth \in Nat
    BY <1>2, <2>1
  <2>3. QED
    BY <1>3, <2>2
<1>5. \A x \in 1 .. n + b :
          \/ x \in 1 .. place - 1 /\ x \in 1 .. n
          \/ \E i \in 1 .. b : x = place - 1 + i
          \/ \E i \in place .. n : x = i + b
  BY GraftFrom
<1> HIDE DEF n, b, at
<1>6. ASSUME NEW i \in 1 .. n, NEW k \in 1 .. n, i < k PROVE at[i] < at[k]
  <2>1. CASE k < place
    <3>1. at[i] = i /\ at[k] = k
      BY <1>1, <1>6, <2>1
    <3>2. QED
      BY <1>6, <3>1
  <2>2. CASE i < place /\ place <= k
    <3>1. at[i] = i /\ at[k] = k + b
      BY <1>1, <1>6, <2>2
    <3>2. QED
      BY <1>1, <1>6, <3>1
  <2>3. CASE place <= i
    <3>1. at[i] = i + b /\ at[k] = k + b
      BY <1>1, <1>6, <2>3
    <3>2. QED
      BY <1>1, <1>6, <3>1
  <2>4. QED
    BY <1>1, <1>6, <2>1, <2>2, <2>3
<1>7. ASSUME NEW i \in 1 .. n, NEW k \in 1 .. n, Under(nodes, i, k)
      PROVE  Under(new, at[i], at[k])
  <2>1. i <= k /\ \A m \in i + 1 .. k : nodes[m].depth > nodes[i].depth
    BY <1>7 DEF Under
  <2>2. at[i] \in 1 .. n + b /\ at[k] \in 1 .. n + b /\ at[i] <= at[k]
    BY <1>1, <1>6, <2>1
  <2>3. ASSUME NEW x \in at[i] + 1 .. at[k] PROVE new[x].depth > new[at[i]].depth
    <3>1. new[at[i]].depth = nodes[i].depth /\ x \in 1 .. n + b
      BY <1>1, <2>2
    <3>2. CASE x \in 1 .. place - 1 /\ x \in 1 .. n
      <4>1. at[x] = x /\ new[x] = nodes[x]
        BY <1>1, <3>2
      <4>2. x \in i + 1 .. k
        BY <1>1, <2>2, <3>2
      <4>3. QED
        BY <2>1, <3>1, <4>1, <4>2
    <3>3. ASSUME NEW j \in 1 .. b, x = place - 1 + j
          PROVE  new[x].depth > nodes[i].depth
      <4>1. place \in i + 1 .. k /\ place <= n
        BY <1>1, <2>2, <3>3
      <4>2. nodes[place].depth > nodes[i].depth /\ nodes[place].depth <= deeper
        BY <1>3, <2>1, <4>1
      <4>3. new[x].depth = branch[j].depth + deeper /\ branch[j].depth \in Nat
        BY <1>2, <1>3, <3>3
      <4>4. nodes[place].depth \in Nat /\ nodes[i].depth \in Nat
        BY <1>1, <1>2, <4>1
      <4>5. QED
        BY <1>4, <4>2, <4>3, <4>4
    <3>4. ASSUME NEW j \in place .. n, x = j + b
          PROVE  new[x].depth > nodes[i].depth
      <4>1. j \in 1 .. n /\ at[j] = x /\ new[x] = nodes[j]
        BY <1>1, <3>4
      <4>2. j \in i + 1 .. k
        <5>1. at[i] < at[j] /\ at[j] <= at[k]
          BY <2>2, <4>1
        <5>2. i < j
          <6> SUFFICES ASSUME j <= i PROVE FALSE
            BY <4>1
          <6>1. j = i \/ at[j] < at[i]
            BY <1>6, <4>1
          <6>2. QED
            BY <2>2, <4>1, <5>1, <6>1
        <5>3. j <= k
          <6> SUFFICES ASSUME k < j PROVE FALSE
            BY <4>1
          <6>1. at[k] < at[j]
            BY <1>6, <4>1
          <6>2. QED
            BY <2>2, <4>1, <5>1, <6>1
        <5>4. QED
          BY <4>1, <5>2, <5>3
      <4>3. QED
        BY <2>1, <4>1, <4>2
    <3>5. QED
      BY <1>5, <3>1, <3>2, <3>3, <3>4
  <2>4. QED
    BY <2>2, <2>3 DEF Under
<1>8. ASSUME NEW i \in 1 .. n, NEW k \in 1 .. n, Under(new, at[i], at[k])
      PROVE  Under(nodes, i, k)
  <2>1. at[i] <= at[k] /\ \A x \in at[i] + 1 .. at[k] : new[x].depth > new[at[i]].depth
    BY <1>8 DEF Under
  <2>2. at[i] \in 1 .. n + b /\ at[k] \in 1 .. n + b
    BY <1>1
  <2>3. i <= k
    <3> SUFFICES ASSUME k < i PROVE FALSE
      BY <1>1
    <3>1. at[k] < at[i]
      BY <1>6
    <3>2. QED
      BY <2>1, <2>2, <3>1
  <2>4. ASSUME NEW m \in i + 1 .. k PROVE nodes[m].depth > nodes[i].depth
    <3>1. m \in 1 .. n /\ i < m /\ m <= k
      BY <1>1
    <3>2. at[i] < at[m] /\ at[m] <= at[k] /\ at[m] \in 1 .. n + b
      BY <1>1, <1>6, <3>1
    <3>3. at[m] \in at[i] + 1 .. at[k]
      BY <1>1, <2>2, <3>2
    <3>4. new[at[m]].depth > new[at[i]].depth
      BY <2>1, <3>3
    <3>5. QED
      BY <1>1, <3>1, <3>4
  <2>5. QED
    BY <2>3, <2>4 DEF Under
<1>9. QED
  BY <1>1, <1>6, <1>7, <1>8 DEF Grown, at, b

\* What is in a tree with a branch more.
LEMMA GraftHolds ==
    ASSUME NEW nodes, IsTree(nodes), NEW branch, IsTree(branch), NEW new, NEW place, NEW deeper,
           Graft(nodes, branch, new, place, deeper)
    PROVE  /\ SystemsIn(new) = SystemsIn(nodes) \cup SystemsIn(branch)
           /\ GroupsIn(new) = GroupsIn(nodes) \cup GroupsIn(branch)
           /\ (/\ PlacedOnce(nodes) /\ PlacedOnce(branch)
               /\ SystemsIn(nodes) \cap SystemsIn(branch) = {}) => PlacedOnce(new)
           /\ (/\ Named(nodes) /\ Named(branch)
               /\ GroupsIn(nodes) \cap GroupsIn(branch) = {}) => Named(new)
<1> DEFINE n == Len(nodes)
           b == Len(branch)
           at == Moved(nodes, place, b)
<1>1. /\ n \in Nat /\ b \in Nat /\ b >= 1 /\ place \in 2 .. n + 1
      /\ DOMAIN nodes = 1 .. n /\ DOMAIN new = 1 .. n + b
      /\ at \in [DOMAIN nodes -> DOMAIN new]
      /\ \A i \in 1 .. n : /\ i < place => at[i] = i
                           /\ place <= i => at[i] = i + b
                           /\ new[at[i]] = nodes[i]
  BY MovedIs
<1>2. DOMAIN branch = 1 .. b
  BY NodeParts
<1>3. \A i \in 1 .. b : /\ new[place - 1 + i].group = branch[i].group
                        /\ new[place - 1 + i].starts = branch[i].starts
                        /\ new[place - 1 + i].ends = branch[i].ends
                        /\ place - 1 + i \in 1 .. n + b
  <2>1. \A i \in 1 .. b : place - 1 + i \in 1 .. n + b
    BY <1>1
  <2>2. QED
    BY <2>1 DEF Graft
<1>4. \A x \in 1 .. n + b :
          \/ x \in 1 .. place - 1 /\ x \in 1 .. n
          \/ \E i \in 1 .. b : x = place - 1 + i
          \/ \E i \in place .. n : x = i + b
  BY GraftFrom
<1> HIDE DEF n, b, at
<1>5. \A x \in 1 .. n + b : \/ \E i \in 1 .. n : x = at[i]
                            \/ \E i \in 1 .. b : x = place - 1 + i
  <2> TAKE x \in 1 .. n + b
  <2>1. CASE x \in 1 .. place - 1 /\ x \in 1 .. n
    BY <1>1, <2>1
  <2>2. CASE \E i \in place .. n : x = i + b
    <3>1. PICK i \in place .. n : x = i + b
      BY <2>2
    <3>2. i \in 1 .. n /\ at[i] = x
      BY <1>1, <3>1
    <3>3. QED
      BY <3>2
  <2>3. QED
    BY <1>4, <2>1, <2>2
<1>6. \A i \in 1 .. b : SystemsAt(new[place - 1 + i]) = SystemsAt(branch[i])
  BY <1>3 DEF SystemsAt
<1>7. \A i \in 1 .. n : at[i] \in 1 .. n + b
  BY <1>1
<1>8. SystemsIn(new) = SystemsIn(nodes) \cup SystemsIn(branch)
  <2>1. \A s \in SystemsIn(new) : s \in SystemsIn(nodes) \cup SystemsIn(branch)
    <3> TAKE s \in SystemsIn(new)
    <3>1. PICK x \in 1 .. n + b : s \in SystemsAt(new[x])
      BY <1>1 DEF SystemsIn
    <3>2. CASE \E i \in 1 .. n : x = at[i]
      BY <1>1, <3>1, <3>2 DEF SystemsIn
    <3>3. CASE \E i \in 1 .. b : x = place - 1 + i
      BY <1>2, <1>6, <3>1, <3>3 DEF SystemsIn
    <3>4. QED
      BY <1>5, <3>2, <3>3
  <2>2. \A s \in SystemsIn(nodes) : s \in SystemsIn(new)
    <3> TAKE s \in SystemsIn(nodes)
    <3>1. PICK i \in 1 .. n : s \in SystemsAt(nodes[i])
      BY <1>1 DEF SystemsIn
    <3>2. s \in SystemsAt(new[at[i]])
      BY <1>1, <3>1
    <3>3. QED
      BY <1>1, <1>7, <3>2 DEF SystemsIn
  <2>3. \A s \in SystemsIn(branch) : s \in SystemsIn(new)
    <3> TAKE s \in SystemsIn(branch)
    <3>1. PICK i \in 1 .. b : s \in SystemsAt(branch[i])
      BY <1>2 DEF SystemsIn
    <3>2. s \in SystemsAt(new[place - 1 + i])
      BY <1>6, <3>1
    <3>3. QED
      BY <1>1, <1>3, <3>2 DEF SystemsIn
  <2>4. QED
    BY <2>1, <2>2, <2>3
<1>9. GroupsIn(new) = GroupsIn(nodes) \cup GroupsIn(branch)
  <2>1. \A g \in GroupsIn(new) : g \in GroupsIn(nodes) \cup GroupsIn(branch)
    <3> TAKE g \in GroupsIn(new)
    <3>1. PICK x \in 1 .. n + b : g = new[x].group
      BY <1>1 DEF GroupsIn
    <3>2. ASSUME NEW i \in 1 .. n, x = at[i] PROVE g \in GroupsIn(nodes)
      <4>1. g = nodes[i].group
        BY <1>1, <3>1, <3>2
      <4>2. QED
        BY <1>1, <4>1 DEF GroupsIn
    <3>3. ASSUME NEW i \in 1 .. b, x = place - 1 + i PROVE g \in GroupsIn(branch)
      <4>1. g = branch[i].group
        BY <1>3, <3>1, <3>3
      <4>2. QED
        BY <1>2, <4>1 DEF GroupsIn
    <3>4. QED
      BY <1>5, <3>2, <3>3
  <2>2. \A g \in GroupsIn(nodes) : g \in GroupsIn(new)
    <3> TAKE g \in GroupsIn(nodes)
    <3>1. PICK i \in 1 .. n : g = nodes[i].group
      BY <1>1 DEF GroupsIn
    <3>2. g = new[at[i]].group /\ at[i] \in DOMAIN new
      BY <1>1, <1>7, <3>1
    <3>3. QED
      BY <3>2 DEF GroupsIn
  <2>3. \A g \in GroupsIn(branch) : g \in GroupsIn(new)
    <3> TAKE g \in GroupsIn(branch)
    <3>1. PICK i \in 1 .. b : g = branch[i].group
      BY <1>2 DEF GroupsIn
    <3>2. g = new[place - 1 + i].group /\ place - 1 + i \in DOMAIN new
      BY <1>1, <1>3, <3>1
    <3>3. QED
      BY <3>2 DEF GroupsIn
  <2>4. QED
    BY <2>1, <2>2, <2>3
<1>10. ASSUME PlacedOnce(nodes), PlacedOnce(branch), SystemsIn(nodes) \cap SystemsIn(branch) = {}
       PROVE  PlacedOnce(new)
  <2>1. ASSUME NEW x \in 1 .. n + b PROVE NodeOnce(new[x])
    <3>1. CASE \E i \in 1 .. n : x = at[i]
      BY <1>1, <1>10, <3>1 DEF PlacedOnce
    <3>2. CASE \E i \in 1 .. b : x = place - 1 + i
      BY <1>2, <1>3, <1>10, <3>2 DEF PlacedOnce, NodeOnce
    <3>3. QED
      BY <1>5, <3>1, <3>2
  <2>2. ASSUME NEW i \in 1 .. n, NEW j \in 1 .. b
        PROVE  SystemsAt(nodes[i]) \cap SystemsAt(branch[j]) = {}
    <3>1. SystemsAt(nodes[i]) \subseteq SystemsIn(nodes)
      BY <1>1 DEF SystemsIn
    <3>2. SystemsAt(branch[j]) \subseteq SystemsIn(branch)
      BY <1>2 DEF SystemsIn
    <3>3. QED
      BY <1>10, <3>1, <3>2
  <2>3. ASSUME NEW x \in 1 .. n + b, NEW y \in 1 .. n + b, x # y
        PROVE  SystemsAt(new[x]) \cap SystemsAt(new[y]) = {}
    <3>1. ASSUME NEW i \in 1 .. n, x = at[i]
          PROVE  SystemsAt(new[x]) \cap SystemsAt(new[y]) = {}
      <4>1. ASSUME NEW j \in 1 .. n, y = at[j]
            PROVE  SystemsAt(new[x]) \cap SystemsAt(new[y]) = {}
        <5>1. i # j
          BY <2>3, <3>1, <4>1
        <5>2. SystemsAt(nodes[i]) \cap SystemsAt(nodes[j]) = {}
          BY <1>1, <1>10, <5>1 DEF PlacedOnce
        <5>3. new[x] = nodes[i] /\ new[y] = nodes[j]
          BY <1>1, <3>1, <4>1
        <5>4. QED
          BY <5>2, <5>3
      <4>2. ASSUME NEW j \in 1 .. b, y = place - 1 + j
            PROVE  SystemsAt(new[x]) \cap SystemsAt(new[y]) = {}
        BY <1>1, <1>6, <2>2, <3>1, <4>2
      <4>3. QED
        BY <1>5, <4>1, <4>2
    <3>2. ASSUME NEW i \in 1 .. b, x = place - 1 + i
          PROVE  SystemsAt(new[x]) \cap SystemsAt(new[y]) = {}
      <4>1. ASSUME NEW j \in 1 .. n, y = at[j]
            PROVE  SystemsAt(new[x]) \cap SystemsAt(new[y]) = {}
        BY <1>1, <1>6, <2>2, <3>2, <4>1
      <4>2. ASSUME NEW j \in 1 .. b, y = place - 1 + j
            PROVE  SystemsAt(new[x]) \cap SystemsAt(new[y]) = {}
        <5>1. i # j
          BY <2>3, <3>2, <4>2
        <5>2. SystemsAt(branch[i]) \cap SystemsAt(branch[j]) = {}
          BY <1>2, <1>10, <5>1 DEF PlacedOnce
        <5>3. QED
          BY <1>6, <3>2, <4>2, <5>2
      <4>3. QED
        BY <1>5, <4>1, <4>2
    <3>3. QED
      BY <1>5, <3>1, <3>2
  <2>4. QED
    BY <1>1, <2>1, <2>3 DEF PlacedOnce
<1>11. ASSUME Named(nodes), Named(branch), GroupsIn(nodes) \cap GroupsIn(branch) = {}
       PROVE  Named(new)
  <2>1. \A i \in 1 .. n, j \in 1 .. b : nodes[i].group # branch[j].group
    <3> TAKE i \in 1 .. n, j \in 1 .. b
    <3>1. nodes[i].group \in GroupsIn(nodes)
      BY <1>1 DEF GroupsIn
    <3>2. branch[j].group \in GroupsIn(branch)
      BY <1>2 DEF GroupsIn
    <3>3. QED
      BY <1>11, <3>1, <3>2
  <2>2. ASSUME NEW x \in 1 .. n + b, NEW y \in 1 .. n + b, new[x].group = new[y].group
        PROVE  x = y
    <3>1. ASSUME NEW i \in 1 .. n, x = at[i] PROVE x = y
      <4>1. ASSUME NEW j \in 1 .. n, y = at[j] PROVE x = y
        <5>1. new[x] = nodes[i] /\ new[y] = nodes[j]
          BY <1>1, <3>1, <4>1
        <5>2. i = j
          BY <1>1, <1>11, <2>2, <5>1 DEF Named
        <5>3. QED
          BY <3>1, <4>1, <5>2
      <4>2. ASSUME NEW j \in 1 .. b, y = place - 1 + j PROVE x = y
        <5>1. new[x] = nodes[i] /\ new[y].group = branch[j].group
          BY <1>1, <1>3, <3>1, <4>2
        <5>2. QED
          BY <2>1, <2>2, <5>1
      <4>3. QED
        BY <1>5, <4>1, <4>2
    <3>2. ASSUME NEW i \in 1 .. b, x = place - 1 + i PROVE x = y
      <4>1. ASSUME NEW j \in 1 .. n, y = at[j] PROVE x = y
        <5>1. new[x].group = branch[i].group /\ new[y] = nodes[j]
          BY <1>1, <1>3, <3>2, <4>1
        <5>2. QED
          BY <2>1, <2>2, <5>1
      <4>2. ASSUME NEW j \in 1 .. b, y = place - 1 + j PROVE x = y
        <5>1. branch[i].group = branch[j].group
          BY <1>3, <2>2, <3>2, <4>2
        <5>2. i = j
          BY <1>2, <1>11, <5>1 DEF Named
        <5>3. QED
          BY <3>2, <4>2, <5>2
      <4>3. QED
        BY <1>5, <4>1, <4>2
    <3>3. QED
      BY <1>5, <3>1, <3>2
  <2>3. QED
    BY <1>1, <2>2 DEF Named
<1>12. QED
  BY <1>8, <1>9, <1>10, <1>11

LEMMA ConcatIs ==
    ASSUME NEW E, NEW q \in Seq(E), NEW r \in Seq(E)
    PROVE  /\ q \o r \in Seq(E) /\ Len(q \o r) = Len(q) + Len(r)
           /\ \A k \in 1 .. Len(q) : (q \o r)[k] = q[k]
           /\ \A k \in 1 .. Len(r) : (q \o r)[Len(q) + k] = r[k]
OBVIOUS

\* Where a branch goes in, and how deep.
Deeper(nodes, i, inside) == IF inside THEN nodes[i].depth + 1 ELSE 1

Fits(nodes, i, g, before, inside, place, deeper) ==
    /\ Len(nodes) \in Nat /\ i \in 1 .. Len(nodes)
    /\ nodes[i].group = g /\ nodes[i].depth \in Nat
    /\ place \in 2 .. Len(nodes) + 1
    /\ deeper \in 1 .. nodes[place - 1].depth + 1
    /\ place <= Len(nodes) => nodes[place].depth <= deeper
    /\ inside => /\ i < place /\ deeper = nodes[i].depth + 1
                 /\ \A m \in i + 1 .. place - 1 : nodes[m].depth > nodes[i].depth
    /\ ~inside => deeper = 1 /\ nodes[i].depth = 1
    /\ ~inside /\ before => place = i
    /\ ~inside /\ ~before => i < place

LEMMA PlaceIs ==
    ASSUME NEW nodes, IsTree(nodes), NEW g, NEW before \in BOOLEAN, NEW inside \in BOOLEAN,
           NEW i \in Targets(nodes, g, inside)
    PROVE  Fits(nodes, i, g, before, inside,
                Place(nodes, i, before, inside), Deeper(nodes, i, inside))
<1> DEFINE n == Len(nodes)
           l == LastBelow(nodes, i)
           d == nodes[i].depth
           place == Place(nodes, i, before, inside)
           deeper == Deeper(nodes, i, inside)
<1>1. n \in Nat /\ DOMAIN nodes = 1 .. n /\ \A m \in 1 .. n : nodes[m].depth \in Nat
  BY NodeParts
<1>2. i \in 1 .. n /\ nodes[i].group = g /\ (inside \/ d = 1)
  BY <1>1 DEF Targets, IsTarget
<1>3. /\ l \in i .. n /\ \A m \in i + 1 .. l : nodes[m].depth > d
      /\ l < n => nodes[l + 1].depth <= d
  BY <1>2, LastBelowIs
<1>4. nodes[1].depth = 0 /\ \A m \in 2 .. n : nodes[m].depth \in 1 .. nodes[m - 1].depth + 1
  BY DEF IsTree
<1>5. d \in Nat
  BY <1>1, <1>2
<1>6. deeper = IF inside THEN d + 1 ELSE 1
  BY DEF Deeper
<1>7. /\ inside /\ before => place = i + 1
      /\ ~inside /\ before => place = i
      /\ ~before => place = l + 1
  BY DEF Place
<1> HIDE DEF n, l, place, deeper
<1>8. /\ place \in 2 .. n + 1
      /\ deeper \in 1 .. nodes[place - 1].depth + 1
      /\ place <= n => nodes[place].depth <= deeper
      /\ inside => i < place /\ \A m \in i + 1 .. place - 1 : nodes[m].depth > d
      /\ ~inside /\ ~before => i < place
  <2>1. CASE inside /\ before
    <3>1. place = i + 1 /\ place - 1 = i /\ deeper = d + 1 /\ place \in 2 .. n + 1
      BY <1>1, <1>2, <1>6, <1>7, <2>1
    <3>2. place <= n => nodes[place].depth \in 1 .. d + 1
      BY <1>1, <1>4, <3>1
    <3>3. nodes[place - 1].depth = d
      BY <3>1
    <3> HIDE DEF d
    <3>4. QED
      BY <1>2, <1>5, <2>1, <3>1, <3>2, <3>3
  <2>2. CASE ~inside /\ before
    <3>1. d = 1 /\ i # 1
      BY <1>2, <1>4, <2>2
    <3>2. place = i /\ deeper = 1 /\ place - 1 \in 1 .. n /\ place \in 2 .. n + 1
      BY <1>1, <1>2, <1>6, <1>7, <2>2, <3>1
    <3>3. nodes[place - 1].depth \in Nat /\ nodes[place].depth = 1
      BY <1>1, <3>1, <3>2
    <3> HIDE DEF d
    <3>4. QED
      BY <2>2, <3>2, <3>3
  <2>3. CASE ~before
    <3>1. place = l + 1 /\ place - 1 = l /\ l \in 1 .. n /\ place \in 2 .. n + 1 /\ i < place
      BY <1>1, <1>2, <1>3, <1>7, <2>3
    <3>2. nodes[l].depth \in Nat /\ nodes[l].depth >= d
      <4>1. CASE l = i
        BY <1>5, <4>1
      <4>2. CASE l # i
        <5>1. l \in i + 1 .. l
          BY <1>2, <1>3, <4>2
        <5>2. nodes[l].depth > d /\ nodes[l].depth \in Nat
          BY <1>1, <1>3, <3>1, <5>1
        <5> HIDE DEF d
        <5>3. QED
          BY <1>5, <5>2
      <4>3. QED
        BY <4>1, <4>2
    <3>3. place <= n => nodes[place].depth <= d /\ nodes[place].depth \in Nat
      BY <1>1, <1>3, <3>1
    <3>4. nodes[place - 1] = nodes[l]
      BY <3>1
    <3>5. deeper \in 1 .. nodes[l].depth + 1 /\ (place <= n => nodes[place].depth <= deeper)
      <4> DEFINE e == nodes[l].depth
                 f == nodes[place].depth
      <4>1. e \in Nat /\ e >= d /\ (place <= n => f <= d /\ f \in Nat)
        BY <3>2, <3>3
      <4> HIDE DEF d, e, f
      <4>2. deeper \in 1 .. e + 1 /\ (place <= n => f <= deeper)
        <5>1. CASE inside
          BY <1>5, <1>6, <4>1, <5>1
        <5>2. CASE ~inside
          <6>1. d = 1
            BY <1>2, <5>2 DEF d
          <6>2. QED
            BY <1>5, <1>6, <4>1, <5>2, <6>1
        <5>3. QED
          BY <5>1, <5>2
      <4>3. QED
        BY <4>2 DEF e, f
    <3>6. \A m \in i + 1 .. place - 1 : nodes[m].depth > d
      BY <1>3, <3>1
    <3>7. QED
      BY <3>1, <3>4, <3>5, <3>6
  <2>4. QED
    BY <2>1, <2>2, <2>3
<1>9. QED
  BY <1>1, <1>2, <1>5, <1>6, <1>7, <1>8 DEF Fits, n, place, deeper

\* The groups inserted are a branch more.
LEMMA GraftedIs ==
    ASSUME NEW nodes, IsTree(nodes), NEW branch, IsTree(branch),
           NEW g, NEW before \in BOOLEAN, NEW inside \in BOOLEAN,
           NEW i \in Targets(nodes, g, inside)
    PROVE  Graft(nodes, branch, Grafted(nodes, branch, i, before, inside),
                 Place(nodes, i, before, inside), Deeper(nodes, i, inside))
<1> DEFINE n == Len(nodes)
           b == Len(branch)
           place == Place(nodes, i, before, inside)
           deeper == Deeper(nodes, i, inside)
           lowered == [k \in DOMAIN branch |-> [branch[k] EXCEPT !.depth = @ + deeper]]
           new == Grafted(nodes, branch, i, before, inside)
<1>1. /\ n \in Nat /\ place \in 2 .. n + 1
      /\ deeper \in 1 .. nodes[place - 1].depth + 1
      /\ place <= n => nodes[place].depth <= deeper
  BY PlaceIs DEF Fits
<1>2. b \in Nat /\ DOMAIN branch = 1 .. b /\ nodes \in Seq(Nodes)
      /\ \A k \in 1 .. b : branch[k] \in Nodes /\ branch[k].depth \in Nat
  BY NodeParts
<1>3. deeper \in Nat
  <2>1. place - 1 \in 1 .. n
    BY <1>1
  <2>2. nodes[place - 1].depth \in Nat
    BY <2>1, NodeParts
  <2> DEFINE e == nodes[place - 1].depth
  <2>3. e \in Nat /\ deeper \in 1 .. e + 1
    BY <1>1, <2>2
  <2> HIDE DEF e, deeper
  <2>4. QED
    BY <2>3
<1>4. new = SubSeq(nodes, 1, place - 1) \o lowered \o SubSeq(nodes, place, n)
  BY DEF Grafted, Deeper
<1> HIDE DEF deeper, place, new
<1>5. \A k \in 1 .. b : /\ lowered[k] \in Nodes
                        /\ lowered[k].group = branch[k].group
                        /\ lowered[k].starts = branch[k].starts
                        /\ lowered[k].ends = branch[k].ends
                        /\ lowered[k].depth = branch[k].depth + deeper
  <2> TAKE k \in 1 .. b
  <2>1. lowered[k] = [branch[k] EXCEPT !.depth = @ + deeper]
    BY <1>2
  <2>2. branch[k] \in Nodes /\ branch[k].depth + deeper \in Nat
    BY <1>2, <1>3
  <2>3. QED
    BY <2>1, <2>2 DEF Nodes
<1>6. lowered \in Seq(Nodes) /\ Len(lowered) = b
  <2>1. lowered \in [1 .. b -> Nodes]
    BY <1>2, <1>5
  <2> HIDE DEF lowered
  <2>2. QED
    BY <1>2, <2>1
<1> HIDE DEF lowered, n, b
<1> DEFINE first == SubSeq(nodes, 1, place - 1)
           last == SubSeq(nodes, place, n)
<1>7. /\ first \in Seq(Nodes) /\ Len(first) = place - 1
      /\ \A k \in 1 .. place - 1 : first[k] = nodes[k]
  BY <1>1, <1>2 DEF n
<1>8. /\ last \in Seq(Nodes) /\ Len(last) = n - place + 1
      /\ \A k \in 1 .. n - place + 1 : last[k] = nodes[place + k - 1]
  BY <1>1, <1>2 DEF n
<1> HIDE DEF first, last
<1> DEFINE front == first \o lowered
<1>9. /\ front \in Seq(Nodes) /\ Len(front) = place - 1 + b
      /\ \A k \in 1 .. place - 1 : front[k] = nodes[k]
      /\ \A k \in 1 .. b : front[place - 1 + k] = lowered[k]
  <2>0. first \in Seq(Nodes) /\ lowered \in Seq(Nodes)
    BY <1>6, <1>7
  <2>1. /\ front \in Seq(Nodes) /\ Len(front) = Len(first) + Len(lowered)
        /\ \A k \in 1 .. Len(first) : front[k] = first[k]
        /\ \A k \in 1 .. Len(lowered) : front[Len(first) + k] = lowered[k]
    BY <2>0, ConcatIs
  <2> HIDE DEF front
  <2>2. QED
    BY <1>6, <1>7, <2>1
<1> HIDE DEF front
<1>10. new = front \o last
  BY <1>4 DEF front, first, last
<1>11. /\ new \in Seq(Nodes) /\ Len(new) = n + b
       /\ \A k \in 1 .. place - 1 + b : new[k] = front[k]
       /\ \A k \in 1 .. n - place + 1 : new[place - 1 + b + k] = last[k]
  <2>0. front \in Seq(Nodes) /\ last \in Seq(Nodes)
    BY <1>8, <1>9
  <2>1. /\ new \in Seq(Nodes) /\ Len(new) = Len(front) + Len(last)
        /\ \A k \in 1 .. Len(front) : new[k] = front[k]
        /\ \A k \in 1 .. Len(last) : new[Len(front) + k] = last[k]
    BY <2>0, <1>10, ConcatIs
  <2>2. QED
    BY <1>1, <1>2, <1>8, <1>9, <2>1
<1>12. \A k \in 1 .. place - 1 : new[k] = nodes[k]
  BY <1>1, <1>2, <1>9, <1>11
<1>13. \A k \in 1 .. b : new[place - 1 + k] = lowered[k]
  <2> TAKE k \in 1 .. b
  <2>1. place - 1 + k \in 1 .. place - 1 + b
    BY <1>1, <1>2
  <2>2. QED
    BY <1>9, <1>11, <2>1
<1>14. \A k \in place .. n : new[k + b] = nodes[k]
  <2> TAKE k \in place .. n
  <2>1. /\ k - place + 1 \in 1 .. n - place + 1
        /\ place - 1 + b + (k - place + 1) = k + b /\ place + (k - place + 1) - 1 = k
    BY <1>1, <1>2
  <2>2. QED
    BY <1>8, <1>11, <2>1
<1>15. QED
  BY <1>1, <1>5, <1>11, <1>12, <1>13, <1>14 DEF Graft, n, b, place, deeper, new

\* A group inserted stands where it was asked to.
LEMMA GraftStands ==
    ASSUME NEW nodes, IsTree(nodes), NEW branch, IsTree(branch),
           NEW t, NEW g, NEW before \in BOOLEAN, NEW inside \in BOOLEAN,
           NEW i \in Targets(nodes, g, inside)
    PROVE  \E j, k \in DOMAIN Grafted(nodes, branch, i, before, inside) :
               Stands([tree |-> t, new |-> branch[1].group, target |-> g,
                       before |-> before, inside |-> inside],
                      Grafted(nodes, branch, i, before, inside), j, k)
<1> DEFINE n == Len(nodes)
           b == Len(branch)
           place == Place(nodes, i, before, inside)
           deeper == Deeper(nodes, i, inside)
           new == Grafted(nodes, branch, i, before, inside)
           at == Moved(nodes, place, b)
           d == nodes[i].depth
           a == [tree |-> t, new |-> branch[1].group, target |-> g,
                 before |-> before, inside |-> inside]
<1>1. /\ n \in Nat /\ i \in 1 .. n /\ nodes[i].group = g /\ d \in Nat
      /\ place \in 2 .. n + 1
      /\ inside => /\ i < place /\ deeper = d + 1
                     /\ \A m \in i + 1 .. place - 1 : nodes[m].depth > d
      /\ ~inside => deeper = 1 /\ d = 1
      /\ ~inside /\ before => place = i
      /\ ~inside /\ ~before => i < place
  <2>1. Fits(nodes, i, g, before, inside, place, deeper)
    BY PlaceIs
  <2> HIDE DEF place, deeper
  <2>2. QED
    BY <2>1 DEF Fits
<1>2. Graft(nodes, branch, new, place, deeper)
  BY GraftedIs
<1>3. /\ b \in Nat /\ b >= 1 /\ DOMAIN new = 1 .. n + b
      /\ at \in [DOMAIN nodes -> DOMAIN new] /\ DOMAIN nodes = 1 .. n
      /\ i < place => at[i] = i
      /\ place <= i => at[i] = i + b
      /\ new[at[i]] = nodes[i]
  BY <1>1, <1>2, MovedIs
<1>4. branch[1].depth = 0
  BY DEF IsTree
<1>5. place \in 1 .. n + b
  BY <1>1, <1>3
<1>6. /\ new[place].group = branch[1].group /\ new[place].depth = deeper
      /\ \A m \in 1 .. place - 1 : new[m] = nodes[m]
  <2>1. 1 \in 1 .. b /\ place - 1 + 1 = place
    BY <1>1, <1>3
  <2>2. new[place].group = branch[1].group /\ new[place].depth = 0 + deeper
    BY <1>2, <1>4, <2>1 DEF Graft
  <2>3. deeper \in Nat
    BY <1>1
  <2>4. QED
    BY <1>2, <2>2, <2>3 DEF Graft
<1> HIDE DEF n, b, place, deeper, new, at
<1>7. at[i] \in DOMAIN new /\ new[at[i]].group = g /\ new[at[i]].depth = d
  BY <1>1, <1>3
<1>8. inside => at[i] < place /\ Under(new, at[i], place)
  <2> SUFFICES ASSUME inside PROVE at[i] < place /\ Under(new, at[i], place)
    OBVIOUS
  <2>1. at[i] = i /\ i < place /\ deeper = d + 1
    BY <1>1, <1>3
  <2>2. ASSUME NEW m \in i + 1 .. place PROVE new[m].depth > new[i].depth
    <3>1. new[i].depth = d
      BY <1>7, <2>1
    <3>2. CASE m = place
      <4>1. new[m].depth = d + 1
        BY <1>6, <2>1, <3>2
      <4> HIDE DEF d
      <4>2. QED
        BY <1>1, <3>1, <4>1
    <3>3. CASE m # place
      <4>1. m \in i + 1 .. place - 1 /\ m \in 1 .. place - 1
        BY <1>1, <3>3
      <4>2. new[m] = nodes[m] /\ nodes[m].depth > d
        BY <1>1, <1>6, <4>1
      <4>3. QED
        BY <3>1, <4>2
    <3>4. QED
      BY <3>2, <3>3
  <2>3. QED
    BY <1>1, <2>1, <2>2 DEF Under
<1>9. ~inside /\ before => place < at[i] /\ ~Under(new, place, at[i])
  <2> SUFFICES ASSUME ~inside, before PROVE place < at[i] /\ ~Under(new, place, at[i])
    OBVIOUS
  <2>1. place = i /\ at[i] = i + b /\ deeper = 1 /\ d = 1
    BY <1>1, <1>3
  <2>2. at[i] \in place + 1 .. at[i] /\ new[at[i]].depth = 1 /\ new[place].depth = 1
    BY <1>1, <1>3, <1>6, <1>7, <2>1
  <2>3. ~(new[at[i]].depth > new[place].depth)
    BY <2>2
  <2>4. ~Under(new, place, at[i])
    BY <2>2, <2>3 DEF Under
  <2>5. place < at[i]
    BY <1>1, <1>3, <2>1
  <2>6. QED
    BY <2>4, <2>5
<1>10. ~inside /\ ~before => at[i] < place /\ ~Under(new, at[i], place)
  <2> SUFFICES ASSUME ~inside, ~before PROVE at[i] < place /\ ~Under(new, at[i], place)
    OBVIOUS
  <2>1. i < place /\ at[i] = i /\ deeper = 1 /\ d = 1
    BY <1>1, <1>3
  <2>2. place \in i + 1 .. place /\ new[at[i]].depth = 1 /\ new[place].depth = 1
    BY <1>1, <1>6, <1>7, <2>1
  <2>3. ~(new[place].depth > new[at[i]].depth)
    BY <2>2
  <2>4. QED
    BY <2>1, <2>2, <2>3 DEF Under
<1>11. Stands(a, new, at[i], place)
  BY <1>6, <1>7, <1>8, <1>9, <1>10 DEF Stands
<1>12. QED
  BY <1>3, <1>5, <1>7, <1>11 DEF new

-----------------------------------------------------------------------------
(* What a registration gives a tree: systems and groups it did not have, and *)
(* nothing else moves.                                                       *)

Gains(nodes, new, systems, groups) ==
    /\ IsTree(new) /\ PlacedOnce(new) /\ Named(new)
    /\ \E at : Grown(nodes, new, at)
    /\ SystemsIn(new) = SystemsIn(nodes) \cup systems
    /\ GroupsIn(new) = GroupsIn(nodes) \cup groups

LEMMA GraftGains ==
    ASSUME NEW nodes, IsTree(nodes), PlacedOnce(nodes), Named(nodes),
           NEW branch, IsTree(branch), PlacedOnce(branch), Named(branch),
           SystemsIn(nodes) \cap SystemsIn(branch) = {},
           GroupsIn(nodes) \cap GroupsIn(branch) = {},
           NEW g, NEW before \in BOOLEAN, NEW inside \in BOOLEAN,
           NEW i \in Targets(nodes, g, inside)
    PROVE  Gains(nodes, Grafted(nodes, branch, i, before, inside),
                 SystemsIn(branch), GroupsIn(branch))
<1> DEFINE new == Grafted(nodes, branch, i, before, inside)
<1>1. PICK place, deeper : Graft(nodes, branch, new, place, deeper)
  BY GraftedIs
<1> HIDE DEF new
<1>2. IsTree(new)
  BY <1>1, GraftIsTree
<1>3. \E at : Grown(nodes, new, at)
  BY <1>1, GraftGrown
<1>4. /\ SystemsIn(new) = SystemsIn(nodes) \cup SystemsIn(branch)
      /\ GroupsIn(new) = GroupsIn(nodes) \cup GroupsIn(branch)
      /\ PlacedOnce(new) /\ Named(new)
  BY <1>1, GraftHolds
<1>5. Gains(nodes, new, SystemsIn(branch), GroupsIn(branch))
  BY <1>2, <1>3, <1>4 DEF Gains
<1>6. QED
  BY <1>5 DEF new

LEMMA AppendHolds ==
    ASSUME NEW E, NEW q \in Seq(E), NEW s \in E
    PROVE  /\ Append(q, s) \in Seq(E)
           /\ Range(Append(q, s)) = Range(q) \cup {s}
           /\ IsInjective(q) /\ s \notin Range(q) => IsInjective(Append(q, s))
<1> DEFINE r == Append(q, s)
<1>1. /\ Len(q) \in Nat /\ r \in Seq(E) /\ DOMAIN q = 1 .. Len(q) /\ DOMAIN r = 1 .. Len(q) + 1
      /\ \A k \in 1 .. Len(q) : r[k] = q[k]
      /\ r[Len(q) + 1] = s
  OBVIOUS
<1> HIDE DEF r
<1>2. \A k \in 1 .. Len(q) + 1 : k \in 1 .. Len(q) \/ k = Len(q) + 1
  BY <1>1
<1>3. 1 .. Len(q) \subseteq 1 .. Len(q) + 1 /\ Len(q) + 1 \in 1 .. Len(q) + 1
  BY <1>1
<1>4. Range(r) = Range(q) \cup {s}
  <2>1. ASSUME NEW x \in Range(r) PROVE x \in Range(q) \cup {s}
    <3>1. PICK k \in 1 .. Len(q) + 1 : r[k] = x
      BY <1>1 DEF Range
    <3>2. QED
      BY <1>1, <1>2, <3>1 DEF Range
  <2>2. ASSUME NEW x \in Range(q) PROVE x \in Range(r)
    <3>1. PICK k \in 1 .. Len(q) : q[k] = x
      BY <1>1 DEF Range
    <3>2. k \in DOMAIN r /\ r[k] = x
      BY <1>1, <1>3, <3>1
    <3>3. QED
      BY <3>2 DEF Range
  <2>3. s \in Range(r)
    BY <1>1, <1>3 DEF Range
  <2>4. QED
    BY <2>1, <2>2, <2>3
<1>5. ASSUME IsInjective(q), s \notin Range(q) PROVE IsInjective(r)
  <2>1. \A k \in 1 .. Len(q) : q[k] # s
    BY <1>1, <1>5 DEF Range
  <2>2. ASSUME NEW j \in 1 .. Len(q) + 1, NEW k \in 1 .. Len(q) + 1, r[j] = r[k] PROVE j = k
    <3>1. CASE j \in 1 .. Len(q) /\ k \in 1 .. Len(q)
      BY <1>1, <1>5, <2>2, <3>1 DEF IsInjective
    <3>2. CASE j = Len(q) + 1 /\ k \in 1 .. Len(q)
      BY <1>1, <2>1, <2>2, <3>2
    <3>3. CASE k = Len(q) + 1 /\ j \in 1 .. Len(q)
      BY <1>1, <2>1, <2>2, <3>3
    <3>4. QED
      BY <1>2, <3>1, <3>2, <3>3
  <2>3. QED
    BY <1>1, <2>2 DEF IsInjective
<1>6. QED
  BY <1>1, <1>4, <1>5 DEF r

\* The group that gets a system has it, and no other does.
LEMMA WithSystemIs ==
    ASSUME NEW nodes, IsTree(nodes), NEW i \in DOMAIN nodes, NEW s \in AllSystems,
           NEW atStart \in BOOLEAN
    PROVE  LET new == WithSystem(nodes, i, s, atStart) IN
           /\ new \in Seq(Nodes) /\ DOMAIN new = DOMAIN nodes /\ Len(new) = Len(nodes)
           /\ \A m \in DOMAIN nodes : /\ new[m].group = nodes[m].group
                                      /\ new[m].depth = nodes[m].depth
                                      /\ m # i => new[m] = nodes[m]
           /\ SystemsAt(new[i]) = SystemsAt(nodes[i]) \cup {s}
           /\ NodeOnce(nodes[i]) /\ s \notin SystemsAt(nodes[i]) => NodeOnce(new[i])
<1> DEFINE new == WithSystem(nodes, i, s, atStart)
           first == nodes[i].starts
           last == nodes[i].ends
<1>1. /\ Len(nodes) \in Nat /\ DOMAIN nodes = 1 .. Len(nodes) /\ nodes \in Seq(Nodes)
      /\ nodes[i] \in Nodes /\ first \in Seq(AllSystems) /\ last \in Seq(AllSystems)
  BY NodeParts
<1>2. /\ Append(first, s) \in Seq(AllSystems) /\ Append(last, s) \in Seq(AllSystems)
      /\ Range(Append(first, s)) = Range(first) \cup {s}
      /\ Range(Append(last, s)) = Range(last) \cup {s}
      /\ IsInjective(first) /\ s \notin Range(first) => IsInjective(Append(first, s))
      /\ IsInjective(last) /\ s \notin Range(last) => IsInjective(Append(last, s))
  <2> HIDE DEF first, last
  <2>1. QED
    BY <1>1, AppendHolds
<1>3. new = IF atStart THEN [nodes EXCEPT ![i].starts = Append(first, s)]
            ELSE [nodes EXCEPT ![i].ends = Append(last, s)]
  BY DEF WithSystem
<1> HIDE DEF new
<1>4. DOMAIN new = DOMAIN nodes /\ \A m \in DOMAIN nodes : m # i => new[m] = nodes[m]
  BY <1>3
<1>5. new[i] = IF atStart THEN [nodes[i] EXCEPT !.starts = Append(first, s)]
               ELSE [nodes[i] EXCEPT !.ends = Append(last, s)]
  BY <1>3
<1>6. /\ new[i] \in Nodes /\ new[i].group = nodes[i].group /\ new[i].depth = nodes[i].depth
      /\ new[i].starts = (IF atStart THEN Append(first, s) ELSE first)
      /\ new[i].ends = (IF atStart THEN last ELSE Append(last, s))
  <2> HIDE DEF first, last
  <2>1. nodes[i].starts = first /\ nodes[i].ends = last
    BY DEF first, last
  <2>2. CASE atStart
    BY <1>1, <1>2, <1>5, <2>1, <2>2 DEF Nodes
  <2>3. CASE ~atStart
    BY <1>1, <1>2, <1>5, <2>1, <2>3 DEF Nodes
  <2>4. QED
    BY <2>2, <2>3
<1>7. new \in Seq(Nodes) /\ Len(new) = Len(nodes)
  <2>1. \A m \in 1 .. Len(nodes) : new[m] \in Nodes
    BY <1>1, <1>4, <1>6
  <2>2. new = [m \in 1 .. Len(nodes) |-> new[m]]
    <3>1. CASE atStart
      BY <1>1, <1>3, <3>1
    <3>2. CASE ~atStart
      BY <1>1, <1>3, <3>2
    <3>3. QED
      BY <3>1, <3>2
  <2>3. new \in [1 .. Len(nodes) -> Nodes]
    BY <2>1, <2>2
  <2>4. QED
    BY <1>1, <2>3
<1>8. \A m \in DOMAIN nodes : /\ new[m].group = nodes[m].group
                              /\ new[m].depth = nodes[m].depth
  BY <1>4, <1>6
<1> HIDE DEF first, last
<1>9. SystemsAt(nodes[i]) = Range(first) \cup Range(last)
  BY DEF SystemsAt, first, last
<1>10. /\ SystemsAt(new[i]) = SystemsAt(nodes[i]) \cup {s}
       /\ NodeOnce(nodes[i]) /\ s \notin SystemsAt(nodes[i]) => NodeOnce(new[i])
  <2>1. NodeOnce(nodes[i]) <=> /\ IsInjective(first) /\ IsInjective(last)
                               /\ Range(first) \cap Range(last) = {}
    BY DEF NodeOnce, first, last
  <2>2. CASE atStart
    <3>1. new[i].starts = Append(first, s) /\ new[i].ends = last
      BY <1>6, <2>2
    <3>2. SystemsAt(new[i]) = Range(first) \cup {s} \cup Range(last)
      BY <1>2, <3>1 DEF SystemsAt
    <3>3. NodeOnce(new[i]) <=> /\ IsInjective(Append(first, s)) /\ IsInjective(last)
                               /\ (Range(first) \cup {s}) \cap Range(last) = {}
      BY <1>2, <3>1 DEF NodeOnce
    <3>4. QED
      BY <1>2, <1>9, <2>1, <3>2, <3>3
  <2>3. CASE ~atStart
    <3>1. new[i].starts = first /\ new[i].ends = Append(last, s)
      BY <1>6, <2>3
    <3>2. SystemsAt(new[i]) = Range(first) \cup (Range(last) \cup {s})
      BY <1>2, <3>1 DEF SystemsAt
    <3>3. NodeOnce(new[i]) <=> /\ IsInjective(first) /\ IsInjective(Append(last, s))
                               /\ Range(first) \cap (Range(last) \cup {s}) = {}
      BY <1>2, <3>1 DEF NodeOnce
    <3>4. QED
      BY <1>2, <1>9, <2>1, <3>2, <3>3
  <2>4. QED
    BY <2>2, <2>3
<1>11. QED
  BY <1>4, <1>7, <1>8, <1>10 DEF new

LEMMA SystemGains ==
    ASSUME NEW nodes, IsTree(nodes), PlacedOnce(nodes), Named(nodes),
           NEW s \in AllSystems, s \notin SystemsIn(nodes),
           NEW i \in DOMAIN nodes, NEW atStart \in BOOLEAN
    PROVE  Gains(nodes, WithSystem(nodes, i, s, atStart), {s}, {})
<1> DEFINE new == WithSystem(nodes, i, s, atStart)
           at == [m \in DOMAIN nodes |-> m]
<1>1. /\ new \in Seq(Nodes) /\ DOMAIN new = DOMAIN nodes /\ Len(new) = Len(nodes)
      /\ \A m \in DOMAIN nodes : /\ new[m].group = nodes[m].group
                                 /\ new[m].depth = nodes[m].depth
                                 /\ m # i => new[m] = nodes[m]
      /\ SystemsAt(new[i]) = SystemsAt(nodes[i]) \cup {s}
      /\ NodeOnce(nodes[i]) /\ s \notin SystemsAt(nodes[i]) => NodeOnce(new[i])
  BY WithSystemIs
<1> HIDE DEF new
<1>2. /\ Len(nodes) \in Nat /\ Len(nodes) >= 1 /\ DOMAIN nodes = 1 .. Len(nodes)
      /\ nodes[1].depth = 0
      /\ \A m \in 2 .. Len(nodes) : nodes[m].depth \in 1 .. nodes[m - 1].depth + 1
  BY NodeParts DEF IsTree
<1>3. IsTree(new)
  <2>1. \A m \in 2 .. Len(new) : new[m].depth \in 1 .. new[m - 1].depth + 1
    <3> TAKE m \in 2 .. Len(new)
    <3>1. m \in 2 .. Len(nodes) /\ m \in DOMAIN nodes /\ m - 1 \in DOMAIN nodes
      BY <1>1, <1>2
    <3>2. new[m].depth = nodes[m].depth /\ new[m - 1].depth = nodes[m - 1].depth
      BY <1>1, <3>1
    <3>3. QED
      BY <1>2, <3>1, <3>2
  <2>2. new # <<>> /\ new[1].depth = 0
    <3>1. 1 \in DOMAIN nodes /\ Len(new) # 0
      BY <1>1, <1>2
    <3>2. QED
      BY <1>1, <1>2, <3>1
  <2>3. QED
    BY <1>1, <2>1, <2>2 DEF IsTree
<1>4. \A j, k \in DOMAIN nodes : Under(nodes, j, k) <=> Under(new, j, k)
  <2> TAKE j, k \in DOMAIN nodes
  <2>1. \A m \in j + 1 .. k : m \in DOMAIN nodes
    BY <1>2
  <2>2. \A m \in j + 1 .. k : new[m].depth = nodes[m].depth
    BY <1>1, <2>1
  <2>3. new[j].depth = nodes[j].depth
    BY <1>1
  <2>4. QED
    BY <2>2, <2>3 DEF Under
<1>5. \A m \in DOMAIN nodes : SystemsAt(nodes[m]) \subseteq SystemsAt(new[m])
  BY <1>1
<1>6. Grown(nodes, new, at)
  <2>1. at \in [DOMAIN nodes -> DOMAIN new] /\ \A m \in DOMAIN nodes : at[m] = m
    BY <1>1
  <2> HIDE DEF at
  <2>2. QED
    BY <1>1, <1>4, <1>5, <2>1 DEF Grown
<1>7. SystemsIn(new) = SystemsIn(nodes) \cup {s}
  <2>1. ASSUME NEW x \in SystemsIn(new) PROVE x \in SystemsIn(nodes) \cup {s}
    <3>1. PICK m \in DOMAIN nodes : x \in SystemsAt(new[m])
      BY <1>1 DEF SystemsIn
    <3>2. x \in SystemsAt(nodes[m]) \/ x = s
      BY <1>1, <3>1
    <3>3. QED
      BY <3>2 DEF SystemsIn
  <2>2. ASSUME NEW x \in SystemsIn(nodes) PROVE x \in SystemsIn(new)
    <3>1. PICK m \in DOMAIN nodes : x \in SystemsAt(nodes[m])
      BY DEF SystemsIn
    <3>2. QED
      BY <1>1, <1>5, <3>1 DEF SystemsIn
  <2>3. s \in SystemsIn(new)
    BY <1>1 DEF SystemsIn
  <2>4. QED
    BY <2>1, <2>2, <2>3
<1>8. GroupsIn(new) = GroupsIn(nodes) \cup {}
  BY <1>1 DEF GroupsIn
<1>9. Named(new)
  BY <1>1 DEF Named
<1>10. PlacedOnce(new)
  <2>1. \A m \in DOMAIN nodes : s \notin SystemsAt(nodes[m])
    BY DEF SystemsIn
  <2>2. \A m \in DOMAIN nodes : NodeOnce(new[m])
    BY <1>1, <2>1 DEF PlacedOnce
  <2>3. ASSUME NEW j \in DOMAIN nodes, NEW k \in DOMAIN nodes, j # k
        PROVE  SystemsAt(new[j]) \cap SystemsAt(new[k]) = {}
    <3>1. SystemsAt(nodes[j]) \cap SystemsAt(nodes[k]) = {}
      BY <2>3 DEF PlacedOnce
    <3>2. CASE j = i
      BY <1>1, <2>1, <2>3, <3>1, <3>2
    <3>3. CASE k = i
      BY <1>1, <2>1, <2>3, <3>1, <3>3
    <3>4. CASE j # i /\ k # i
      BY <1>1, <3>1, <3>4
    <3>5. QED
      BY <3>2, <3>3, <3>4
  <2>4. QED
    BY <1>1, <2>2, <2>3 DEF PlacedOnce
<1>11. Gains(nodes, new, {s}, {})
  BY <1>3, <1>6, <1>7, <1>8, <1>9, <1>10 DEF Gains
<1>12. QED
  BY <1>11 DEF new

-----------------------------------------------------------------------------
(* The pools of a query.                                                     *)

One(s, p) == IF p \in Matches[s] THEN <<p>> ELSE <<>>

LEMMA OneIs == ASSUME NEW s, NEW p \in Pools PROVE One(s, p) \in Seq(Pools)
BY DEF One

LEMMA MatchingNothing == ASSUME NEW s PROVE Matching(s, <<>>) = <<>>
<1>1. [k \in DOMAIN <<>> |-> IF <<>>[k] \in Matches[s] THEN <<<<>>[k]>> ELSE <<>>] = <<>>
  OBVIOUS
<1>2. QED
  BY <1>1, FlattenNothing DEF Matching

LEMMA PartsAre ==
    ASSUME NEW s, NEW q \in Seq(Pools)
    PROVE  LET parts == [k \in DOMAIN q |-> IF q[k] \in Matches[s] THEN <<q[k]>> ELSE <<>>]
           IN parts \in Seq(Seq(Pools)) /\ Len(parts) = Len(q)
<1> DEFINE part(k) == One(s, q[k])
           parts == [k \in DOMAIN q |-> part(k)]
<1>1. Len(q) \in Nat /\ DOMAIN q = 1 .. Len(q)
  OBVIOUS
<1>2. \A k \in 1 .. Len(q) : part(k) \in Seq(Pools)
  BY OneIs
<1> DEFINE T == Seq(Pools)
<1>3. parts \in [1 .. Len(q) -> T]
  <2> HIDE DEF part
  <2>1. QED
    BY <1>1, <1>2
<1> HIDE DEF parts, T
<1>4. parts \in Seq(T) /\ Len(parts) = Len(q)
  BY <1>1, <1>3
<1>5. QED
  BY <1>4 DEF parts, part, One, T

LEMMA MatchingIs ==
    ASSUME NEW s, NEW q \in Seq(Pools)
    PROVE  Matching(s, q) \in Seq(Pools)
<1> DEFINE parts == [k \in DOMAIN q |-> IF q[k] \in Matches[s] THEN <<q[k]>> ELSE <<>>]
<1>2. parts \in Seq(Seq(Pools))
  BY PartsAre
<1> HIDE DEF parts
<1>3. FlattenSeq(parts) \in Seq(Pools)
  BY <1>2, FlattenHolds
<1>4. QED
  BY <1>3 DEF Matching, parts

LEMMA OneMore ==
    ASSUME NEW E, NEW q \in Seq(E)
    PROVE  FlattenSeq(<<q>>) = q
<1>1. <<>> \in Seq(Seq(E)) /\ Append(<<>>, q) = <<q>> /\ <<>> \o q = q
  OBVIOUS
<1>2. FlattenSeq(Append(<<>>, q)) = FlattenSeq(<<>>) \o q
  BY <1>1, FlattenAppend
<1>3. QED
  BY <1>1, <1>2, FlattenNothing

LEMMA MatchingAppend ==
    ASSUME NEW s, NEW q \in Seq(Pools), NEW p \in Pools
    PROVE  Matching(s, Append(q, p)) = Matching(s, q) \o Matching(s, <<p>>)
<1> DEFINE part(r) == [k \in DOMAIN r |-> IF r[k] \in Matches[s] THEN <<r[k]>> ELSE <<>>]
           more == Append(q, p)
           n == Len(q)
<1>1. /\ n \in Nat /\ DOMAIN q = 1 .. n /\ DOMAIN more = 1 .. n + 1
      /\ \A k \in 1 .. n : more[k] = q[k]
      /\ more[n + 1] = p
  OBVIOUS
<1>2. One(s, p) \in Seq(Pools)
  BY OneIs
<1>3. part(q) \in Seq(Seq(Pools)) /\ Len(part(q)) = n
  BY PartsAre
<1>4. part(more) = Append(part(q), One(s, p))
  <2> DEFINE u == part(more)
             v == part(q)
             w == Append(v, One(s, p))
  <2>1. u = [k \in 1 .. n + 1 |-> u[k]]
    BY <1>1
  <2>2. \A k \in 1 .. n + 1 : k \in 1 .. n \/ k = n + 1
    BY <1>1
  <2>3. n + 1 \in 1 .. n + 1 /\ \A k \in 1 .. n : k \in 1 .. n + 1
    BY <1>1
  <2>4. u[n + 1] = One(s, p) /\ \A k \in 1 .. n : u[k] = v[k]
    BY <1>1, <2>3 DEF One
  <2> HIDE DEF u, v, more
  <2>5. w = [k \in 1 .. n + 1 |-> w[k]] /\ w[n + 1] = One(s, p) /\ \A k \in 1 .. n : w[k] = v[k]
    BY <1>1, <1>2, <1>3 DEF v
  <2> HIDE DEF w
  <2>6. \A k \in 1 .. n + 1 : u[k] = w[k]
    BY <2>2, <2>4, <2>5
  <2>7. u = w
    BY <2>1, <2>5, <2>6
  <2>8. QED
    BY <2>7 DEF u, v, w, more
<1>5. FlattenSeq(part(more)) = FlattenSeq(part(q)) \o One(s, p)
  <2> DEFINE v == part(q)
  <2>1. v \in Seq(Seq(Pools))
    BY <1>3
  <2> HIDE DEF v
  <2>2. FlattenSeq(Append(v, One(s, p))) = FlattenSeq(v) \o One(s, p)
    BY <1>2, <2>1, FlattenAppend
  <2>3. QED
    BY <1>4, <2>2 DEF v
<1>6. FlattenSeq(part(<<p>>)) = One(s, p)
  <2>1. part(<<p>>) = <<One(s, p)>>
    BY DEF One
  <2>2. QED
    BY <1>2, <2>1, OneMore
<1>7. QED
  BY <1>5, <1>6 DEF Matching

LEMMA PrefixIs ==
    ASSUME NEW E, NEW q \in Seq(E), NEW r \in Seq(E)
    PROVE  /\ IsPrefix(<<>>, q) /\ IsPrefix(q, q)
           /\ IsPrefix(q, q \o r)
           /\ \A p \in Seq(E) : IsPrefix(p, q) => IsPrefix(p, q \o r)
<1>1. IsPrefix(<<>>, q) /\ IsPrefix(q, q)
  BY DEF IsPrefix
<1> DEFINE m == q \o r
<1>2. /\ Len(q) \in Nat /\ Len(r) \in Nat /\ m \in Seq(E) /\ Len(m) = Len(q) + Len(r)
      /\ \A k \in 1 .. Len(q) : m[k] = q[k]
  BY ConcatIs
<1> HIDE DEF m
<1>3. ASSUME NEW p \in Seq(E), IsPrefix(p, q) PROVE IsPrefix(p, m)
  <2>1. Len(p) \in Nat /\ Len(p) <= Len(q) /\ SubSeq(p, 1, Len(p)) = SubSeq(q, 1, Len(p))
    BY <1>3 DEF IsPrefix
  <2>2. SubSeq(q, 1, Len(p)) = SubSeq(m, 1, Len(p))
    BY <1>2, <2>1
  <2>3. QED
    BY <1>2, <2>1, <2>2 DEF IsPrefix
<1>4. QED
  BY <1>1, <1>3 DEF m

-----------------------------------------------------------------------------
(* The systems of the two trees.                                             *)

\* Each has one place in one tree.
Parted ==
    /\ DOMAIN tree = Trees
    /\ \A t \in Trees : IsTree(tree[t]) /\ PlacedOnce(tree[t]) /\ Named(tree[t])
    /\ SystemsIn(tree["main"]) \cap SystemsIn(tree["fixed"]) = {}

LEMMA RunsAll ==
    ASSUME NEW nodes, IsTree(nodes), PlacedOnce(nodes)
    PROVE  Range(RunOrder(nodes, {})) = SystemsIn(nodes)
<1>1. Range(RunOrder(nodes, {})) \subseteq SystemsIn(nodes)
  BY RunOrderIs
<1>2. ASSUME NEW s \in SystemsIn(nodes) PROVE s \in Range(RunOrder(nodes, {}))
  <2>1. PICK m \in DOMAIN nodes : s \in SystemsAt(nodes[m])
    BY DEF SystemsIn
  <2>2. \A k \in 1 .. m : Under(nodes, k, m) => nodes[k].group \notin {}
    OBVIOUS
  <2>3. QED
    BY <2>1, <2>2, RunOrderIs
<1>3. QED
  BY <1>1, <1>2

LEMMA EverythingIs ==
    ASSUME Parted
    PROVE  /\ Everything \in Seq(AllSystems) /\ IsInjective(Everything)
           /\ Range(Everything) = SystemsIn(tree["main"]) \cup SystemsIn(tree["fixed"])
<1> DEFINE q == RunOrder(tree["main"], {})
           r == RunOrder(tree["fixed"], {})
<1>1. /\ IsTree(tree["main"]) /\ PlacedOnce(tree["main"])
      /\ IsTree(tree["fixed"]) /\ PlacedOnce(tree["fixed"])
      /\ SystemsIn(tree["main"]) \cap SystemsIn(tree["fixed"]) = {}
  BY DEF Parted, Trees
<1>2. /\ q \in Seq(AllSystems) /\ IsInjective(q) /\ Range(q) = SystemsIn(tree["main"])
      /\ r \in Seq(AllSystems) /\ IsInjective(r) /\ Range(r) = SystemsIn(tree["fixed"])
  BY <1>1, RunOrderIs, RunsAll
<1>3. Everything = q \o r
  BY DEF Everything
<1> HIDE DEF q, r
<1>4. q \o r \in Seq(AllSystems)
  BY <1>2
<1>5. QED
  BY <1>1, <1>2, <1>3, <1>4, ConcatRange, ConcatInjective

\* A pool is offered once to each system of a tree.
LEMMA OfferedOnce ==
    ASSUME Parted, NEW s, NEW q \in Seq(Pools)
    PROVE  FlattenSeq([k \in 1 .. Times(s, Everything) |-> q]) =
               IF s \in SystemsIn(tree["main"]) \cup SystemsIn(tree["fixed"]) THEN q ELSE <<>>
<1>1. Times(s, Everything) =
          IF s \in SystemsIn(tree["main"]) \cup SystemsIn(tree["fixed"]) THEN 1 ELSE 0
  BY EverythingIs, TimesIs
<1>2. [k \in 1 .. 1 |-> q] = <<q>> /\ [k \in 1 .. 0 |-> q] = <<>>
  OBVIOUS
<1>3. FlattenSeq(<<q>>) = q /\ FlattenSeq(<<>>) = <<>>
  BY OneMore, FlattenNothing
<1>4. QED
  BY <1>1, <1>2, <1>3

-----------------------------------------------------------------------------
(* The invariant.  It has four parts: where the systems are, what pools they *)
(* hold, where the groups stand that the program asked about, and how long   *)
(* each system was run for.                                                  *)

InTrees == SystemsIn(tree["main"]) \cup SystemsIn(tree["fixed"])

\* What a program that registers nothing twice has still to register.
Unoffered ==
    {s \in Systems \cup Queries : s \notin offered}
    \cup UNION {SystemsIn(b) : b \in {c \in Branches : c[1].group \notin offered}}

Placed ==
    /\ Parted
    /\ DOMAIN joined = InTrees
    /\ \A s \in DOMAIN joined :
           /\ joined[s].tree \in Trees /\ s \in SystemsIn(tree[joined[s].tree])
           /\ joined[s].passed \in Nat /\ joined[s].since \in Nat
    /\ Unoffered \cap InTrees = {}
    /\ \A b \in Branches : b[1].group \notin offered =>
           \A t \in Trees : GroupsIn(tree[t]) \cap GroupsIn(b) = {}

Served ==
    /\ pools \in Seq(Pools)
    /\ query \in [Subscribers -> Seq(Pools)]
    /\ \A s \in Unoffered : query[s] = <<>>
    /\ \A s \in DOMAIN joined : query[s] = Matching(s, pools)
    /\ \A s \in Subscribers : IsPrefix(query[s], Matching(s, pools))

Obeyed ==
    \A a \in asked :
        /\ a.tree \in Trees /\ a.inside \in BOOLEAN /\ a.before \in BOOLEAN
        /\ \E i, k \in DOMAIN tree[a.tree] : Stands(a, tree[a.tree], i, k)

\* What a tree's systems have been run for, had they always been in it, and
\* what of it was over when a system came.
Due(t) == IF t = "main" THEN passed ELSE passed - since
DueThen(j) == IF j.tree = "main" THEN j.passed ELSE j.passed - j.since

OnTime ==
    /\ step \in Steps /\ passed \in 0 .. MaxTime /\ since \in 0 .. passed
    /\ step = 0 => since = 0
    /\ catchingUp \in BOOLEAN /\ (catchingUp <=> step > 0 /\ since >= step)
    /\ elapsed \in [AllSystems -> Nat]
    /\ \A s \in AllSystems : s \notin DOMAIN joined => elapsed[s] = 0
    /\ \A s \in DOMAIN joined :
           /\ DueThen(joined[s]) \in 0 .. Due(joined[s].tree)
           /\ elapsed[s] <= Due(joined[s].tree) - DueThen(joined[s])
           /\ ~Gated(tree[joined[s].tree], s) =>
                  elapsed[s] = Due(joined[s].tree) - DueThen(joined[s])

SystemsInvariant == Placed /\ Served /\ Obeyed /\ OnTime

-----------------------------------------------------------------------------
(* What a program registers that registers nothing twice.                    *)

Unlike(b, c) == SystemsIn(b) \cap SystemsIn(c) = {} /\ GroupsIn(b) \cap GroupsIn(c) = {}

LEMMA BranchIs ==
    ASSUME NothingTwice, NEW b \in Branches
    PROVE  /\ IsTree(b) /\ PlacedOnce(b) /\ Named(b)
           /\ SystemsIn(b) \subseteq AllSystems
           /\ SystemsIn(b) \cap (Systems \cup Queries) = {}
           /\ GroupsIn(b) \cap (Groups \cup Roots) = {}
           /\ b[1].group \in GroupsIn(b)
           /\ \A c \in Branches : b # c => Unlike(b, c)
<1>1. IsTree(b) /\ 1 \in DOMAIN b
  <2>1. IsTree(b)
    BY SchedulerAssumption
  <2>2. Len(b) \in Nat /\ Len(b) >= 1 /\ DOMAIN b = 1 .. Len(b)
    BY <2>1, NodeParts
  <2>3. QED
    BY <2>1, <2>2
<1>2. \A i \in DOMAIN b :
        /\ IsInjective(b[i].starts) /\ IsInjective(b[i].ends)
        /\ Range(b[i].starts) \cap Range(b[i].ends) = {}
        /\ b[i].group \notin Groups \cup Roots
        /\ SystemsAt(b[i]) \cap Systems = {}
        /\ \A c \in Branches : \A k \in DOMAIN c :
            b # c \/ i # k =>
                b[i].group # c[k].group /\ SystemsAt(b[i]) \cap SystemsAt(c[k]) = {}
  BY DEF NothingTwice
<1>3. PlacedOnce(b)
  BY <1>2 DEF PlacedOnce, NodeOnce
<1>4. Named(b)
  BY <1>2 DEF Named
<1>5. SystemsIn(b) \subseteq AllSystems
  BY DEF AllSystems
<1>6. SystemsIn(b) \cap (Systems \cup Queries) = {}
  <2>1. SystemsIn(b) \cap Systems = {}
    BY <1>2 DEF SystemsIn
  <2>2. Queries \cap AllSystems = {}
    BY DEF NothingTwice
  <2>3. QED
    BY <1>5, <2>1, <2>2
<1>7. GroupsIn(b) \cap (Groups \cup Roots) = {} /\ b[1].group \in GroupsIn(b)
  BY <1>1, <1>2 DEF GroupsIn
<1>8. ASSUME NEW c \in Branches, b # c PROVE Unlike(b, c)
  <2>1. \A i \in DOMAIN b, k \in DOMAIN c :
            b[i].group # c[k].group /\ SystemsAt(b[i]) \cap SystemsAt(c[k]) = {}
    BY <1>2, <1>8
  <2>2. SystemsIn(b) \cap SystemsIn(c) = {}
    <3> SUFFICES ASSUME NEW x \in SystemsIn(b), x \in SystemsIn(c) PROVE FALSE
      OBVIOUS
    <3>1. PICK i \in DOMAIN b : x \in SystemsAt(b[i])
      BY DEF SystemsIn
    <3>2. PICK k \in DOMAIN c : x \in SystemsAt(c[k])
      BY DEF SystemsIn
    <3>3. QED
      BY <2>1, <3>1, <3>2
  <2>3. GroupsIn(b) \cap GroupsIn(c) = {}
    <3> SUFFICES ASSUME NEW x \in GroupsIn(b), x \in GroupsIn(c) PROVE FALSE
      OBVIOUS
    <3>1. PICK i \in DOMAIN b : x = b[i].group
      BY DEF GroupsIn
    <3>2. PICK k \in DOMAIN c : x = c[k].group
      BY DEF GroupsIn
    <3>3. QED
      BY <2>1, <3>1, <3>2
  <2>4. QED
    BY <2>2, <2>3 DEF Unlike
<1>9. QED
  BY <1>1, <1>3, <1>4, <1>5, <1>6, <1>7, <1>8

\* A group by itself is a branch without systems.
LEMMA LoneIs ==
    ASSUME NEW g \in Groups \cup Roots
    PROVE  LET lone == <<Node(g, 0, <<>>, <<>>)>> IN
           /\ IsTree(lone) /\ PlacedOnce(lone) /\ Named(lone)
           /\ SystemsIn(lone) = {} /\ GroupsIn(lone) = {g} /\ lone[1].group = g
<1> DEFINE node == Node(g, 0, <<>>, <<>>)
           lone == <<node>>
<1>1. /\ node \in Nodes /\ node.group = g /\ node.depth = 0
      /\ node.starts = <<>> /\ node.ends = <<>>
  BY DEF Node, Nodes
<1>2. Range(<<>>) = {} /\ IsInjective(<<>>)
  BY DEF Range, IsInjective
<1> HIDE DEF node
<1>3. /\ lone \in Seq(Nodes) /\ Len(lone) = 1 /\ DOMAIN lone = {1} /\ lone[1] = node
      /\ lone # <<>>
  BY <1>1
<1> HIDE DEF lone
<1>4. IsTree(lone)
  <2>1. \A i \in 2 .. Len(lone) : FALSE
    BY <1>3
  <2>2. QED
    BY <1>1, <1>3, <2>1 DEF IsTree
<1>5. SystemsAt(node) = {} /\ NodeOnce(node)
  BY <1>1, <1>2 DEF SystemsAt, NodeOnce
<1>6. PlacedOnce(lone) /\ Named(lone)
  BY <1>3, <1>5 DEF PlacedOnce, Named
<1>7. SystemsIn(lone) = {} /\ GroupsIn(lone) = {g}
  BY <1>1, <1>3, <1>5 DEF SystemsIn, GroupsIn
<1>8. QED
  BY <1>1, <1>3, <1>4, <1>6, <1>7 DEF lone, node

\* What is handed to the manager as x, and the subscribers it stands for.
Claim(x, set) ==
    \/ x \in Systems \cup Queries /\ set = {x}
    \/ \E b \in Branches : x = b[1].group /\ set = SystemsIn(b)

LEMMA Claimed ==
    ASSUME NothingTwice, NEW x, NEW set, Claim(x, set), x \notin offered,
           offered' = offered \cup {x}
    PROVE  /\ set \subseteq Unoffered /\ set \subseteq Subscribers
           /\ set \cap Unoffered' = {} /\ Unoffered' \subseteq Unoffered
<1>1. Unoffered' =
        {s \in Systems \cup Queries : s \notin offered'}
        \cup UNION {SystemsIn(b) : b \in {c \in Branches : c[1].group \notin offered'}}
  BY DEF Unoffered
<1>2. Unoffered' \subseteq Unoffered
  BY <1>1 DEF Unoffered
<1>3. CASE x \in Systems \cup Queries /\ set = {x}
  <2>1. \A b \in Branches : x \notin SystemsIn(b)
    BY <1>3, BranchIs
  <2>2. x \notin Unoffered'
    BY <1>1, <2>1
  <2>3. x \in Unoffered /\ x \in Subscribers
    BY <1>3 DEF Unoffered, Subscribers, AllSystems
  <2>4. QED
    BY <1>2, <1>3, <2>2, <2>3
<1>4. ASSUME NEW b \in Branches, x = b[1].group, set = SystemsIn(b)
      PROVE  set \subseteq Unoffered /\ set \subseteq Subscribers /\ set \cap Unoffered' = {}
  <2>1. set \subseteq Unoffered
    BY <1>4 DEF Unoffered
  <2>2. set \subseteq Subscribers
    BY <1>4, BranchIs DEF Subscribers
  <2>3. \A c \in Branches : c[1].group \notin offered' => SystemsIn(c) \cap set = {}
    <3> TAKE c \in Branches
    <3>1. CASE c = b
      BY <1>4, <3>1
    <3>2. CASE c # b
      BY <1>4, <3>2, BranchIs DEF Unlike
    <3>3. QED
      BY <3>1, <3>2
  <2>4. set \cap (Systems \cup Queries) = {}
    BY <1>4, BranchIs
  <2>5. QED
    BY <1>1, <2>1, <2>2, <2>3, <2>4
<1>5. QED
  BY <1>2, <1>3, <1>4 DEF Claim

-----------------------------------------------------------------------------
(* Every step registers something, were it nothing at all: systems and       *)
(* groups that were in no tree come into one.                                *)

Extended(t, systems, groups) ==
    /\ t \in Trees /\ DOMAIN tree' = Trees
    /\ \A u \in Trees : u # t => tree'[u] = tree[u]
    /\ Gains(tree[t], tree'[t], systems, groups)
    /\ systems \cap InTrees = {}

LEMMA GainsNothing ==
    ASSUME NEW nodes, IsTree(nodes), PlacedOnce(nodes), Named(nodes)
    PROVE  Gains(nodes, nodes, {}, {})
<1> DEFINE at == [m \in DOMAIN nodes |-> m]
<1>1. at \in [DOMAIN nodes -> DOMAIN nodes] /\ \A m \in DOMAIN nodes : at[m] = m
  OBVIOUS
<1> HIDE DEF at
<1>2. Grown(nodes, nodes, at)
  BY <1>1 DEF Grown
<1>3. QED
  BY <1>2 DEF Gains

LEMMA GrownHolds ==
    ASSUME NEW nodes, NEW new, NEW at, Grown(nodes, new, at)
    PROVE  SystemsIn(nodes) \subseteq SystemsIn(new)
<1> SUFFICES ASSUME NEW s \in SystemsIn(nodes) PROVE s \in SystemsIn(new)
  OBVIOUS
<1>1. PICK m \in DOMAIN nodes : s \in SystemsAt(nodes[m])
  BY DEF SystemsIn
<1>2. at[m] \in DOMAIN new /\ s \in SystemsAt(new[at[m]])
  BY <1>1 DEF Grown
<1>3. QED
  BY <1>2 DEF SystemsIn

LEMMA ExtendedIs ==
    ASSUME Parted, NEW t, NEW systems, NEW groups, Extended(t, systems, groups)
    PROVE  /\ Parted' /\ InTrees' = InTrees \cup systems
           /\ systems \subseteq SystemsIn(tree'[t])
           /\ \A u \in Trees : /\ \E at : Grown(tree[u], tree'[u], at)
                               /\ GroupsIn(tree'[u]) \subseteq GroupsIn(tree[u]) \cup groups
                               /\ SystemsIn(tree[u]) \subseteq SystemsIn(tree'[u])
<1>1. /\ t \in Trees /\ DOMAIN tree' = Trees
      /\ \A u \in Trees : u # t => tree'[u] = tree[u]
      /\ Gains(tree[t], tree'[t], systems, groups)
      /\ systems \cap InTrees = {}
  BY DEF Extended
<1>2. /\ \A u \in Trees : IsTree(tree[u]) /\ PlacedOnce(tree[u]) /\ Named(tree[u])
      /\ SystemsIn(tree["main"]) \cap SystemsIn(tree["fixed"]) = {}
  BY DEF Parted
<1>3. /\ IsTree(tree'[t]) /\ PlacedOnce(tree'[t]) /\ Named(tree'[t])
      /\ \E at : Grown(tree[t], tree'[t], at)
      /\ SystemsIn(tree'[t]) = SystemsIn(tree[t]) \cup systems
      /\ GroupsIn(tree'[t]) = GroupsIn(tree[t]) \cup groups
  BY <1>1 DEF Gains
<1>4. \A u \in Trees : IsTree(tree'[u]) /\ PlacedOnce(tree'[u]) /\ Named(tree'[u])
  BY <1>1, <1>2, <1>3
<1>5. \A u \in Trees : /\ \E at : Grown(tree[u], tree'[u], at)
                       /\ GroupsIn(tree'[u]) \subseteq GroupsIn(tree[u]) \cup groups
  <2> TAKE u \in Trees
  <2>1. CASE u = t
    BY <1>3, <2>1
  <2>2. CASE u # t
    <3>1. Gains(tree[u], tree[u], {}, {})
      BY <1>2, GainsNothing
    <3>2. \E at : Grown(tree[u], tree[u], at)
      BY <3>1 DEF Gains
    <3>3. QED
      BY <1>1, <2>2, <3>2
  <2>3. QED
    BY <2>1, <2>2
<1>6. \A u \in Trees : SystemsIn(tree[u]) \subseteq SystemsIn(tree'[u])
  BY <1>5, GrownHolds
<1>7. /\ SystemsIn(tree'["main"]) \cup SystemsIn(tree'["fixed"]) = InTrees \cup systems
      /\ SystemsIn(tree'["main"]) \cap SystemsIn(tree'["fixed"]) = {}
  <2>1. InTrees = SystemsIn(tree["main"]) \cup SystemsIn(tree["fixed"])
    BY DEF InTrees
  <2>2. CASE t = "main"
    <3>1. tree'["fixed"] = tree["fixed"]
      BY <1>1, <2>2 DEF Trees
    <3>2. SystemsIn(tree'["main"]) = SystemsIn(tree["main"]) \cup systems
      BY <1>3, <2>2
    <3>3. QED
      BY <1>1, <1>2, <2>1, <3>1, <3>2
  <2>3. CASE t = "fixed"
    <3>1. tree'["main"] = tree["main"]
      BY <1>1, <2>3 DEF Trees
    <3>2. SystemsIn(tree'["fixed"]) = SystemsIn(tree["fixed"]) \cup systems
      BY <1>3, <2>3
    <3>3. QED
      BY <1>1, <1>2, <2>1, <3>1, <3>2
  <2>4. QED
    BY <1>1, <2>2, <2>3 DEF Trees
<1>8. QED
  BY <1>1, <1>3, <1>4, <1>5, <1>6, <1>7 DEF Parted, InTrees

\* The systems that come in are noted, and what they are made of is offered.
Entered(systems, t) ==
    /\ DOMAIN joined' = DOMAIN joined \cup systems
    /\ \A s \in systems : joined'[s] = [tree |-> t, passed |-> passed, since |-> since]
    /\ \A s \in DOMAIN joined : s \notin systems => joined'[s] = joined[s]

Arrives(t, systems, groups) ==
    /\ Extended(t, systems, groups) /\ Entered(systems, t)
    /\ systems \subseteq AllSystems
    /\ Unoffered' \cap systems = {} /\ Unoffered' \subseteq Unoffered
    /\ \A b \in Branches : b[1].group \notin offered' =>
           b[1].group \notin offered /\ GroupsIn(b) \cap groups = {}

LEMMA NothingRegistered ==
    ASSUME Placed, UNCHANGED <<tree, joined>>, Unoffered' \subseteq Unoffered, offered \subseteq offered'
    PROVE  Arrives("main", {}, {})
<1>1. /\ IsTree(tree["main"]) /\ PlacedOnce(tree["main"]) /\ Named(tree["main"])
      /\ DOMAIN tree = Trees
  BY DEF Placed, Parted, Trees
<1>2. Gains(tree["main"], tree["main"], {}, {})
  BY <1>1, GainsNothing
<1>3. Extended("main", {}, {})
  BY <1>1, <1>2 DEF Extended, Trees
<1>4. Entered({}, "main")
  BY DEF Entered
<1>5. QED
  BY <1>3, <1>4 DEF Arrives

LEMMA PlacedStays ==
    ASSUME Placed, passed \in Nat, since \in Nat, NEW t, NEW systems, NEW groups, Arrives(t, systems, groups)
    PROVE  Placed'
<1>1. Parted /\ Extended(t, systems, groups) /\ Entered(systems, t) /\ t \in Trees
  BY DEF Placed, Arrives, Extended
<1>2. /\ Parted' /\ InTrees' = InTrees \cup systems
      /\ systems \subseteq SystemsIn(tree'[t])
      /\ \A u \in Trees : /\ GroupsIn(tree'[u]) \subseteq GroupsIn(tree[u]) \cup groups
                          /\ SystemsIn(tree[u]) \subseteq SystemsIn(tree'[u])
  BY <1>1, ExtendedIs
<1>3. DOMAIN joined' = InTrees'
  BY <1>1, <1>2 DEF Placed, Entered
<1>4. ASSUME NEW s \in DOMAIN joined'
      PROVE  /\ joined'[s].tree \in Trees /\ s \in SystemsIn(tree'[joined'[s].tree])
             /\ joined'[s].passed \in Nat /\ joined'[s].since \in Nat
  <2>1. CASE s \in systems
    <3>1. joined'[s].tree = t /\ joined'[s].passed = passed /\ joined'[s].since = since
      BY <1>1, <2>1 DEF Entered
    <3>2. QED
      BY <1>1, <1>2, <2>1, <3>1
  <2>2. CASE s \notin systems
    <3>1. s \in DOMAIN joined /\ joined'[s] = joined[s]
      BY <1>1, <1>4, <2>2 DEF Entered
    <3>2. /\ joined[s].tree \in Trees /\ s \in SystemsIn(tree[joined[s].tree])
          /\ joined[s].passed \in Nat /\ joined[s].since \in Nat
      BY <3>1 DEF Placed
    <3>3. QED
      BY <1>2, <3>1, <3>2
  <2>3. QED
    BY <2>1, <2>2
<1>5. Unoffered' \cap InTrees' = {}
  BY <1>2 DEF Placed, Arrives
<1>6. ASSUME NEW b \in Branches, b[1].group \notin offered', NEW u \in Trees
      PROVE  GroupsIn(tree'[u]) \cap GroupsIn(b) = {}
  <2>1. b[1].group \notin offered /\ GroupsIn(b) \cap groups = {}
    BY <1>6 DEF Arrives
  <2>2. GroupsIn(tree[u]) \cap GroupsIn(b) = {}
    BY <2>1 DEF Placed
  <2>3. QED
    BY <1>2, <2>1, <2>2
<1>7. QED
  BY <1>2, <1>3, <1>4, <1>5, <1>6 DEF Placed

\* What the program asked before stays as it is.
LEMMA ObeyedStays ==
    ASSUME Placed, Obeyed, NEW t, NEW systems, NEW groups, Arrives(t, systems, groups),
           NEW a \in asked
    PROVE  /\ a.tree \in Trees /\ a.inside \in BOOLEAN /\ a.before \in BOOLEAN
           /\ \E i, k \in DOMAIN tree'[a.tree] : Stands(a, tree'[a.tree], i, k)
<1>1. /\ a.tree \in Trees /\ a.inside \in BOOLEAN /\ a.before \in BOOLEAN
      /\ \E i, k \in DOMAIN tree[a.tree] : Stands(a, tree[a.tree], i, k)
  BY DEF Obeyed
<1>2. PICK at : Grown(tree[a.tree], tree'[a.tree], at)
  BY <1>1, ExtendedIs DEF Placed, Arrives
<1>3. PICK i \in DOMAIN tree[a.tree], k \in DOMAIN tree[a.tree] : Stands(a, tree[a.tree], i, k)
  BY <1>1
<1> DEFINE nodes == tree[a.tree]
           new == tree'[a.tree]
<1>4. /\ at[i] \in DOMAIN new /\ at[k] \in DOMAIN new
      /\ Stands(a, new, at[i], at[k])
  <2>1. Grown(nodes, new, at) /\ i \in DOMAIN nodes /\ k \in DOMAIN nodes /\ Stands(a, nodes, i, k)
    BY <1>2, <1>3
  <2> HIDE DEF nodes, new
  <2>2. QED
    BY <2>1, StandsStill
<1>5. QED
  BY <1>1, <1>4

DueNext(t) == IF t = "main" THEN passed' ELSE passed' - since'

LEMMA OnTimeNext ==
    ASSUME step' \in Steps /\ passed' \in 0 .. MaxTime /\ since' \in 0 .. passed',
           step' = 0 => since' = 0,
           catchingUp' \in BOOLEAN /\ (catchingUp' <=> step' > 0 /\ since' >= step'),
           elapsed' \in [AllSystems -> Nat],
           \A s \in AllSystems : s \notin DOMAIN joined' => elapsed'[s] = 0,
           \A s \in DOMAIN joined' :
               /\ DueThen(joined'[s]) \in 0 .. DueNext(joined'[s].tree)
               /\ elapsed'[s] <= DueNext(joined'[s].tree) - DueThen(joined'[s])
               /\ ~Gated(tree'[joined'[s].tree], s) =>
                      elapsed'[s] = DueNext(joined'[s].tree) - DueThen(joined'[s])
    PROVE  OnTime'
<1>1. \A s \in DOMAIN joined' :
          /\ DueThen(joined'[s]) = DueThen(joined[s])'
          /\ DueNext(joined'[s].tree) = Due(joined[s].tree)'
  BY DEF DueThen, DueNext, Due
<1>2. QED
  BY <1>1 DEF OnTime

\* While no time passes, no system is run.
LEMMA OnTimeStays ==
    ASSUME Placed, OnTime, NEW t, NEW systems, NEW groups, Arrives(t, systems, groups),
           UNCHANGED timeVars
    PROVE  OnTime'
<1>1. Parted /\ Extended(t, systems, groups) /\ Entered(systems, t) /\ t \in Trees
      /\ systems \subseteq AllSystems /\ systems \cap InTrees = {} /\ DOMAIN joined = InTrees
  BY DEF Placed, Arrives, Extended
<1>2. step' = step /\ passed' = passed /\ since' = since /\ catchingUp' = catchingUp
      /\ elapsed' = elapsed
  BY DEF timeVars
<1>3. \A u : DueNext(u) = Due(u)
  BY <1>2 DEF Due, DueNext
<1>4. \A u \in Trees : Due(u) \in Nat
  <2>1. MaxTime \in Nat /\ passed \in 0 .. MaxTime /\ since \in 0 .. passed
    BY SchedulerAssumption DEF OnTime
  <2>2. QED
    BY <2>1 DEF Due
<1>5. \A s \in AllSystems : s \notin DOMAIN joined' => elapsed'[s] = 0
  BY <1>1, <1>2 DEF OnTime, Entered
<1>6. ASSUME NEW s \in DOMAIN joined'
      PROVE  /\ DueThen(joined'[s]) \in 0 .. Due(joined'[s].tree)
             /\ elapsed[s] <= Due(joined'[s].tree) - DueThen(joined'[s])
             /\ ~Gated(tree'[joined'[s].tree], s) =>
                    elapsed[s] = Due(joined'[s].tree) - DueThen(joined'[s])
  <2>1. CASE s \in systems
    <3>1. /\ joined'[s].tree = t /\ joined'[s].passed = passed /\ joined'[s].since = since
      BY <1>1, <2>1 DEF Entered
    <3>2. DueThen(joined'[s]) = Due(t)
      BY <3>1 DEF DueThen, Due
    <3>3. elapsed[s] = 0
      <4>1. s \in AllSystems /\ s \notin DOMAIN joined
        BY <1>1, <2>1
      <4>2. QED
        BY <4>1 DEF OnTime
    <3>4. Due(t) \in Nat
      BY <1>1, <1>4
    <3>5. QED
      BY <3>1, <3>2, <3>3, <3>4
  <2>2. CASE s \notin systems
    <3>1. s \in DOMAIN joined /\ joined'[s] = joined[s]
      BY <1>1, <1>6, <2>2 DEF Entered
    <3>2. joined[s].tree \in Trees
      BY <3>1 DEF Placed
    <3>3. PICK at : Grown(tree[joined[s].tree], tree'[joined[s].tree], at)
      BY <1>1, <3>2, ExtendedIs
    <3>4. Gated(tree[joined[s].tree], s) => Gated(tree'[joined[s].tree], s)
      BY <3>3, GatedStill
    <3>5. /\ DueThen(joined[s]) \in 0 .. Due(joined[s].tree)
          /\ elapsed[s] <= Due(joined[s].tree) - DueThen(joined[s])
          /\ ~Gated(tree[joined[s].tree], s) =>
                  elapsed[s] = Due(joined[s].tree) - DueThen(joined[s])
      BY <3>1 DEF OnTime
    <3>6. QED
      BY <3>1, <3>4, <3>5
  <2>3. QED
    BY <2>1, <2>2
<1>7. QED
  <2>1. /\ step' \in Steps /\ passed' \in 0 .. MaxTime /\ since' \in 0 .. passed'
        /\ step' = 0 => since' = 0
        /\ elapsed' \in [AllSystems -> Nat]
    BY <1>2 DEF OnTime
  <2>2. catchingUp' \in BOOLEAN /\ (catchingUp' <=> step' > 0 /\ since' >= step')
    BY <1>2 DEF OnTime
  <2>3. ASSUME NEW s \in DOMAIN joined'
        PROVE  /\ DueThen(joined'[s]) \in 0 .. DueNext(joined'[s].tree)
               /\ elapsed'[s] <= DueNext(joined'[s].tree) - DueThen(joined'[s])
               /\ ~Gated(tree'[joined'[s].tree], s) =>
                      elapsed'[s] = DueNext(joined'[s].tree) - DueThen(joined'[s])
    BY <1>2, <1>3, <1>6
  <2>4. QED
    BY <1>5, <2>1, <2>2, <2>3, OnTimeNext

-----------------------------------------------------------------------------
(* Time.                                                                     *)

\* What a run adds to the time a system was run for.
Lasts(r, t, d) ==
    \A s \in SystemsIn(tree[t]) :
        /\ r[s] <= elapsed[s] + d
        /\ ~Gated(tree[t], s) => r[s] = elapsed[s] + d

LEMMA RanIs ==
    ASSUME elapsed \in [AllSystems -> Nat],
           NEW q \in Seq(AllSystems), IsInjective(q), NEW d \in Nat
    PROVE  /\ Ran(q, d) \in [AllSystems -> Nat]
           /\ \A s \in AllSystems :
                  Ran(q, d)[s] = IF s \in Range(q) THEN elapsed[s] + d ELSE elapsed[s]
<1>1. \A s \in AllSystems :
          elapsed[s] + d * Times(s, q) = IF s \in Range(q) THEN elapsed[s] + d ELSE elapsed[s]
  <2> TAKE s \in AllSystems
  <2>1. Times(s, q) = IF s \in Range(q) THEN 1 ELSE 0
    BY TimesIs
  <2>2. elapsed[s] \in Nat /\ d * 1 = d /\ d * 0 = 0
    OBVIOUS
  <2>3. CASE s \in Range(q)
    BY <2>1, <2>2, <2>3
  <2>4. CASE s \notin Range(q)
    BY <2>1, <2>2, <2>4
  <2>5. QED
    BY <2>3, <2>4
<1>2. \A s \in AllSystems : (IF s \in Range(q) THEN elapsed[s] + d ELSE elapsed[s]) \in Nat
  OBVIOUS
<1>3. QED
  BY <1>1, <1>2 DEF Ran

LEMMA SystemsKnown ==
    ASSUME NEW nodes, IsTree(nodes)
    PROVE  SystemsIn(nodes) \subseteq AllSystems
<1> SUFFICES ASSUME NEW s \in SystemsIn(nodes) PROVE s \in AllSystems
  OBVIOUS
<1>1. PICK m \in DOMAIN nodes : s \in SystemsAt(nodes[m])
  BY DEF SystemsIn
<1>2. nodes[m].starts \in Seq(AllSystems) /\ nodes[m].ends \in Seq(AllSystems)
  BY NodeParts
<1>3. Range(nodes[m].starts) \subseteq AllSystems /\ Range(nodes[m].ends) \subseteq AllSystems
  BY <1>2 DEF Range
<1>4. QED
  BY <1>1, <1>3 DEF SystemsAt

LEMMA TreeRuns ==
    ASSUME Parted, elapsed \in [AllSystems -> Nat], NEW t \in Trees,
           NEW closed \in SUBSET Hooked, NEW d \in Nat
    PROVE  LET r == Ran(RunOrder(tree[t], closed), d) IN
           /\ r \in [AllSystems -> Nat]
           /\ \A s \in AllSystems : s \notin SystemsIn(tree[t]) => r[s] = elapsed[s]
           /\ Lasts(r, t, d)
<1> DEFINE nodes == tree[t]
           q == RunOrder(nodes, closed)
<1>1. IsTree(nodes) /\ PlacedOnce(nodes)
  BY DEF Parted
<1> HIDE DEF nodes
<1>2. q \in Seq(AllSystems) /\ IsInjective(q) /\ Range(q) \subseteq SystemsIn(nodes)
  BY <1>1, RunOrderIs
<1>3. \A s \in SystemsIn(nodes) : ~Gated(nodes, s) => s \in Range(q)
  BY <1>1, UngatedRuns
<1> HIDE DEF q
<1>4. Range(q) \subseteq AllSystems
  BY <1>2 DEF Range
<1>5. /\ Ran(q, d) \in [AllSystems -> Nat]
      /\ \A s \in AllSystems :
             Ran(q, d)[s] = IF s \in Range(q) THEN elapsed[s] + d ELSE elapsed[s]
  BY <1>2, RanIs
<1>6. SystemsIn(nodes) \subseteq AllSystems
  BY <1>1, SystemsKnown
<1>7. \A s \in SystemsIn(nodes) : /\ Ran(q, d)[s] <= elapsed[s] + d
                                  /\ ~Gated(nodes, s) => Ran(q, d)[s] = elapsed[s] + d
  <2> TAKE s \in SystemsIn(nodes)
  <2>1. s \in AllSystems /\ elapsed[s] \in Nat
    BY <1>6
  <2>2. Ran(q, d)[s] = IF s \in Range(q) THEN elapsed[s] + d ELSE elapsed[s]
    BY <1>5, <2>1
  <2>3. QED
    BY <1>3, <2>1, <2>2
<1>8. QED
  BY <1>2, <1>5, <1>7 DEF Lasts, q, nodes

LEMMA BothRun ==
    ASSUME Parted, elapsed \in [AllSystems -> Nat],
           NEW closed \in SUBSET Hooked, NEW d \in Nat
    PROVE  LET r == Ran(RunOrder(tree["main"], closed) \o RunOrder(tree["fixed"], closed), d) IN
           /\ r \in [AllSystems -> Nat]
           /\ \A s \in AllSystems : s \notin InTrees => r[s] = elapsed[s]
           /\ \A t \in Trees : Lasts(r, t, d)
<1> DEFINE main == tree["main"]
           fixed == tree["fixed"]
           p == RunOrder(main, closed)
           q == RunOrder(fixed, closed)
           r == Ran(p \o q, d)
<1>1. /\ IsTree(main) /\ PlacedOnce(main) /\ IsTree(fixed) /\ PlacedOnce(fixed)
      /\ SystemsIn(main) \cap SystemsIn(fixed) = {}
  BY DEF Parted, Trees
<1>2. InTrees = SystemsIn(main) \cup SystemsIn(fixed)
  BY DEF InTrees
<1> HIDE DEF main, fixed
<1>3. /\ p \in Seq(AllSystems) /\ IsInjective(p) /\ Range(p) \subseteq SystemsIn(main)
      /\ q \in Seq(AllSystems) /\ IsInjective(q) /\ Range(q) \subseteq SystemsIn(fixed)
  BY <1>1, RunOrderIs
<1>4. /\ \A s \in SystemsIn(main) : ~Gated(main, s) => s \in Range(p)
      /\ \A s \in SystemsIn(fixed) : ~Gated(fixed, s) => s \in Range(q)
  BY <1>1, UngatedRuns
<1> HIDE DEF p, q
<1>5. p \o q \in Seq(AllSystems) /\ IsInjective(p \o q) /\ Range(p \o q) = Range(p) \cup Range(q)
  <2>1. p \o q \in Seq(AllSystems)
    BY <1>3
  <2>2. QED
    BY <1>1, <1>3, <2>1, ConcatRange, ConcatInjective
<1>6. /\ r \in [AllSystems -> Nat]
      /\ \A s \in AllSystems :
             r[s] = IF s \in Range(p) \cup Range(q) THEN elapsed[s] + d ELSE elapsed[s]
  <2>1. /\ Ran(p \o q, d) \in [AllSystems -> Nat]
        /\ \A s \in AllSystems :
               Ran(p \o q, d)[s] = IF s \in Range(p \o q) THEN elapsed[s] + d ELSE elapsed[s]
    BY <1>5, RanIs
  <2>2. QED
    BY <1>5, <2>1
<1> HIDE DEF r
<1>7. SystemsIn(main) \subseteq AllSystems /\ SystemsIn(fixed) \subseteq AllSystems
  BY <1>1, SystemsKnown
<1>8. \A s \in AllSystems : r[s] <= elapsed[s] + d
  <2> TAKE s \in AllSystems
  <2>1. elapsed[s] \in Nat
    OBVIOUS
  <2>2. QED
    BY <1>6, <2>1
<1>9. /\ \A s \in SystemsIn(main) : ~Gated(main, s) => r[s] = elapsed[s] + d
      /\ \A s \in SystemsIn(fixed) : ~Gated(fixed, s) => r[s] = elapsed[s] + d
  BY <1>4, <1>6, <1>7
<1>10. Lasts(r, "main", d) /\ Lasts(r, "fixed", d)
  BY <1>7, <1>8, <1>9 DEF Lasts, main, fixed
<1>11. \A s \in AllSystems : s \notin InTrees => r[s] = elapsed[s]
  BY <1>2, <1>3, <1>6
<1>12. QED
  BY <1>6, <1>10, <1>11 DEF Trees, r, p, q, main, fixed

\* Time passes for the trees that run.
LEMMA TimePasses ==
    ASSUME Placed, OnTime, UNCHANGED <<tree, joined>>,
           step' \in Steps /\ passed' \in 0 .. MaxTime /\ since' \in 0 .. passed',
           step' = 0 => since' = 0,
           catchingUp' \in BOOLEAN /\ (catchingUp' <=> step' > 0 /\ since' >= step'),
           elapsed' \in [AllSystems -> Nat],
           \A s \in AllSystems : s \notin InTrees => elapsed'[s] = elapsed[s],
           NEW d, \A t \in Trees : d[t] \in Nat /\ DueNext(t) = Due(t) + d[t]
                                   /\ Lasts(elapsed', t, d[t])
    PROVE  OnTime'
<1>1. \A s \in AllSystems : s \notin DOMAIN joined' => elapsed'[s] = 0
  BY DEF OnTime, Placed
<1>2. ASSUME NEW s \in DOMAIN joined'
      PROVE  /\ DueThen(joined'[s]) \in 0 .. DueNext(joined'[s].tree)
             /\ elapsed'[s] <= DueNext(joined'[s].tree) - DueThen(joined'[s])
             /\ ~Gated(tree'[joined'[s].tree], s) =>
                    elapsed'[s] = DueNext(joined'[s].tree) - DueThen(joined'[s])
  <2> DEFINE t == joined[s].tree
             then == DueThen(joined[s])
             due == Due(t)
             next == DueNext(t)
             m == d[t]
  <2>1. joined' = joined /\ tree' = tree /\ s \in DOMAIN joined
    OBVIOUS
  <2>2. t \in Trees /\ s \in SystemsIn(tree[t])
    BY <2>1 DEF Placed
  <2>3. /\ then \in 0 .. due /\ elapsed[s] <= due - then
        /\ ~Gated(tree[t], s) => elapsed[s] = due - then
    BY <2>1 DEF OnTime
  <2>4. m \in Nat /\ next = due + m
    BY <2>2
  <2>5. elapsed'[s] <= elapsed[s] + m /\ (~Gated(tree[t], s) => elapsed'[s] = elapsed[s] + m)
    BY <2>2 DEF Lasts
  <2>6. due \in Int
    <3>1. MaxTime \in Nat /\ passed \in 0 .. MaxTime /\ since \in 0 .. passed
      BY SchedulerAssumption DEF OnTime
    <3>2. QED
      BY <3>1 DEF Due
  <2>7. elapsed[s] \in Nat /\ elapsed'[s] \in Nat
    <3>1. s \in AllSystems
      BY <2>2, SystemsKnown DEF Placed, Parted
    <3>2. QED
      BY <3>1 DEF OnTime
  <2> HIDE DEF then, due, next, m
  <2>8. /\ then \in 0 .. next /\ elapsed'[s] <= next - then
        /\ ~Gated(tree[t], s) => elapsed'[s] = next - then
    BY <2>3, <2>4, <2>5, <2>6, <2>7
  <2>9. QED
    BY <2>1, <2>8 DEF then, next
<1>3. QED
  BY <1>1, <1>2, OnTimeNext

LEMMA Hours ==
    ASSUME OnTime
    PROVE  /\ step \in Nat /\ passed \in Nat /\ since \in Nat /\ MaxTime \in Nat
           /\ passed <= MaxTime /\ since <= passed
           /\ FrameTimes \subseteq Nat \ {0}
<1>1. /\ step \in Steps /\ passed \in 0 .. MaxTime /\ since \in 0 .. passed
  BY DEF OnTime
<1>2. Steps \subseteq Nat /\ MaxTime \in Nat /\ FrameTimes \subseteq Nat \ {0}
  BY SchedulerAssumption
<1>3. QED
  BY <1>1, <1>2

LEMMA AddTimeUnfixedOnTime ==
    ASSUME Placed, OnTime, NEW dt \in FrameTimes, NEW closed \in SUBSET Hooked,
           AddTimeUnfixed(dt, closed)
    PROVE  OnTime'
<1>1. /\ step = 0 /\ passed + dt <= MaxTime /\ passed' = passed + dt
      /\ elapsed' = Ran(RunOrder(tree["main"], closed) \o RunOrder(tree["fixed"], closed), dt)
      /\ tree' = tree /\ joined' = joined /\ step' = step /\ since' = since
      /\ catchingUp' = catchingUp
  BY DEF AddTimeUnfixed
<1>2. /\ step \in Nat /\ passed \in Nat /\ since \in Nat /\ MaxTime \in Nat /\ dt \in Nat
      /\ since <= passed
  BY Hours
<1>3. Parted /\ elapsed \in [AllSystems -> Nat] /\ step \in Steps /\ since = 0
  BY <1>1 DEF Placed, OnTime
<1>4. /\ elapsed' \in [AllSystems -> Nat]
      /\ \A s \in AllSystems : s \notin InTrees => elapsed'[s] = elapsed[s]
      /\ \A t \in Trees : Lasts(elapsed', t, dt)
  BY <1>1, <1>2, <1>3, BothRun
<1> DEFINE d == [t \in Trees |-> dt]
<1>5. \A t \in Trees : d[t] \in Nat /\ DueNext(t) = Due(t) + d[t] /\ Lasts(elapsed', t, d[t])
  BY <1>1, <1>2, <1>4 DEF Due, DueNext
<1>6. /\ step' \in Steps /\ passed' \in 0 .. MaxTime /\ since' \in 0 .. passed'
      /\ step' = 0 => since' = 0
  BY <1>1, <1>2, <1>3
<1>7. catchingUp' \in BOOLEAN /\ (catchingUp' <=> step' > 0 /\ since' >= step')
  BY <1>1 DEF OnTime
<1> HIDE DEF d
<1>8. QED
  BY <1>1, <1>4, <1>5, <1>6, <1>7, TimePasses

LEMMA AddTimeOnTime ==
    ASSUME Placed, OnTime, NEW dt \in FrameTimes, NEW closed \in SUBSET Hooked,
           AddTime(dt, closed)
    PROVE  OnTime'
<1>1. /\ step > 0 /\ passed + dt <= MaxTime /\ passed' = passed + dt
      /\ elapsed' = Ran(RunOrder(tree["main"], closed), dt)
      /\ tree' = tree /\ joined' = joined /\ step' = step /\ since' = since + dt
      /\ catchingUp' = (since + dt >= step)
  BY DEF AddTime
<1>2. /\ step \in Nat /\ passed \in Nat /\ since \in Nat /\ MaxTime \in Nat /\ dt \in Nat
      /\ since <= passed
  BY Hours
<1>3. Parted /\ elapsed \in [AllSystems -> Nat] /\ step \in Steps
  BY <1>1 DEF Placed, OnTime
<1>4. /\ elapsed' \in [AllSystems -> Nat]
      /\ \A s \in AllSystems : s \notin SystemsIn(tree["main"]) => elapsed'[s] = elapsed[s]
      /\ Lasts(elapsed', "main", dt)
  BY <1>1, <1>2, <1>3, TreeRuns DEF Trees
<1>5. Lasts(elapsed', "fixed", 0)
  <2>1. /\ SystemsIn(tree["main"]) \cap SystemsIn(tree["fixed"]) = {}
        /\ SystemsIn(tree["fixed"]) \subseteq AllSystems
    BY <1>3, SystemsKnown DEF Parted, Trees
  <2>2. \A s \in SystemsIn(tree["fixed"]) : elapsed'[s] = elapsed[s] /\ elapsed[s] \in Nat
    BY <1>3, <1>4, <2>1
  <2>3. QED
    BY <2>2 DEF Lasts
<1> DEFINE d == [t \in Trees |-> IF t = "main" THEN dt ELSE 0]
<1>6. \A t \in Trees : d[t] \in Nat /\ DueNext(t) = Due(t) + d[t] /\ Lasts(elapsed', t, d[t])
  <2>1. DueNext("main") = Due("main") + dt /\ DueNext("fixed") = Due("fixed") + 0
    BY <1>1, <1>2 DEF Due, DueNext
  <2>2. d["main"] = dt /\ d["fixed"] = 0
    BY DEF Trees
  <2> HIDE DEF d
  <2>3. QED
    BY <1>2, <1>4, <1>5, <2>1, <2>2 DEF Trees
<1>7. /\ step' \in Steps /\ passed' \in 0 .. MaxTime /\ since' \in 0 .. passed'
      /\ step' = 0 => since' = 0
  BY <1>1, <1>2, <1>3
<1>8. catchingUp' \in BOOLEAN /\ (catchingUp' <=> step' > 0 /\ since' >= step')
  <2>1. (since + dt >= step) <=> step' > 0 /\ since' >= step'
    BY <1>1, <1>2
  <2>2. CASE since + dt >= step
    <3>1. catchingUp' = TRUE
      BY <1>1, <2>2
    <3>2. QED
      BY <2>1, <2>2, <3>1
  <2>3. CASE ~(since + dt >= step)
    <3> DEFINE again == since + dt >= step
    <3>0. catchingUp' = again /\ ~again
      BY <1>1, <2>3
    <3> HIDE DEF again
    <3>1. catchingUp' = FALSE
      BY <3>0
    <3>2. QED
      BY <2>1, <2>3, <3>1
  <2>4. QED
    BY <2>2, <2>3
<1>9. \A s \in AllSystems : s \notin InTrees => elapsed'[s] = elapsed[s]
  BY <1>4 DEF InTrees
<1> HIDE DEF d
<1>10. QED
  BY <1>1, <1>4, <1>6, <1>7, <1>8, <1>9, TimePasses

LEMMA FixedUpdateOnTime ==
    ASSUME Placed, OnTime, NEW closed \in SUBSET Hooked, FixedUpdate(closed)
    PROVE  OnTime'
<1>1. /\ catchingUp /\ passed' = passed
      /\ elapsed' = Ran(RunOrder(tree["fixed"], closed), step)
      /\ tree' = tree /\ joined' = joined /\ step' = step /\ since' = since - step
      /\ catchingUp' = (since - step >= step)
  BY DEF FixedUpdate
<1>2. /\ step \in Nat /\ passed \in Nat /\ since \in Nat /\ MaxTime \in Nat
      /\ since <= passed /\ passed <= MaxTime
  BY Hours
<1>3. Parted /\ elapsed \in [AllSystems -> Nat] /\ step \in Steps /\ step > 0 /\ since >= step
  BY <1>1 DEF Placed, OnTime
<1>4. /\ elapsed' \in [AllSystems -> Nat]
      /\ \A s \in AllSystems : s \notin SystemsIn(tree["fixed"]) => elapsed'[s] = elapsed[s]
      /\ Lasts(elapsed', "fixed", step)
  BY <1>1, <1>2, <1>3, TreeRuns DEF Trees
<1>5. Lasts(elapsed', "main", 0)
  <2>1. /\ SystemsIn(tree["main"]) \cap SystemsIn(tree["fixed"]) = {}
        /\ SystemsIn(tree["main"]) \subseteq AllSystems
    BY <1>3, SystemsKnown DEF Parted, Trees
  <2>2. \A s \in SystemsIn(tree["main"]) : elapsed'[s] = elapsed[s] /\ elapsed[s] \in Nat
    BY <1>3, <1>4, <2>1
  <2>3. QED
    BY <2>2 DEF Lasts
<1> DEFINE d == [t \in Trees |-> IF t = "main" THEN 0 ELSE step]
<1>6. \A t \in Trees : d[t] \in Nat /\ DueNext(t) = Due(t) + d[t] /\ Lasts(elapsed', t, d[t])
  <2>1. DueNext("main") = Due("main") + 0 /\ DueNext("fixed") = Due("fixed") + step
    BY <1>1, <1>2 DEF Due, DueNext
  <2>2. d["main"] = 0 /\ d["fixed"] = step
    BY DEF Trees
  <2> HIDE DEF d
  <2>3. QED
    BY <1>2, <1>4, <1>5, <2>1, <2>2 DEF Trees
<1>7. /\ step' \in Steps /\ passed' \in 0 .. MaxTime /\ since' \in 0 .. passed'
      /\ step' = 0 => since' = 0
  BY <1>1, <1>2, <1>3
<1>8. catchingUp' \in BOOLEAN /\ (catchingUp' <=> step' > 0 /\ since' >= step')
  <2>1. (since - step >= step) <=> step' > 0 /\ since' >= step'
    BY <1>1, <1>2, <1>3
  <2>2. CASE since - step >= step
    <3>1. catchingUp' = TRUE
      BY <1>1, <2>2
    <3>2. QED
      BY <2>1, <2>2, <3>1
  <2>3. CASE ~(since - step >= step)
    <3> DEFINE again == since - step >= step
    <3>0. catchingUp' = again /\ ~again
      BY <1>1, <2>3
    <3> HIDE DEF again
    <3>1. catchingUp' = FALSE
      BY <3>0
    <3>2. QED
      BY <2>1, <2>3, <3>1
  <2>4. QED
    BY <2>2, <2>3
<1>9. \A s \in AllSystems : s \notin InTrees => elapsed'[s] = elapsed[s]
  BY <1>4 DEF InTrees
<1> HIDE DEF d
<1>10. QED
  BY <1>1, <1>4, <1>6, <1>7, <1>8, <1>9, TimePasses

-----------------------------------------------------------------------------
(* The pools each subscriber holds.                                          *)

LEMMA JoinedSubscribe ==
    ASSUME Placed
    PROVE  DOMAIN joined \subseteq Subscribers
<1>1. SystemsIn(tree["main"]) \subseteq AllSystems /\ SystemsIn(tree["fixed"]) \subseteq AllSystems
  BY SystemsKnown DEF Placed, Parted, Trees
<1>2. QED
  BY <1>1 DEF Placed, InTrees, Subscribers

LEMMA ServedStays ==
    ASSUME Served, UNCHANGED <<pools, query>>, DOMAIN joined' = DOMAIN joined,
           Unoffered' \subseteq Unoffered
    PROVE  Served'
BY DEF Served, Subscribers

LEMMA ServedSubscribed ==
    ASSUME Placed, Served, NEW set, set \subseteq Unoffered, set \subseteq Subscribers,
           query' = Subscribed(set), UNCHANGED pools,
           DOMAIN joined' \subseteq DOMAIN joined \cup set,
           Unoffered' \cap set = {}, Unoffered' \subseteq Unoffered
    PROVE  Served'
<1>1. /\ pools \in Seq(Pools) /\ query \in [Subscribers -> Seq(Pools)]
      /\ \A s \in Unoffered : query[s] = <<>>
      /\ \A s \in DOMAIN joined : query[s] = Matching(s, pools)
      /\ \A s \in Subscribers : IsPrefix(query[s], Matching(s, pools))
  BY DEF Served
<1>2. \A s \in Subscribers : Matching(s, pools) \in Seq(Pools)
  BY <1>1, MatchingIs
<1>3. \A s \in set : query[s] \o Matching(s, pools) = Matching(s, pools)
  <2> TAKE s \in set
  <2>1. query[s] = <<>> /\ Matching(s, pools) \in Seq(Pools)
    BY <1>1, <1>2
  <2>2. \A q \in Seq(Pools) : <<>> \o q = q
    OBVIOUS
  <2>3. QED
    BY <2>1, <2>2
<1>4. \A s \in Subscribers : query'[s] = IF s \in set THEN Matching(s, pools) ELSE query[s]
  BY <1>3 DEF Subscribed
<1>5. query' \in [Subscribers -> Seq(Pools)]
  <2>1. \A s \in Subscribers :
            (IF s \in set THEN query[s] \o Matching(s, pools) ELSE query[s]) \in Seq(Pools)
    BY <1>1, <1>2, <1>3
  <2>2. QED
    BY <2>1 DEF Subscribed
<1>6. \A s \in Unoffered' : query'[s] = <<>>
  <2>1. Unoffered \subseteq Subscribers
    BY DEF Unoffered, Subscribers, AllSystems
  <2>2. QED
    BY <1>1, <1>4, <2>1
<1>7. \A s \in DOMAIN joined' : query'[s] = Matching(s, pools)
  BY <1>1, <1>4, JoinedSubscribe
<1>8. \A s \in Subscribers : IsPrefix(query'[s], Matching(s, pools))
  <2> TAKE s \in Subscribers
  <2>1. IsPrefix(Matching(s, pools), Matching(s, pools))
    BY <1>2, PrefixIs
  <2>2. QED
    BY <1>1, <1>4, <2>1
<1>9. QED
  BY <1>1, <1>5, <1>6, <1>7, <1>8 DEF Served, Subscribers

LEMMA ServedOffered ==
    ASSUME Placed, Served, NEW p \in Pools, RegisterEntityPool(p)
    PROVE  Served'
<1>1. /\ pools \in Seq(Pools) /\ query \in [Subscribers -> Seq(Pools)]
      /\ \A s \in Unoffered : query[s] = <<>>
      /\ \A s \in DOMAIN joined : query[s] = Matching(s, pools)
      /\ \A s \in Subscribers : IsPrefix(query[s], Matching(s, pools))
  BY DEF Served
<1>2. /\ pools' = Append(pools, p) /\ tree' = tree /\ joined' = joined /\ offered' = offered
      /\ query' = [s \in Subscribers |->
             query[s] \o FlattenSeq([k \in 1 .. Times(s, Everything) |-> Matching(s, <<p>>)])]
  BY DEF RegisterEntityPool
<1>3. Unoffered' = Unoffered /\ Unoffered \cap DOMAIN joined = {}
  BY <1>2 DEF Placed, Unoffered
<1>4. pools' \in Seq(Pools) /\ <<p>> \in Seq(Pools)
  BY <1>1, <1>2
<1>5. \A s \in Subscribers : /\ Matching(s, pools) \in Seq(Pools)
                             /\ Matching(s, <<p>>) \in Seq(Pools)
                             /\ Matching(s, pools') = Matching(s, pools) \o Matching(s, <<p>>)
  BY <1>1, <1>2, <1>4, MatchingIs, MatchingAppend
<1>6. \A q \in Seq(Pools) : q \o <<>> = q
  OBVIOUS
<1>7. \A s \in Subscribers :
          query'[s] = IF s \in DOMAIN joined THEN query[s] \o Matching(s, <<p>>) ELSE query[s]
  <2> TAKE s \in Subscribers
  <2>0. /\ Parted /\ Matching(s, <<p>>) \in Seq(Pools)
        /\ DOMAIN joined = SystemsIn(tree["main"]) \cup SystemsIn(tree["fixed"])
    BY <1>5 DEF Placed, InTrees
  <2>1. FlattenSeq([k \in 1 .. Times(s, Everything) |-> Matching(s, <<p>>)]) =
            IF s \in DOMAIN joined THEN Matching(s, <<p>>) ELSE <<>>
    BY <2>0, OfferedOnce
  <2>2. query'[s] =
            query[s] \o FlattenSeq([k \in 1 .. Times(s, Everything) |-> Matching(s, <<p>>)])
    BY <1>2
  <2>3. query[s] \in Seq(Pools)
    BY <1>1
  <2>4. QED
    BY <1>6, <2>1, <2>2, <2>3
<1>8. query' \in [Subscribers -> Seq(Pools)]
  <2>1. \A s \in Subscribers : query'[s] \in Seq(Pools)
    <3> TAKE s \in Subscribers
    <3>1. query[s] \in Seq(Pools) /\ Matching(s, <<p>>) \in Seq(Pools)
      BY <1>1, <1>5
    <3>2. query[s] \o Matching(s, <<p>>) \in Seq(Pools)
      BY <3>1
    <3>3. QED
      BY <1>7, <3>1, <3>2
  <2>2. query' = [s \in Subscribers |-> query'[s]]
    BY <1>2
  <2>3. QED
    BY <2>1, <2>2
<1>9. \A s \in Unoffered' : query'[s] = <<>>
  <2>1. Unoffered \subseteq Subscribers
    BY DEF Unoffered, Subscribers, AllSystems
  <2>2. QED
    BY <1>1, <1>3, <1>7, <2>1
<1>10. \A s \in DOMAIN joined' : query'[s] = Matching(s, pools')
  BY <1>1, <1>2, <1>5, <1>7, JoinedSubscribe
<1>11. \A s \in Subscribers : IsPrefix(query'[s], Matching(s, pools'))
  <2> TAKE s \in Subscribers
  <2>1. CASE s \in DOMAIN joined
    <3>1. query'[s] = Matching(s, pools') /\ Matching(s, pools') \in Seq(Pools)
      BY <1>2, <1>4, <1>10, <2>1, MatchingIs
    <3>2. QED
      BY <3>1, PrefixIs
  <2>2. CASE s \notin DOMAIN joined
    <3>1. query'[s] = query[s] /\ query[s] \in Seq(Pools)
      BY <1>1, <1>7, <2>2
    <3>2. IsPrefix(query[s], Matching(s, pools) \o Matching(s, <<p>>))
      BY <1>1, <1>5, <3>1, PrefixIs
    <3>3. QED
      BY <1>5, <3>1, <3>2
  <2>3. QED
    BY <2>1, <2>2
<1>12. QED
  BY <1>4, <1>8, <1>9, <1>10, <1>11 DEF Served, Subscribers

-----------------------------------------------------------------------------
(* The steps.                                                                *)

LEMMA EnteredIs ==
    ASSUME NEW set, NEW t, joined' = Joining(set, t)
    PROVE  Entered(set, t)
BY DEF Joining, Entered

LEMMA MayOnce ==
    ASSUME NothingTwice, NEW x, May(x)
    PROVE  x \notin offered
BY DEF May, NothingTwice

LEMMA GroupStep ==
    ASSUME NothingTwice, SystemsInvariant, NEW t \in Trees, NEW target, NEW new \in Groups,
           NEW before \in BOOLEAN, NEW inside \in BOOLEAN,
           RegisterSystemGroup(t, target, new, before, inside)
    PROVE  SystemsInvariant'
<1> DEFINE lone == <<Node(new, 0, <<>>, <<>>)>>
           a == [tree |-> t, new |-> new, target |-> target, before |-> before, inside |-> inside]
<1>1. /\ \A u \in Trees : \A i \in DOMAIN tree[u] : tree[u][i].group # new
      /\ \E i \in Targets(tree[t], target, inside) :
             tree' = [tree EXCEPT ![t] = Grafted(tree[t], lone, i, before, inside)]
      /\ asked' = asked \cup {a}
      /\ UNCHANGED <<pools, query, offered, joined, timeVars>>
  BY DEF RegisterSystemGroup
<1>2. PICK i \in Targets(tree[t], target, inside) :
          tree' = [tree EXCEPT ![t] = Grafted(tree[t], lone, i, before, inside)]
  BY <1>1
<1>3. Placed /\ Served /\ Obeyed /\ OnTime /\ Parted
  BY DEF SystemsInvariant, Placed
<1>4. /\ IsTree(lone) /\ PlacedOnce(lone) /\ Named(lone)
      /\ SystemsIn(lone) = {} /\ GroupsIn(lone) = {new} /\ lone[1].group = new
  BY LoneIs
<1> HIDE DEF lone
<1>5. IsTree(tree[t]) /\ PlacedOnce(tree[t]) /\ Named(tree[t]) /\ DOMAIN tree = Trees
  BY <1>3 DEF Parted
<1>6. GroupsIn(tree[t]) \cap GroupsIn(lone) = {} /\ SystemsIn(tree[t]) \cap SystemsIn(lone) = {}
  <2>1. new \notin GroupsIn(tree[t])
    BY <1>1 DEF GroupsIn
  <2>2. QED
    BY <1>4, <2>1
<1>7. Gains(tree[t], Grafted(tree[t], lone, i, before, inside), {}, {new})
  <2>1. Gains(tree[t], Grafted(tree[t], lone, i, before, inside), SystemsIn(lone), GroupsIn(lone))
    BY <1>4, <1>5, <1>6, GraftGains
  <2>2. QED
    BY <1>4, <2>1
<1>8. tree'[t] = Grafted(tree[t], lone, i, before, inside)
  BY <1>2, <1>5
<1>9. Extended(t, {}, {new})
  BY <1>2, <1>5, <1>7, <1>8 DEF Extended
<1>10. Unoffered' = Unoffered
  BY <1>1 DEF Unoffered
<1>11. Arrives(t, {}, {new})
  <2>1. Entered({}, t)
    BY <1>1 DEF Entered
  <2>2. \A b \in Branches : GroupsIn(b) \cap {new} = {}
    BY BranchIs
  <2>3. QED
    BY <1>1, <1>9, <1>10, <2>1, <2>2 DEF Arrives
<1>12. Placed'
  BY <1>3, <1>11, Hours, PlacedStays
<1>13. Served'
  BY <1>1, <1>3, <1>10, ServedStays
<1>14. OnTime'
  BY <1>1, <1>3, <1>11, OnTimeStays
<1>15. \E j, k \in DOMAIN tree'[t] : Stands(a, tree'[t], j, k)
  BY <1>4, <1>5, <1>8, GraftStands
<1>16. Obeyed'
  <2>1. a.tree = t /\ a.inside \in BOOLEAN /\ a.before \in BOOLEAN
    OBVIOUS
  <2> HIDE DEF a
  <2>2. ASSUME NEW c \in asked'
        PROVE  /\ c.tree \in Trees /\ c.inside \in BOOLEAN /\ c.before \in BOOLEAN
               /\ \E j, k \in DOMAIN tree'[c.tree] : Stands(c, tree'[c.tree], j, k)
    <3>1. CASE c \in asked
      BY <1>3, <1>11, <3>1, ObeyedStays
    <3>2. CASE c = a
      BY <1>15, <2>1, <3>2
    <3>3. QED
      BY <1>1, <3>1, <3>2
  <2>3. QED
    BY <2>2 DEF Obeyed
<1>17. QED
  BY <1>12, <1>13, <1>14, <1>16 DEF SystemsInvariant

LEMMA SystemStep ==
    ASSUME NothingTwice, SystemsInvariant, NEW t \in Trees, NEW s \in Systems, NEW group,
           NEW atStart \in BOOLEAN, RegisterSystem(t, s, group, atStart)
    PROVE  SystemsInvariant'
<1>1. /\ May(s) /\ offered' = offered \cup {s} /\ query' = Subscribed({s})
      /\ \/ /\ \E i \in Targets(tree[t], group, TRUE) :
                   tree' = [tree EXCEPT ![t] = WithSystem(tree[t], i, s, atStart)]
            /\ joined' = Joining({s}, t)
         \/ UNCHANGED <<tree, joined>>
      /\ UNCHANGED <<pools, asked, timeVars>>
  BY DEF RegisterSystem
<1>2. Placed /\ Served /\ Obeyed /\ OnTime /\ Parted
  BY DEF SystemsInvariant, Placed
<1>3. s \notin offered /\ Claim(s, {s})
  BY <1>1, MayOnce DEF Claim
<1>4. /\ {s} \subseteq Unoffered /\ {s} \subseteq Subscribers
      /\ {s} \cap Unoffered' = {} /\ Unoffered' \subseteq Unoffered
  BY <1>1, <1>3, Claimed
<1>5. s \in AllSystems /\ s \notin InTrees
  BY <1>2, <1>4 DEF AllSystems, Placed
<1>6. offered \subseteq offered'
  BY <1>1
<1>7. \E u \in Trees, systems \in {{}, {s}} : Arrives(u, systems, {})
  <2>1. CASE UNCHANGED <<tree, joined>>
    BY <1>2, <1>4, <1>6, <2>1, NothingRegistered DEF Trees
  <2>2. ASSUME NEW i \in Targets(tree[t], group, TRUE),
               tree' = [tree EXCEPT ![t] = WithSystem(tree[t], i, s, atStart)],
               joined' = Joining({s}, t)
        PROVE  Arrives(t, {s}, {})
    <3>1. IsTree(tree[t]) /\ PlacedOnce(tree[t]) /\ Named(tree[t]) /\ DOMAIN tree = Trees
      BY <1>2 DEF Parted
    <3>2. s \notin SystemsIn(tree[t]) /\ i \in DOMAIN tree[t]
      BY <1>5 DEF InTrees, Trees, Targets
    <3>3. Gains(tree[t], WithSystem(tree[t], i, s, atStart), {s}, {})
      BY <1>5, <3>1, <3>2, SystemGains
    <3>4. tree'[t] = WithSystem(tree[t], i, s, atStart)
      BY <2>2, <3>1
    <3>5. Extended(t, {s}, {})
      BY <1>5, <2>2, <3>1, <3>3, <3>4 DEF Extended
    <3>6. Entered({s}, t)
      BY <2>2, EnteredIs
    <3>7. QED
      BY <1>4, <1>5, <1>6, <3>5, <3>6 DEF Arrives
  <2>3. QED
    BY <1>1, <2>1, <2>2
<1>8. PICK u \in Trees, systems \in {{}, {s}} : Arrives(u, systems, {})
  BY <1>7
<1>9. Placed'
  BY <1>2, <1>8, Hours, PlacedStays
<1>10. OnTime'
  BY <1>1, <1>2, <1>8, OnTimeStays
<1>11. Served'
  <2>1. DOMAIN joined' \subseteq DOMAIN joined \cup {s}
    BY <1>8 DEF Arrives, Entered
  <2>2. QED
    BY <1>1, <1>2, <1>4, <2>1, ServedSubscribed
<1>12. Obeyed'
  BY <1>1, <1>2, <1>8, ObeyedStays DEF Obeyed
<1>13. QED
  BY <1>9, <1>10, <1>11, <1>12 DEF SystemsInvariant

LEMMA NodeStep ==
    ASSUME NothingTwice, SystemsInvariant, NEW t \in Trees, NEW b \in Branches, NEW target,
           NEW before \in BOOLEAN, NEW inside \in BOOLEAN,
           RegisterSystemNode(t, b, target, before, inside)
    PROVE  SystemsInvariant'
<1> DEFINE set == SystemsIn(b)
           a == [tree |-> t, new |-> b[1].group, target |-> target,
                 before |-> before, inside |-> inside]
<1>1. /\ May(b[1].group) /\ offered' = offered \cup {b[1].group} /\ query' = Subscribed(set)
      /\ \/ /\ \E i \in Targets(tree[t], target, inside) :
                   tree' = [tree EXCEPT ![t] = Grafted(tree[t], b, i, before, inside)]
            /\ joined' = Joining(set, t)
            /\ asked' = asked \cup {a}
         \/ UNCHANGED <<tree, joined, asked>>
      /\ UNCHANGED <<pools, timeVars>>
  BY DEF RegisterSystemNode
<1>2. Placed /\ Served /\ Obeyed /\ OnTime /\ Parted
  BY DEF SystemsInvariant, Placed
<1>3. /\ IsTree(b) /\ PlacedOnce(b) /\ Named(b) /\ set \subseteq AllSystems
      /\ b[1].group \in GroupsIn(b)
      /\ \A c \in Branches : b # c => Unlike(b, c)
  BY BranchIs
<1>4. b[1].group \notin offered /\ Claim(b[1].group, set)
  BY <1>1, MayOnce DEF Claim
<1>5. /\ set \subseteq Unoffered /\ set \subseteq Subscribers
      /\ set \cap Unoffered' = {} /\ Unoffered' \subseteq Unoffered
  BY <1>1, <1>4, Claimed
<1>6. set \cap InTrees = {} /\ offered \subseteq offered'
  BY <1>1, <1>2, <1>5 DEF Placed
<1>7. CASE UNCHANGED <<tree, joined, asked>>
  <2>1. Arrives("main", {}, {})
    BY <1>2, <1>5, <1>6, <1>7, NothingRegistered
  <2>2. Placed'
    BY <1>2, <2>1, Hours, PlacedStays
  <2>3. OnTime'
    BY <1>1, <1>2, <2>1, OnTimeStays
  <2>4. Served'
    BY <1>1, <1>2, <1>5, <1>7, ServedSubscribed
  <2>5. Obeyed'
    BY <1>2, <1>7 DEF Obeyed
  <2>6. QED
    BY <2>2, <2>3, <2>4, <2>5 DEF SystemsInvariant
<1>8. ASSUME NEW i \in Targets(tree[t], target, inside),
             tree' = [tree EXCEPT ![t] = Grafted(tree[t], b, i, before, inside)],
             joined' = Joining(set, t),
             asked' = asked \cup {a}
      PROVE  SystemsInvariant'
  <2>1. IsTree(tree[t]) /\ PlacedOnce(tree[t]) /\ Named(tree[t]) /\ DOMAIN tree = Trees
    BY <1>2 DEF Parted
  <2>2. SystemsIn(tree[t]) \cap SystemsIn(b) = {} /\ GroupsIn(tree[t]) \cap GroupsIn(b) = {}
    BY <1>2, <1>4, <1>6 DEF InTrees, Trees, Placed
  <2>3. Gains(tree[t], Grafted(tree[t], b, i, before, inside), set, GroupsIn(b))
    BY <1>3, <2>1, <2>2, GraftGains
  <2>4. tree'[t] = Grafted(tree[t], b, i, before, inside)
    BY <1>8, <2>1
  <2>5. Extended(t, set, GroupsIn(b))
    BY <1>6, <1>8, <2>1, <2>3, <2>4 DEF Extended
  <2>6. Entered(set, t)
    BY <1>8, EnteredIs
  <2>7. \A c \in Branches : c[1].group \notin offered' =>
            c[1].group \notin offered /\ GroupsIn(c) \cap GroupsIn(b) = {}
    <3> TAKE c \in Branches
    <3>1. CASE c = b
      BY <1>1, <3>1
    <3>2. CASE c # b
      BY <1>3, <1>6, <3>2 DEF Unlike
    <3>3. QED
      BY <3>1, <3>2
  <2>8. Arrives(t, set, GroupsIn(b))
    BY <1>3, <1>5, <2>5, <2>6, <2>7 DEF Arrives
  <2>9. Placed'
    BY <1>2, <2>8, Hours, PlacedStays
  <2>10. OnTime'
    BY <1>1, <1>2, <2>8, OnTimeStays
  <2>11. Served'
    <3>1. DOMAIN joined' \subseteq DOMAIN joined \cup set
      BY <2>6 DEF Entered
    <3>2. QED
      BY <1>1, <1>2, <1>5, <3>1, ServedSubscribed
  <2>12. \E j, k \in DOMAIN tree'[t] : Stands(a, tree'[t], j, k)
    BY <1>3, <2>1, <2>4, GraftStands
  <2>13. Obeyed'
    <3>1. a.tree = t /\ a.inside \in BOOLEAN /\ a.before \in BOOLEAN
      OBVIOUS
    <3> HIDE DEF a
    <3>2. ASSUME NEW c \in asked'
          PROVE  /\ c.tree \in Trees /\ c.inside \in BOOLEAN /\ c.before \in BOOLEAN
                 /\ \E j, k \in DOMAIN tree'[c.tree] : Stands(c, tree'[c.tree], j, k)
      <4>1. CASE c \in asked
        BY <1>2, <2>8, <4>1, ObeyedStays
      <4>2. CASE c = a
        BY <2>12, <3>1, <4>2
      <4>3. QED
        BY <1>8, <4>1, <4>2
    <3>3. QED
      BY <3>2 DEF Obeyed
  <2>14. QED
    BY <2>9, <2>10, <2>11, <2>13 DEF SystemsInvariant
<1>9. QED
  BY <1>1, <1>7, <1>8

LEMMA PoolStep ==
    ASSUME SystemsInvariant, NEW p \in Pools, RegisterEntityPool(p)
    PROVE  SystemsInvariant'
<1>1. Placed /\ Served /\ Obeyed /\ OnTime
  BY DEF SystemsInvariant
<1>2. UNCHANGED <<tree, offered, joined, asked, timeVars>>
  BY DEF RegisterEntityPool
<1>3. Unoffered' \subseteq Unoffered
  BY <1>2 DEF Unoffered
<1>4. Arrives("main", {}, {})
  BY <1>1, <1>2, <1>3, NothingRegistered
<1>5. Placed' /\ OnTime'
  BY <1>1, <1>2, <1>4, Hours, PlacedStays, OnTimeStays
<1>6. Served'
  BY <1>1, ServedOffered
<1>7. Obeyed'
  BY <1>1, <1>2 DEF Obeyed
<1>8. QED
  BY <1>5, <1>6, <1>7 DEF SystemsInvariant

LEMMA QueryStep ==
    ASSUME NothingTwice, SystemsInvariant, NEW q \in Queries, InitializeQuery(q)
    PROVE  SystemsInvariant'
<1>1. Placed /\ Served /\ Obeyed /\ OnTime
  BY DEF SystemsInvariant
<1>2. /\ May(q) /\ offered' = offered \cup {q} /\ query' = Subscribed({q})
      /\ UNCHANGED <<tree, pools, joined, asked, timeVars>>
  BY DEF InitializeQuery
<1>3. q \notin offered /\ Claim(q, {q})
  BY <1>2, MayOnce DEF Claim
<1>4. /\ {q} \subseteq Unoffered /\ {q} \subseteq Subscribers
      /\ {q} \cap Unoffered' = {} /\ Unoffered' \subseteq Unoffered
  BY <1>2, <1>3, Claimed
<1>5. Arrives("main", {}, {})
  BY <1>1, <1>2, <1>4, NothingRegistered
<1>6. Placed' /\ OnTime'
  BY <1>1, <1>2, <1>5, Hours, PlacedStays, OnTimeStays
<1>7. Served'
  BY <1>1, <1>2, <1>4, ServedSubscribed
<1>8. Obeyed'
  BY <1>1, <1>2 DEF Obeyed
<1>9. QED
  BY <1>6, <1>7, <1>8 DEF SystemsInvariant

LEMMA TimeStep ==
    ASSUME SystemsInvariant, UNCHANGED <<tree, pools, query, offered, joined, asked>>, OnTime'
    PROVE  SystemsInvariant'
<1>1. Placed /\ Served /\ Obeyed /\ OnTime
  BY DEF SystemsInvariant
<1>2. Unoffered' \subseteq Unoffered
  BY DEF Unoffered
<1>3. Arrives("main", {}, {})
  BY <1>1, <1>2, NothingRegistered
<1>4. Placed'
  BY <1>1, <1>3, Hours, PlacedStays
<1>5. Served'
  BY <1>1, <1>2, ServedStays
<1>6. Obeyed'
  BY <1>1 DEF Obeyed
<1>7. QED
  BY <1>4, <1>5, <1>6 DEF SystemsInvariant

LEMMA Starts ==
    ASSUME NothingTwice, Init
    PROVE  SystemsInvariant
<1>1. /\ tree = [t \in Trees |-> <<Node(Root(t), 0, <<>>, <<>>)>>]
      /\ pools = <<>> /\ query = [s \in Subscribers |-> <<>>] /\ asked = {}
      /\ joined = [s \in {} |-> 0]
      /\ step \in Steps /\ passed = 0 /\ since = 0 /\ catchingUp = FALSE
      /\ elapsed = [s \in AllSystems |-> 0]
  BY DEF Init
<1>2. \A t \in Trees : /\ IsTree(tree[t]) /\ PlacedOnce(tree[t]) /\ Named(tree[t])
                       /\ SystemsIn(tree[t]) = {} /\ GroupsIn(tree[t]) \subseteq Roots
  <2> TAKE t \in Trees
  <2>1. Root(t) \in Roots /\ tree[t] = <<Node(Root(t), 0, <<>>, <<>>)>>
    BY <1>1 DEF Root, Roots
  <2>2. QED
    BY <2>1, LoneIs
<1>3. DOMAIN tree = Trees /\ DOMAIN joined = {}
  BY <1>1
<1>4. InTrees = {}
  BY <1>2 DEF InTrees, Trees
<1>5. Parted
  BY <1>2, <1>3, <1>4 DEF Parted, InTrees
<1>6. Placed
  <2>1. \A b \in Branches, t \in Trees : GroupsIn(tree[t]) \cap GroupsIn(b) = {}
    BY <1>2, BranchIs
  <2>2. QED
    BY <1>3, <1>4, <1>5, <2>1 DEF Placed
<1>7. Served
  <2>1. \A s \in Subscribers : query[s] = <<>>
    BY <1>1
  <2>2. Unoffered \subseteq Subscribers
    BY DEF Unoffered, Subscribers, AllSystems
  <2>3. <<>> \in Seq(Pools)
    OBVIOUS
  <2>4. query \in [Subscribers -> Seq(Pools)] /\ pools \in Seq(Pools)
    BY <1>1, <2>3
  <2>5. \A s \in Subscribers : IsPrefix(query[s], Matching(s, pools))
    BY <1>1, <2>1, <2>3, MatchingNothing, PrefixIs
  <2>6. QED
    BY <1>3, <2>1, <2>2, <2>4, <2>5 DEF Served
<1>8. Obeyed
  BY <1>1 DEF Obeyed
<1>9. OnTime
  <2>1. MaxTime \in Nat /\ Steps \subseteq Nat
    BY SchedulerAssumption
  <2>2. step \in Nat
    BY <1>1, <2>1
  <2>3. /\ step \in Steps /\ passed \in 0 .. MaxTime /\ since \in 0 .. passed
        /\ step = 0 => since = 0
    BY <1>1, <2>1
  <2>4. catchingUp \in BOOLEAN /\ (catchingUp <=> step > 0 /\ since >= step)
    <3>1. ~(step > 0 /\ since >= step)
      BY <1>1, <2>2
    <3>2. QED
      BY <1>1, <3>1
  <2>5. elapsed \in [AllSystems -> Nat] /\ \A s \in AllSystems : elapsed[s] = 0
    BY <1>1
  <2>6. QED
    BY <1>3, <2>3, <2>4, <2>5 DEF OnTime
<1>10. QED
  BY <1>6, <1>7, <1>8, <1>9 DEF SystemsInvariant

LEMMA EveryStep ==
    ASSUME NothingTwice, SystemsInvariant, [Next]_vars
    PROVE  SystemsInvariant'
<1>1. ASSUME NEW t \in Trees, NEW target \in Names, NEW before \in BOOLEAN, NEW inside \in BOOLEAN,
             NEW new \in Groups, RegisterSystemGroup(t, target, new, before, inside)
      PROVE  SystemsInvariant'
  BY <1>1, GroupStep
<1>2. ASSUME NEW t \in Trees, NEW target \in Names, NEW before \in BOOLEAN, NEW inside \in BOOLEAN,
             NEW b \in Branches, RegisterSystemNode(t, b, target, before, inside)
      PROVE  SystemsInvariant'
  BY <1>2, NodeStep
<1>3. ASSUME NEW t \in Trees, NEW s \in Systems, NEW group \in Names, NEW atStart \in BOOLEAN,
             RegisterSystem(t, s, group, atStart)
      PROVE  SystemsInvariant'
  BY <1>3, SystemStep
<1>4. ASSUME NEW p \in Pools, RegisterEntityPool(p) PROVE SystemsInvariant'
  BY <1>4, PoolStep
<1>5. ASSUME NEW q \in Queries, InitializeQuery(q) PROVE SystemsInvariant'
  BY <1>5, QueryStep
<1>6. ASSUME NEW closed \in SUBSET Hooked, NEW dt \in FrameTimes, AddTime(dt, closed)
      PROVE  SystemsInvariant'
  <2>1. OnTime'
    BY <1>6, AddTimeOnTime DEF SystemsInvariant
  <2>2. UNCHANGED <<tree, pools, query, offered, joined, asked>>
    BY <1>6 DEF AddTime
  <2>3. QED
    BY <2>1, <2>2, TimeStep
<1>7. ASSUME NEW closed \in SUBSET Hooked, NEW dt \in FrameTimes, AddTimeUnfixed(dt, closed)
      PROVE  SystemsInvariant'
  <2>1. OnTime'
    BY <1>7, AddTimeUnfixedOnTime DEF SystemsInvariant
  <2>2. UNCHANGED <<tree, pools, query, offered, joined, asked>>
    BY <1>7 DEF AddTimeUnfixed
  <2>3. QED
    BY <2>1, <2>2, TimeStep
<1>8. ASSUME NEW closed \in SUBSET Hooked, FixedUpdate(closed)
      PROVE  SystemsInvariant'
  <2>1. OnTime'
    BY <1>8, FixedUpdateOnTime DEF SystemsInvariant
  <2>2. UNCHANGED <<tree, pools, query, offered, joined, asked>>
    BY <1>8 DEF FixedUpdate
  <2>3. QED
    BY <2>1, <2>2, TimeStep
<1>9. ASSUME UNCHANGED vars PROVE SystemsInvariant'
  <2>1. UNCHANGED <<tree, pools, query, offered, joined, asked, step, passed, since,
                    catchingUp, elapsed>>
    BY <1>9 DEF vars
  <2>2. OnTime'
    BY <2>1 DEF SystemsInvariant, OnTime, Due
  <2>3. QED
    BY <2>1, <2>2, TimeStep
<1>10. QED
  BY <1>1, <1>2, <1>3, <1>4, <1>5, <1>6, <1>7, <1>8, <1>9 DEF Next

\* A program that registers nothing twice keeps the four parts: each system in
\* one place, with the pools it should have, where it was asked to run, and run
\* for the time there was.
THEOREM SystemsInvariantHolds ==
    ASSUME NothingTwice
    PROVE  Spec => []SystemsInvariant
<1>1. Init => SystemsInvariant
  BY Starts
<1>2. SystemsInvariant /\ [Next]_vars => SystemsInvariant'
  BY EveryStep
<1>3. QED
  BY <1>1, <1>2, PTL DEF Spec

-----------------------------------------------------------------------------
(* What it says.                                                             *)

LEMMA TypesFollow == ASSUME SystemsInvariant PROVE TypeOK
<1>1. Placed /\ Served /\ OnTime /\ Parted
  BY DEF SystemsInvariant, Placed
<1>2. /\ step \in Nat /\ passed \in Nat /\ since \in Nat /\ MaxTime \in Nat
      /\ passed <= MaxTime /\ since <= passed
  BY <1>1, Hours
<1>3. /\ step \in Steps
      /\ catchingUp \in BOOLEAN /\ (catchingUp <=> step > 0 /\ since >= step)
      /\ elapsed \in [AllSystems -> Nat]
      /\ \A s \in AllSystems : s \notin DOMAIN joined => elapsed[s] = 0
      /\ \A s \in DOMAIN joined :
             /\ DueThen(joined[s]) \in 0 .. Due(joined[s].tree)
             /\ elapsed[s] <= Due(joined[s].tree) - DueThen(joined[s])
  BY <1>1 DEF OnTime
<1>4. catchingUp = (step > 0 /\ since >= step)
  BY <1>3
<1>5. ASSUME NEW s \in AllSystems PROVE elapsed[s] \in 0 .. MaxTime
  <2>1. CASE s \notin DOMAIN joined
    BY <1>2, <1>3, <2>1
  <2>2. CASE s \in DOMAIN joined
    <3> DEFINE due == Due(joined[s].tree)
               then == DueThen(joined[s])
    <3>1. due \in Nat /\ due <= passed
      BY <1>2 DEF Due
    <3>2. then \in 0 .. due /\ elapsed[s] <= due - then /\ elapsed[s] \in Nat
      BY <1>3, <2>2
    <3> HIDE DEF due, then
    <3>3. QED
      BY <1>2, <3>1, <3>2
  <2>3. QED
    BY <2>1, <2>2
<1>6. elapsed \in [AllSystems -> 0 .. MaxTime]
  BY <1>3, <1>5
<1>7. passed \in 0 .. MaxTime /\ since \in 0 .. MaxTime
  BY <1>2
<1>8. pools \in Seq(Pools) /\ query \in [Subscribers -> Seq(Pools)]
  BY <1>1 DEF Served
<1>9. /\ DOMAIN tree = Trees /\ \A t \in Trees : IsTree(tree[t])
      /\ DOMAIN joined = SystemsIn(tree["main"]) \cup SystemsIn(tree["fixed"])
  BY <1>1 DEF Placed, Parted, InTrees
<1>10. QED
  BY <1>3, <1>4, <1>6, <1>7, <1>8, <1>9 DEF TypeOK

LEMMA OrderFollows == ASSUME SystemsInvariant PROVE GroupsRunWhereAsked
<1>1. Obeyed /\ Parted
  BY DEF SystemsInvariant, Placed
<1>2. ASSUME NEW a \in asked
      PROVE  LET nodes == tree[a.tree]
                 order == RunOrder(nodes, {})
                 node(g) == CHOOSE i \in DOMAIN nodes : nodes[i].group = g
                 below(g) == SystemsIn(SubSeq(nodes, node(g), LastBelow(nodes, node(g))))
             IN CASE a.inside -> /\ Precede(order, Range(nodes[node(a.target)].starts), below(a.new))
                                 /\ Precede(order, below(a.new), Range(nodes[node(a.target)].ends))
                  [] ~a.inside /\ a.before -> Precede(order, below(a.new), below(a.target))
                  [] OTHER -> Precede(order, below(a.target), below(a.new))
  <2> DEFINE nodes == tree[a.tree]
  <2>1. /\ a.tree \in Trees /\ a.inside \in BOOLEAN /\ a.before \in BOOLEAN
        /\ \E i, k \in DOMAIN nodes : Stands(a, nodes, i, k)
    BY <1>1 DEF Obeyed
  <2>2. IsTree(nodes) /\ PlacedOnce(nodes) /\ Named(nodes)
    BY <1>1, <2>1 DEF Parted
  <2>3. PICK i \in DOMAIN nodes, k \in DOMAIN nodes : Stands(a, nodes, i, k)
    BY <2>1
  <2> HIDE DEF nodes
  <2>4. LET order == RunOrder(nodes, {})
            node(g) == CHOOSE m \in DOMAIN nodes : nodes[m].group = g
            below(g) == SystemsIn(SubSeq(nodes, node(g), LastBelow(nodes, node(g))))
        IN CASE a.inside -> /\ Precede(order, Range(nodes[node(a.target)].starts), below(a.new))
                            /\ Precede(order, below(a.new), Range(nodes[node(a.target)].ends))
             [] ~a.inside /\ a.before -> Precede(order, below(a.new), below(a.target))
             [] OTHER -> Precede(order, below(a.target), below(a.new))
    BY <2>1, <2>2, <2>3, RunsThere
  <2>5. QED
    BY <2>4 DEF nodes
<1>3. QED
  BY <1>2 DEF GroupsRunWhereAsked, Precede

\* A callback above a system is above it in its tree.
LEMMA GatedIs ==
    ASSUME NEW nodes, IsTree(nodes), NEW s, Gated(nodes, s)
    PROVE  \E i \in DOMAIN nodes :
               /\ nodes[i].group \in Hooked
               /\ s \in SystemsIn(SubSeq(nodes, i, LastBelow(nodes, i)))
<1>1. PICK i \in DOMAIN nodes, k \in DOMAIN nodes :
          nodes[i].group \in Hooked /\ Under(nodes, i, k) /\ s \in SystemsAt(nodes[k])
  BY DEF Gated
<1>2. DOMAIN nodes = 1 .. Len(nodes)
  BY NodeParts
<1>3. k \in i .. LastBelow(nodes, i)
  BY <1>1, <1>2, UnderIs
<1>4. s \in Within(nodes, i, LastBelow(nodes, i))
  BY <1>1, <1>3 DEF Within
<1>5. s \in SystemsIn(SubSeq(nodes, i, LastBelow(nodes, i)))
  BY <1>4, SystemsBelow
<1>6. QED
  BY <1>1, <1>5

LEMMA TimesFollow == ASSUME SystemsInvariant PROVE TimeAddsUp
<1>1. Placed /\ OnTime /\ Parted
  BY DEF SystemsInvariant, Placed
<1>2. passed \in Nat /\ since \in Nat
  BY <1>1, Hours
<1>3. ASSUME NEW s \in DOMAIN joined
      PROVE  LET j == joined[s]
                 gated == \E i \in DOMAIN tree[j.tree] :
                              /\ tree[j.tree][i].group \in Hooked
                              /\ s \in SystemsIn(SubSeq(tree[j.tree], i,
                                                        LastBelow(tree[j.tree], i)))
                 owed == IF j.tree = "main" THEN 0 ELSE since - j.since
             IN IF gated THEN elapsed[s] <= passed - j.passed - owed
                ELSE elapsed[s] = passed - j.passed - owed
  <2> DEFINE j == joined[s]
             nodes == tree[j.tree]
             gated == \E i \in DOMAIN nodes :
                          /\ nodes[i].group \in Hooked
                          /\ s \in SystemsIn(SubSeq(nodes, i, LastBelow(nodes, i)))
             owed == IF j.tree = "main" THEN 0 ELSE since - j.since
  <2>1. j.tree \in Trees /\ j.passed \in Nat /\ j.since \in Nat
    BY <1>1 DEF Placed
  <2>2. /\ elapsed[s] <= Due(j.tree) - DueThen(j)
        /\ ~Gated(nodes, s) => elapsed[s] = Due(j.tree) - DueThen(j)
    BY <1>1 DEF OnTime
  <2>3. Gated(nodes, s) => gated
    <3>1. IsTree(nodes)
      BY <1>1, <2>1 DEF Parted
    <3> HIDE DEF nodes
    <3>2. QED
      BY <3>1, GatedIs
  <2>4. Due(j.tree) - DueThen(j) = passed - j.passed - owed
    <3> HIDE DEF j
    <3>1. QED
      BY <1>2, <2>1 DEF Due, DueThen
  <2> HIDE DEF gated, owed, j, nodes
  <2>5. IF gated THEN elapsed[s] <= passed - j.passed - owed
        ELSE elapsed[s] = passed - j.passed - owed
    BY <2>2, <2>3, <2>4
  <2>6. QED
    BY <2>5 DEF gated, owed, j, nodes
<1>4. QED
  BY <1>3 DEF TimeAddsUp

\* The trees, queries and clocks of the manager stay what they are: a run adds
\* no more time to a system than has passed.
THEOREM SchedulerTypes ==
    ASSUME NothingTwice
    PROVE  Spec => []TypeOK
BY SystemsInvariantHolds, TypesFollow, PTL

\* Whichever is registered first, systems and pools, and wherever: a system
\* that runs holds each pool with its components once, in their order.
THEOREM PoolsAllServed ==
    ASSUME NothingTwice
    PROVE  Spec => []QueriesMatchPools
<1>1. SystemsInvariant => QueriesMatchPools
  BY DEF SystemsInvariant, Served, QueriesMatchPools
<1>2. QED
  BY <1>1, SystemsInvariantHolds, PTL

\* Wherever registerSystemGroup and registerSystemNode put a group, it and the
\* one it was put into or next to keep running in the order asked for, however
\* the trees grow.
THEOREM OrderKept ==
    ASSUME NothingTwice
    PROVE  Spec => []GroupsRunWhereAsked
BY SystemsInvariantHolds, OrderFollows, PTL

\* Between calls of addTime no system has run for more or less than its time:
\* nothing is lost or run twice where the fixed steps catch up.
THEOREM TimeKept ==
    ASSUME NothingTwice
    PROVE  Spec => []TimeAddsUp
BY SystemsInvariantHolds, TimesFollow, PTL
=============================================================================
