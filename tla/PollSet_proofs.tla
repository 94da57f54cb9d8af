--------------------------- MODULE PollSet_proofs ---------------------------
(***************************************************************************)
(* What the context threads may assume of net::Poll, for any descriptors   *)
(* and any number of them: add, add_write, remove and remove_write keep    *)
(* one entry for each descriptor, and the events of a wait come in turn.   *)
(***************************************************************************)
EXTENDS PollSet, FiniteSets, FiniteSetTheorems, TLAPS

-----------------------------------------------------------------------------
(* Induction.  The theorems of the library take the formula as a parameter;  *)
(* these two take a set, and no parameter.                                   *)

\* A set of numbers that has 0 and the next of each has them all: else adding
\* one would map those below the missing one into one fewer.
LEMMA Induction ==
    ASSUME NEW S, S \subseteq Nat, 0 \in S, NEW m \in Nat,
           \A n \in S : n < m => n + 1 \in S
    PROVE  m \in S
<1> SUFFICES ASSUME m \notin S PROVE FALSE
  OBVIOUS
<1> DEFINE B == {n \in S : n < m}
           C == B \ {0}
           f == [n \in B |-> n + 1]
<1>1. \A n \in B : n + 1 \in C
  <2> TAKE n \in B
  <2>1. n + 1 \in S /\ n + 1 # m
    OBVIOUS
  <2>2. QED
    BY <2>1
<1>2. 0 \in B
  OBVIOUS
<1>3. IsFiniteSet(B) /\ IsFiniteSet(C) /\ Cardinality(C) = Cardinality(B) - 1
  <2>1. IsFiniteSet(B)
    BY FS_BoundedSetOfNaturals
  <2>2. QED
    BY <2>1, <1>2, FS_RemoveElement
<1>4. Cardinality(C) < Cardinality(B)
  <2>1. Cardinality(B) \in Nat
    BY <1>3, FS_CardinalityType
  <2>2. QED
    BY <1>3, <2>1
<1>5. f \in [B -> C]
  BY <1>1
<1>6. \E x, y \in B : x # y /\ f[x] = f[y]
  <2> HIDE DEF B, C, f
  <2>1. QED
    BY <1>3, <1>4, <1>5, FS_PigeonHole
<1>7. QED
  BY <1>6

\* What is defined from what comes before it is defined.
Steps(n, T) == [1 .. n -> [T -> T]]

Follows(f, n, T, base, step) ==
    f \in [0 .. n -> T] /\ f[0] = base /\ \A i \in 1 .. n : f[i] = step[i][f[i - 1]]

\* A function defined step by step exists.
LEMMA Recursion ==
    ASSUME NEW n \in Nat, NEW T, NEW base \in T, NEW step \in Steps(n, T)
    PROVE  \E f : Follows(f, n, T, base, step)
<1> USE DEF Steps
<1> DEFINE Upto(m) ==
               \E f \in [0 .. m -> T] : f[0] = base /\ \A i \in 1 .. m : f[i] = step[i][f[i - 1]]
           S == {m \in 0 .. n : Upto(m)}
<1>1. 0 \in S
  <2> DEFINE f == [i \in 0 .. 0 |-> base]
  <2>1. f \in [0 .. 0 -> T] /\ f[0] = base
    OBVIOUS
  <2>2. \A i \in 1 .. 0 : f[i] = step[i][f[i - 1]]
    OBVIOUS
  <2> HIDE DEF f
  <2>3. Upto(0)
    BY <2>1, <2>2
  <2>4. QED
    BY <2>3
<1>2. ASSUME NEW m \in S, m < n PROVE m + 1 \in S
  <2>1. m \in Nat /\ m + 1 \in 1 .. n /\ m + 1 \in 0 .. n
    BY <1>2
  <2>2. PICK f \in [0 .. m -> T] : f[0] = base /\ \A i \in 1 .. m : f[i] = step[i][f[i - 1]]
    OBVIOUS
  <2> DEFINE g == [i \in 0 .. m + 1 |-> IF i = m + 1 THEN step[m + 1][f[m]] ELSE f[i]]
  <2>3. f[m] \in T /\ step[m + 1] \in [T -> T]
    BY <2>1, <2>2
  <2>4. step[m + 1][f[m]] \in T
    BY <2>3
  <2>5. \A i \in 0 .. m + 1 : i # m + 1 => i \in 0 .. m
    BY <2>1
  <2>6. g \in [0 .. m + 1 -> T]
    BY <2>2, <2>4, <2>5
  <2>7. g[0] = base
    BY <2>1, <2>2
  <2>8. \A i \in 1 .. m + 1 : g[i] = step[i][g[i - 1]]
    <3> TAKE i \in 1 .. m + 1
    <3>1. /\ i \in 0 .. m + 1 /\ i - 1 \in 0 .. m + 1 /\ i - 1 # m + 1
          /\ i # m + 1 => i \in 1 .. m
          /\ i = m + 1 => i - 1 = m
      BY <2>1
    <3>2. QED
      BY <2>2, <3>1
  <2>9. QED
    BY <2>1, <2>6, <2>7, <2>8
<1>3. n \in S
  <2> HIDE DEF S
  <2>1. S \subseteq Nat
    BY DEF S
  <2>2. QED
    BY <1>1, <1>2, <2>1, Induction
<1>4. QED
  BY <1>3 DEF Follows

-----------------------------------------------------------------------------
(* The helper that leaves the entries at some positions. *)

\* Only, step by step.
Grows(u, fds, P, E) ==
    /\ u \in [0 .. Len(fds) -> Seq(E)]
    /\ u[0] = <<>>
    /\ \A i \in 1 .. Len(fds) :
           u[i] = IF i \in P THEN Append(u[i - 1], fds[i]) ELSE u[i - 1]

\* Only is what its steps come to.
LEMMA OnlyByStep ==
    ASSUME NEW E, NEW fds \in Seq(E), NEW P
    PROVE  \E u : Grows(u, fds, P, E) /\ Only(fds, P) = u[Len(fds)]
<1> DEFINE n == Len(fds)
           Body(u) == [i \in 0 .. n |-> IF i = 0 THEN <<>>
                                        ELSE IF i \in P THEN Append(u[i - 1], fds[i])
                                        ELSE u[i - 1]]
           step == [i \in 1 .. n |->
                       [x \in Seq(E) |-> IF i \in P THEN Append(x, fds[i]) ELSE x]]
           w == CHOOSE u : u = Body(u)
<1>1. n \in Nat /\ \A i \in 1 .. n : fds[i] \in E
  OBVIOUS
<1>2. Only(fds, P) = w[n]
  BY DEF Only
<1>3. step \in [1 .. n -> [Seq(E) -> Seq(E)]]
  BY <1>1
<1>4. PICK f \in [0 .. n -> Seq(E)] : f[0] = <<>> /\ \A i \in 1 .. n : f[i] = step[i][f[i - 1]]
  <2> DEFINE T == Seq(E)
             base == <<>>
  <2>1. n \in Nat /\ base \in T /\ step \in Steps(n, T)
    BY <1>1, <1>3 DEF Steps
  <2> HIDE DEF step, n, T, base
  <2>2. \E f : Follows(f, n, T, base, step)
    BY <2>1, Recursion
  <2>3. QED
    BY <2>2 DEF Follows, T, base
<1>5. \A i \in 1 .. n : f[i] = IF i \in P THEN Append(f[i - 1], fds[i]) ELSE f[i - 1]
  <2> TAKE i \in 1 .. n
  <2>1. i - 1 \in 0 .. n
    BY <1>1
  <2>2. f[i - 1] \in Seq(E)
    BY <1>4, <2>1
  <2>3. QED
    BY <1>4, <2>2
<1>6. f = Body(f)
  <2>1. \A i \in 0 .. n : i # 0 => i \in 1 .. n
    BY <1>1
  <2>2. \A i \in 0 .. n : f[i] = Body(f)[i]
    BY <1>4, <1>5, <2>1
  <2>3. QED
    BY <1>4, <2>2
<1>7. w = Body(w)
  <2> HIDE DEF Body
  <2>1. QED
    BY <1>6
<1> HIDE DEF w
<1>8. w[n] = f[n]
  <2> DEFINE S == {i \in 0 .. n : w[i] = f[i]}
  <2>1. 0 \in S
    BY <1>1, <1>4, <1>7
  <2>2. ASSUME NEW i \in S, i < n PROVE i + 1 \in S
    <3>1. i + 1 \in 1 .. n /\ i + 1 \in 0 .. n /\ (i + 1) - 1 = i /\ i + 1 # 0
      BY <1>1, <2>2
    <3>2. w[i + 1] = IF i + 1 \in P THEN Append(w[i], fds[i + 1]) ELSE w[i]
      BY <1>7, <3>1
    <3>3. f[i + 1] = IF i + 1 \in P THEN Append(f[i], fds[i + 1]) ELSE f[i]
      BY <1>5, <3>1
    <3>4. QED
      BY <3>1, <3>2, <3>3
  <2>3. n \in S
    <3>1. S \subseteq Nat
      OBVIOUS
    <3> HIDE DEF S
    <3>2. QED
      BY <1>1, <2>1, <2>2, <3>1, Induction
  <2>4. QED
    BY <2>3
<1>9. Grows(f, fds, P, E)
  BY <1>4, <1>5 DEF Grows
<1>10. QED
  BY <1>2, <1>8, <1>9

\* The entries a sequence has are those of another at some positions, in order.
Picked(g, r, fds, P) ==
    /\ g \in [DOMAIN r -> P]
    /\ \A j \in DOMAIN r : r[j] = fds[g[j]]
    /\ \A j, k \in DOMAIN r : j < k => g[j] < g[k]
    /\ \A i \in P : \E j \in DOMAIN r : g[j] = i

\* One more is picked.
LEMMA PickNext ==
    ASSUME NEW E, NEW fds, NEW k \in Nat, NEW P, P \subseteq 1 .. k,
           NEW r \in Seq(E), fds[k + 1] \in E, NEW g, Picked(g, r, fds, P)
    PROVE  \E h : Picked(h, Append(r, fds[k + 1]), fds, P \cup {k + 1})
<1> DEFINE m == Len(r)
           s == Append(r, fds[k + 1])
           h == [j \in 1 .. m + 1 |-> IF j = m + 1 THEN k + 1 ELSE g[j]]
<1>1. /\ m \in Nat /\ DOMAIN r = 1 .. m /\ DOMAIN s = 1 .. m + 1
      /\ \A j \in 1 .. m : s[j] = r[j]
      /\ s[m + 1] = fds[k + 1]
  OBVIOUS
<1> HIDE DEF m, s
<1>2. \A j \in 1 .. m + 1 : j = m + 1 \/ j \in 1 .. m
  BY <1>1
<1>3. \A j \in 1 .. m : j # m + 1 /\ j \in 1 .. m + 1
  BY <1>1
<1>4. \A j \in 1 .. m : g[j] \in P /\ g[j] \in Nat /\ g[j] < k + 1
  <2>1. \A j \in 1 .. m : g[j] \in P
    BY <1>1 DEF Picked
  <2>2. \A i \in P : i \in Nat /\ i < k + 1
    OBVIOUS
  <2>3. QED
    BY <2>1, <2>2
<1>5. (\A j \in 1 .. m : h[j] = g[j]) /\ h[m + 1] = k + 1
  BY <1>1, <1>3
<1>6. h \in [1 .. m + 1 -> P \cup {k + 1}]
  BY <1>2, <1>4
<1> HIDE DEF h
<1>7. \A j \in 1 .. m + 1 : s[j] = fds[h[j]]
  BY <1>1, <1>2, <1>5 DEF Picked
<1>8. \A j, l \in 1 .. m + 1 : j < l => h[j] < h[l]
  <2> SUFFICES ASSUME NEW j \in 1 .. m + 1, NEW l \in 1 .. m + 1, j < l
               PROVE  h[j] < h[l]
    OBVIOUS
  <2>1. j \in 1 .. m
    BY <1>1
  <2>2. CASE l = m + 1
    BY <1>4, <1>5, <2>1, <2>2
  <2>3. CASE l \in 1 .. m
    BY <1>1, <1>5, <2>1, <2>3 DEF Picked
  <2>4. QED
    BY <1>2, <2>2, <2>3
<1>9. \A i \in P \cup {k + 1} : \E j \in 1 .. m + 1 : h[j] = i
  <2> TAKE i \in P \cup {k + 1}
  <2>1. CASE i = k + 1
    BY <1>1, <1>5, <2>1
  <2>2. CASE i \in P
    <3>1. PICK j \in 1 .. m : g[j] = i
      BY <1>1, <2>2 DEF Picked
    <3>2. QED
      BY <1>3, <1>5, <3>1
  <2>3. QED
    BY <2>1, <2>2
<1>10. Picked(h, s, fds, P \cup {k + 1})
  BY <1>1, <1>6, <1>7, <1>8, <1>9 DEF Picked
<1>11. QED
  BY <1>10 DEF s

\* Only leaves the entries at the positions it is given, in order.
LEMMA OnlyPicks ==
    ASSUME NEW E, NEW fds \in Seq(E), NEW P, P \subseteq DOMAIN fds
    PROVE  Only(fds, P) \in Seq(E) /\ \E g : Picked(g, Only(fds, P), fds, P)
<1> DEFINE n == Len(fds)
<1>1. PICK u : Grows(u, fds, P, E) /\ Only(fds, P) = u[n]
  BY OnlyByStep
<1>2. n \in Nat /\ DOMAIN fds = 1 .. n /\ \A i \in 1 .. n : fds[i] \in E
  OBVIOUS
<1>3. /\ u \in [0 .. n -> Seq(E)] /\ u[0] = <<>>
      /\ \A i \in 1 .. n : u[i] = IF i \in P THEN Append(u[i - 1], fds[i]) ELSE u[i - 1]
  BY <1>1 DEF Grows
<1> HIDE DEF n
<1> DEFINE Q(k) == \E g : Picked(g, u[k], fds, P \cap (1 .. k))
           S == {k \in 0 .. n : Q(k)}
<1>4. 0 \in S
  <2> DEFINE g == [j \in {} |-> 0]
  <2>1. DOMAIN u[0] = {} /\ 1 .. 0 = {}
    BY <1>3
  <2>2. Picked(g, u[0], fds, P \cap (1 .. 0))
    BY <2>1 DEF Picked
  <2> HIDE DEF g
  <2>3. QED
    BY <1>2, <2>2
<1>5. ASSUME NEW k \in S, k < n PROVE k + 1 \in S
  <2>1. k \in Nat /\ k + 1 \in 1 .. n /\ k + 1 \in 0 .. n /\ (k + 1) - 1 = k
        /\ 1 .. k + 1 = (1 .. k) \cup {k + 1}
    BY <1>2, <1>5
  <2>2. PICK g : Picked(g, u[k], fds, P \cap (1 .. k))
    OBVIOUS
  <2>3. CASE k + 1 \notin P
    <3>1. u[k + 1] = u[k]
      BY <1>3, <2>1, <2>3
    <3>2. P \cap (1 .. k + 1) = P \cap (1 .. k)
      BY <2>1, <2>3
    <3>3. QED
      BY <2>1, <2>2, <3>1, <3>2
  <2>4. CASE k + 1 \in P
    <3>1. u[k + 1] = Append(u[k], fds[k + 1]) /\ u[k] \in Seq(E) /\ fds[k + 1] \in E
      BY <1>2, <1>3, <2>1, <2>4
    <3>2. P \cap (1 .. k + 1) = (P \cap (1 .. k)) \cup {k + 1} /\ P \cap (1 .. k) \subseteq 1 .. k
      BY <2>1, <2>4
    <3>3. \E h : Picked(h, Append(u[k], fds[k + 1]), fds, (P \cap (1 .. k)) \cup {k + 1})
      BY <2>1, <2>2, <3>1, <3>2, PickNext
    <3>4. QED
      BY <2>1, <3>1, <3>2, <3>3
  <2>5. QED
    BY <2>3, <2>4
<1>6. n \in S
  <2>1. S \subseteq Nat
    OBVIOUS
  <2> HIDE DEF S
  <2>2. QED
    BY <1>2, <1>4, <1>5, <2>1, Induction
<1>7. P \cap (1 .. n) = P /\ u[n] \in Seq(E)
  BY <1>2, <1>3
<1>8. QED
  BY <1>1, <1>6, <1>7

-----------------------------------------------------------------------------
(* One entry for each descriptor. *)

\* A sequence over a set is one over a larger set.
LEMMA SeqGrows ==
    ASSUME NEW S, NEW T, S \subseteq T, NEW q \in Seq(S)
    PROVE  q \in Seq(T)
OBVIOUS

Entry(F) == [fd : F, events : (SUBSET {In, Out}) \ {{}}]

\* The descriptors that are waited for, each once and each for something.
OneEach(fds, F) ==
    /\ fds \in Seq(Entry(F))
    /\ \A i, j \in DOMAIN fds : fds[i].fd = fds[j].fd => i = j

Asking(fds, interest) == {fds[i].fd : i \in {j \in DOMAIN fds : interest \in fds[j].events}}

\* An entry is of a descriptor that is waited for something.
LEMMA EntryParts ==
    ASSUME NEW F, NEW e \in Entry(F)
    PROVE  /\ e.fd \in F /\ e.events \subseteq {In, Out}
           /\ In \in e.events \/ Out \in e.events
<1>1. e.fd \in F /\ e.events \in (SUBSET {In, Out}) \ {{}}
  BY DEF Entry
<1>2. e.events \subseteq {In, Out} /\ e.events # {}
  BY <1>1
<1>3. QED
  BY <1>1, <1>2

AskingMore(e, interest) == [e EXCEPT !.events = @ \cup {interest}]

\* An entry waited for one thing more is an entry.
LEMMA EntryAsksMore ==
    ASSUME NEW F, NEW e \in Entry(F), NEW interest \in {In, Out}
    PROVE  /\ AskingMore(e, interest) \in Entry(F)
           /\ AskingMore(e, interest).fd = e.fd
           /\ AskingMore(e, interest).events = e.events \cup {interest}
<1> DEFINE more == e.events \cup {interest}
<1>1. e = [fd |-> e.fd, events |-> e.events] /\ e.fd \in F
  BY DEF Entry
<1>2. more \in (SUBSET {In, Out}) \ {{}}
  BY EntryParts
<1> HIDE DEF more
<1>3. [e EXCEPT !.events = more] = [fd |-> e.fd, events |-> more]
  BY <1>1
<1>4. QED
  BY <1>1, <1>2, <1>3 DEF Entry, AskingMore, more

\* Every descriptor is waited for.
LEMMA FdsAsk ==
    ASSUME NEW F, NEW fds, OneEach(fds, F)
    PROVE  FdsOf(fds) = Asking(fds, In) \cup Asking(fds, Out) /\ FdsOf(fds) \subseteq F
<1>1. \A i \in DOMAIN fds : fds[i] \in Entry(F)
  BY DEF OneEach
<1>2. \A i \in DOMAIN fds : fds[i].fd \in F /\ (In \in fds[i].events \/ Out \in fds[i].events)
  BY <1>1, EntryParts
<1>3. QED
  BY <1>2 DEF FdsOf, Asking

\* add and add_write
LEMMA AskedForOneEach ==
    ASSUME NEW F, NEW fds, OneEach(fds, F), NEW fd \in F, NEW interest \in {In, Out}
    PROVE  LET r == AskedFor(fds, fd, interest) IN
           /\ OneEach(r, F)
           /\ FdsOf(r) = FdsOf(fds) \cup {fd}
           /\ Asking(r, interest) = Asking(fds, interest) \cup {fd}
           /\ \A other \in {In, Out} \ {interest} : Asking(r, other) = Asking(fds, other)
           /\ r # <<>> /\ r[1].fd = IF fds = <<>> THEN fd ELSE fds[1].fd
<1> DEFINE r == AskedFor(fds, fd, interest)
           n == Len(fds)
<1>1. /\ n \in Nat /\ DOMAIN fds = 1 .. n
      /\ \A i \in 1 .. n : fds[i] \in Entry(F)
      /\ \A i, j \in 1 .. n : fds[i].fd = fds[j].fd => i = j
      /\ fds = <<>> <=> n = 0
  BY DEF OneEach
<1>2. CASE fd \in FdsOf(fds)
  <2>1. r = [i \in 1 .. n |->
                IF fds[i].fd = fd THEN [fds[i] EXCEPT !.events = @ \cup {interest}] ELSE fds[i]]
    BY <1>1, <1>2 DEF AskedFor
  <2>2. PICK p \in 1 .. n : fds[p].fd = fd
    BY <1>1, <1>2 DEF FdsOf
  <2>3. DOMAIN r = 1 .. n /\ \A i \in 1 .. n :
            /\ r[i] \in Entry(F) /\ r[i].fd = fds[i].fd
            /\ r[i].events = IF i = p THEN fds[i].events \cup {interest} ELSE fds[i].events
    <3>1. DOMAIN r = 1 .. n
      BY <2>1
    <3>2. ASSUME NEW i \in 1 .. n, fds[i].fd = fd
          PROVE  /\ r[i] \in Entry(F) /\ r[i].fd = fds[i].fd
                 /\ r[i].events = fds[i].events \cup {interest} /\ i = p
      <4>1. r[i] = AskingMore(fds[i], interest)
        BY <2>1, <3>2 DEF AskingMore
      <4>2. i = p
        BY <1>1, <2>2, <3>2
      <4> HIDE DEF r
      <4>3. QED
        BY <1>1, <4>1, <4>2, EntryAsksMore
    <3>3. ASSUME NEW i \in 1 .. n, fds[i].fd # fd
          PROVE  r[i] = fds[i] /\ i # p
      BY <2>1, <2>2, <3>3
    <3> HIDE DEF r
    <3>4. QED
      BY <1>1, <3>1, <3>2, <3>3
  <2> HIDE DEF r
  <2>4. r \in Seq(Entry(F)) /\ Len(r) = n
    <3>1. r \in [1 .. n -> Entry(F)]
      BY <2>1, <2>3
    <3>2. QED
      BY <1>1, <3>1
  <2>5. /\ DOMAIN r = DOMAIN fds /\ \A i \in DOMAIN fds : r[i].fd = fds[i].fd
        /\ p \in DOMAIN fds /\ r[p].events = fds[p].events \cup {interest} /\ r[p].fd = fd
        /\ \A i \in DOMAIN fds : i # p => r[i].events = fds[i].events
    BY <1>1, <2>2, <2>3
  <2>6. OneEach(r, F)
    BY <1>1, <2>4, <2>5 DEF OneEach
  <2>7. FdsOf(r) = FdsOf(fds) \cup {fd}
    BY <1>2, <2>5 DEF FdsOf
  <2>8. ASSUME NEW other PROVE Asking(r, other) = IF other = interest THEN Asking(fds, other) \cup {fd}
                                                  ELSE Asking(fds, other)
    <3>1. \A i \in DOMAIN fds : other \in r[i].events <=>
              other \in fds[i].events \/ (i = p /\ other = interest)
      BY <2>5
    <3>2. {i \in DOMAIN r : other \in r[i].events} =
              {i \in DOMAIN fds : other \in fds[i].events}
                  \cup IF other = interest THEN {p} ELSE {}
      BY <2>5, <3>1
    <3>3. QED
      BY <2>5, <3>2 DEF Asking
  <2>9. r # <<>> /\ r[1].fd = fds[1].fd /\ fds # <<>>
    <3>1. n >= 1 /\ 1 \in 1 .. n
      BY <1>1, <2>2
    <3>2. QED
      BY <1>1, <2>4, <2>5, <3>1
  <2>10. QED
    BY <2>6, <2>7, <2>8, <2>9 DEF r
<1>3. CASE fd \notin FdsOf(fds)
  <2> DEFINE e == [fd |-> fd, events |-> {interest}]
  <2>1. r = Append(fds, e) /\ e \in Entry(F) /\ e.fd = fd /\ e.events = {interest}
    <3>1. {interest} \in (SUBSET {In, Out}) \ {{}}
      OBVIOUS
    <3>2. QED
      BY <1>3, <3>1 DEF AskedFor, Entry
  <2>2. /\ r \in Seq(Entry(F)) /\ DOMAIN r = 1 .. n + 1 /\ r # <<>>
        /\ \A i \in 1 .. n : r[i] = fds[i] /\ i \in 1 .. n + 1
        /\ r[n + 1] = e /\ n + 1 \in 1 .. n + 1
        /\ \A i \in 1 .. n + 1 : i = n + 1 \/ i \in 1 .. n
    BY <2>1, <1>1 DEF OneEach
  <2>3. \A i \in 1 .. n : fds[i].fd # fd
    BY <1>1, <1>3 DEF FdsOf
  <2> HIDE DEF r, e
  <2>4. OneEach(r, F)
    BY <1>1, <2>1, <2>2, <2>3 DEF OneEach
  <2>5. FdsOf(r) = FdsOf(fds) \cup {fd}
    BY <1>1, <2>1, <2>2 DEF FdsOf
  <2>6. Asking(r, interest) = Asking(fds, interest) \cup {fd}
    BY <1>1, <2>1, <2>2 DEF Asking
  <2>7. \A other \in {In, Out} \ {interest} : Asking(r, other) = Asking(fds, other)
    BY <1>1, <2>1, <2>2 DEF Asking
  <2>8. r[1].fd = IF fds = <<>> THEN fd ELSE fds[1].fd
    BY <1>1, <2>1, <2>2
  <2>9. QED
    BY <2>2, <2>4, <2>5, <2>6, <2>7, <2>8 DEF r
<1>4. QED
  BY <1>2, <1>3

\* What stays of the entries at some positions.
LEMMA OnlyOneEach ==
    ASSUME NEW F, NEW fds \in Seq([fd : F, events : SUBSET {In, Out}]),
           \A i, j \in DOMAIN fds : fds[i].fd = fds[j].fd => i = j,
           NEW P, P \subseteq DOMAIN fds, \A i \in P : fds[i].events # {}
    PROVE  LET r == Only(fds, P) IN
           /\ OneEach(r, F)
           /\ FdsOf(r) = {fds[i].fd : i \in P}
           /\ \A interest : Asking(r, interest) =
                  {fds[i].fd : i \in {j \in P : interest \in fds[j].events}}
           /\ 1 \in P => r # <<>> /\ r[1].fd = fds[1].fd
<1> DEFINE E == [fd : F, events : SUBSET {In, Out}]
           r == Only(fds, P)
<1>1. r \in Seq(E) /\ \E g : Picked(g, r, fds, P)
  <2>1. fds \in Seq(E)
    OBVIOUS
  <2> HIDE DEF E
  <2>2. QED
    BY <2>1, OnlyPicks
<1>2. PICK g : Picked(g, r, fds, P)
  BY <1>1
<1>3. DOMAIN fds = 1 .. Len(fds) /\ Len(fds) \in Nat /\ DOMAIN r = 1 .. Len(r) /\ Len(r) \in Nat
  BY <1>1
<1> HIDE DEF r
<1>4. /\ \A j \in DOMAIN r : g[j] \in P /\ g[j] \in DOMAIN fds /\ r[j] = fds[g[j]]
      /\ \A j, k \in DOMAIN r : j < k => g[j] < g[k]
      /\ \A i \in P : \E j \in DOMAIN r : g[j] = i
  BY <1>2 DEF Picked
<1>5. OneEach(r, F)
  <2>1. \A i \in P : fds[i] \in Entry(F)
    <3> TAKE i \in P
    <3>1. fds[i] \in E /\ fds[i].events # {}
      <4>1. i \in 1 .. Len(fds)
        BY <1>3
      <4> HIDE DEF E
      <4>2. fds \in Seq(E)
        BY DEF E
      <4>3. QED
        BY <4>1, <4>2
    <3>2. fds[i].events \in (SUBSET {In, Out}) \ {{}}
      BY <3>1
    <3>3. QED
      BY <3>1, <3>2 DEF Entry
  <2>2. r \in Seq(Entry(F))
    <3>1. r \in [1 .. Len(r) -> Entry(F)]
      BY <1>1, <1>3, <1>4, <2>1
    <3>2. QED
      BY <1>3, <3>1
  <2>3. ASSUME NEW j \in DOMAIN r, NEW k \in DOMAIN r, r[j].fd = r[k].fd PROVE j = k
    <3>1. g[j] = g[k] /\ g[j] \in Nat
      BY <1>3, <1>4, <2>3
    <3>2. ~(j < k) /\ ~(k < j)
      BY <1>4, <3>1
    <3>3. QED
      BY <1>3, <3>2
  <2>4. QED
    BY <2>2, <2>3 DEF OneEach
<1>6. FdsOf(r) = {fds[i].fd : i \in P}
  BY <1>4 DEF FdsOf
<1>7. ASSUME NEW interest
      PROVE  Asking(r, interest) = {fds[i].fd : i \in {j \in P : interest \in fds[j].events}}
  BY <1>4 DEF Asking
<1>8. ASSUME 1 \in P PROVE r # <<>> /\ r[1].fd = fds[1].fd
  <2>1. PICK j \in DOMAIN r : g[j] = 1
    BY <1>4, <1>8
  <2>2. 1 \in DOMAIN r /\ Len(r) # 0
    BY <1>3, <2>1
  <2>3. g[1] \in 1 .. Len(fds)
    BY <1>3, <1>4, <2>2
  <2>4. j = 1
    BY <1>3, <1>4, <2>1, <2>2, <2>3
  <2>5. QED
    BY <1>1, <1>4, <2>1, <2>2, <2>4
<1>9. QED
  BY <1>5, <1>6, <1>7, <1>8 DEF r

\* remove
LEMMA RemovedOneEach ==
    ASSUME NEW F, NEW fds, OneEach(fds, F), NEW fd
    PROVE  LET r == Removed(fds, fd) IN
           /\ OneEach(r, F)
           /\ FdsOf(r) = FdsOf(fds) \ {fd}
           /\ \A interest : Asking(r, interest) = Asking(fds, interest) \ {fd}
           /\ fds # <<>> /\ fds[1].fd # fd => r # <<>> /\ r[1].fd = fds[1].fd
<1> DEFINE P == {i \in DOMAIN fds : fds[i].fd # fd}
           r == Only(fds, P)
<1>1. /\ fds \in Seq([fd : F, events : SUBSET {In, Out}])
      /\ \A i, j \in DOMAIN fds : fds[i].fd = fds[j].fd => i = j
      /\ \A i \in P : fds[i].events # {}
  <2>1. fds \in Seq(Entry(F)) /\ \A i \in DOMAIN fds : fds[i] \in Entry(F)
    BY DEF OneEach
  <2>2. Entry(F) \subseteq [fd : F, events : SUBSET {In, Out}]
    BY DEF Entry
  <2>3. fds \in Seq([fd : F, events : SUBSET {In, Out}])
    BY <2>1, <2>2, SeqGrows
  <2>4. QED
    BY <2>1, <2>3, EntryParts DEF OneEach
<1>2. /\ OneEach(r, F)
      /\ FdsOf(r) = {fds[i].fd : i \in P}
      /\ \A interest : Asking(r, interest) =
             {fds[i].fd : i \in {j \in P : interest \in fds[j].events}}
      /\ 1 \in P => r # <<>> /\ r[1].fd = fds[1].fd
  <2>1. P \subseteq DOMAIN fds
    OBVIOUS
  <2> HIDE DEF P
  <2>2. QED
    BY <1>1, <2>1, OnlyOneEach
<1>3. r = Removed(fds, fd)
  BY DEF Removed
<1> HIDE DEF r
<1>4. FdsOf(r) = FdsOf(fds) \ {fd}
  BY <1>2 DEF FdsOf
<1>5. \A interest : Asking(r, interest) = Asking(fds, interest) \ {fd}
  <2> TAKE interest
  <2>1. Asking(r, interest) = {fds[i].fd : i \in {j \in P : interest \in fds[j].events}}
    BY <1>2
  <2>2. QED
    BY <2>1 DEF Asking
<1>6. fds # <<>> => 1 \in DOMAIN fds
  BY <1>1
<1>7. QED
  BY <1>2, <1>3, <1>4, <1>5, <1>6

\* remove_write
LEMMA WriteRemovedOneEach ==
    ASSUME NEW F, NEW fds, OneEach(fds, F), NEW fd
    PROVE  LET r == WriteRemoved(fds, fd) IN
           /\ OneEach(r, F)
           /\ Asking(r, In) = Asking(fds, In)
           /\ Asking(r, Out) = Asking(fds, Out) \ {fd}
           /\ FdsOf(r) = Asking(fds, In) \cup (Asking(fds, Out) \ {fd})
           /\ fds # <<>> /\ fds[1].fd # fd => r # <<>> /\ r[1].fd = fds[1].fd
<1> DEFINE P == {i \in DOMAIN fds : fds[i].fd # fd \/ fds[i].events \ {Out} # {}}
           left == [i \in DOMAIN fds |->
                       IF fds[i].fd = fd THEN [fds[i] EXCEPT !.events = @ \ {Out}] ELSE fds[i]]
           E == [fd : F, events : SUBSET {In, Out}]
           r == Only(left, P)
<1>1. /\ fds \in Seq(Entry(F)) /\ DOMAIN fds = 1 .. Len(fds) /\ Len(fds) \in Nat
      /\ \A i \in DOMAIN fds : fds[i] \in Entry(F)
      /\ \A i, j \in DOMAIN fds : fds[i].fd = fds[j].fd => i = j
  BY DEF OneEach
<1>2. In # Out
  BY DEF In, Out
<1>3. ASSUME NEW i \in DOMAIN fds
      PROVE  /\ left[i] \in E /\ left[i].fd = fds[i].fd
             /\ left[i].events = IF fds[i].fd = fd THEN fds[i].events \ {Out} ELSE fds[i].events
  <2>1. fds[i] = [fd |-> fds[i].fd, events |-> fds[i].events] /\ fds[i].fd \in F
        /\ fds[i].events \subseteq {In, Out}
    BY <1>1, EntryParts DEF Entry
  <2>2. CASE fds[i].fd = fd
    <3>1. left[i] = [fd |-> fds[i].fd, events |-> fds[i].events \ {Out}]
      BY <2>1, <2>2
    <3>2. fds[i].events \ {Out} \in SUBSET {In, Out}
      BY <2>1
    <3> HIDE DEF left
    <3>3. QED
      BY <2>1, <2>2, <3>1, <3>2
  <2>3. CASE fds[i].fd # fd
    <3>1. left[i] = fds[i]
      BY <2>3
    <3> HIDE DEF left
    <3>2. QED
      BY <2>1, <2>3, <3>1
  <2>4. QED
    BY <2>2, <2>3
<1>4. DOMAIN left = DOMAIN fds
  OBVIOUS
<1>5. r = WriteRemoved(fds, fd)
  BY DEF WriteRemoved
<1> HIDE DEF left
<1>6. left \in Seq(E)
  <2>1. left \in [1 .. Len(fds) -> E]
    <3>1. left = [i \in DOMAIN left |-> left[i]]
      BY DEF left
    <3> HIDE DEF E
    <3>2. QED
      BY <1>1, <1>3, <1>4, <3>1
  <2> HIDE DEF E
  <2>2. QED
    BY <1>1, <2>1
<1>7. \A i \in P : left[i].events # {}
  BY <1>1, <1>3, EntryParts
<1>8. /\ OneEach(r, F)
      /\ FdsOf(r) = {left[i].fd : i \in P}
      /\ \A interest : Asking(r, interest) =
             {left[i].fd : i \in {j \in P : interest \in left[j].events}}
      /\ 1 \in P => r # <<>> /\ r[1].fd = left[1].fd
  <2>1. P \subseteq DOMAIN left
    BY <1>4
  <2>2. \A i, j \in DOMAIN left : left[i].fd = left[j].fd => i = j
    BY <1>1, <1>3, <1>4
  <2> HIDE DEF P
  <2>3. QED
    BY <1>6, <1>7, <2>1, <2>2, OnlyOneEach
<1> HIDE DEF r
<1>9. Asking(r, In) = Asking(fds, In)
  <2>1. {j \in P : In \in left[j].events} = {j \in DOMAIN fds : In \in fds[j].events}
    BY <1>2, <1>3
  <2>2. Asking(r, In) = {left[i].fd : i \in {j \in DOMAIN fds : In \in fds[j].events}}
    BY <1>8, <2>1
  <2>3. \A i \in DOMAIN fds : left[i].fd = fds[i].fd
    BY <1>3
  <2>4. QED
    BY <2>2, <2>3 DEF Asking
<1>10. Asking(r, Out) = Asking(fds, Out) \ {fd}
  <2>1. {j \in P : Out \in left[j].events} =
            {j \in DOMAIN fds : Out \in fds[j].events /\ fds[j].fd # fd}
    BY <1>3
  <2>2. Asking(r, Out) =
            {left[i].fd : i \in {j \in DOMAIN fds : Out \in fds[j].events /\ fds[j].fd # fd}}
    BY <1>8, <2>1
  <2>3. \A i \in DOMAIN fds : left[i].fd = fds[i].fd
    BY <1>3
  <2>4. QED
    BY <2>2, <2>3 DEF Asking
<1>11. FdsOf(r) = Asking(r, In) \cup Asking(r, Out)
  BY <1>8, FdsAsk
<1>12. fds # <<>> /\ fds[1].fd # fd => r # <<>> /\ r[1].fd = fds[1].fd
  <2>1. fds # <<>> => 1 \in DOMAIN fds
    BY <1>1
  <2>2. QED
    BY <1>3, <1>8, <2>1
<1>13. QED
  BY <1>5, <1>8, <1>9, <1>10, <1>11, <1>12

\* Whatever sequence of add, add_write, remove and remove_write a server goes
\* through, its poll has one entry for each descriptor and none that waits for
\* nothing, and a call changes what is waited for of its own descriptor only.
THEOREM PollKeepsOneEach ==
    ASSUME NEW F, NEW fds, OneEach(fds, F), NEW fd \in F
    PROVE  /\ OneEach(Added(fds, fd), F) /\ OneEach(WriteAdded(fds, fd), F)
           /\ OneEach(Removed(fds, fd), F) /\ OneEach(WriteRemoved(fds, fd), F)
           /\ Asking(Added(fds, fd), In) = Asking(fds, In) \cup {fd}
           /\ Asking(Added(fds, fd), Out) = Asking(fds, Out)
           /\ Asking(WriteAdded(fds, fd), In) = Asking(fds, In)
           /\ Asking(WriteAdded(fds, fd), Out) = Asking(fds, Out) \cup {fd}
           /\ Asking(WriteRemoved(fds, fd), In) = Asking(fds, In)
           /\ Asking(WriteRemoved(fds, fd), Out) = Asking(fds, Out) \ {fd}
           /\ \A interest \in {In, Out} :
                  Asking(Removed(fds, fd), interest) = Asking(fds, interest) \ {fd}
<1>1. In \in {In, Out} /\ Out \in {In, Out} /\ In # Out
  BY DEF In, Out
<1>2. /\ OneEach(Added(fds, fd), F)
      /\ Asking(Added(fds, fd), In) = Asking(fds, In) \cup {fd}
      /\ Asking(Added(fds, fd), Out) = Asking(fds, Out)
  BY <1>1, AskedForOneEach DEF Added
<1>3. /\ OneEach(WriteAdded(fds, fd), F)
      /\ Asking(WriteAdded(fds, fd), In) = Asking(fds, In)
      /\ Asking(WriteAdded(fds, fd), Out) = Asking(fds, Out) \cup {fd}
  BY <1>1, AskedForOneEach DEF WriteAdded
<1>4. /\ OneEach(Removed(fds, fd), F)
      /\ \A interest \in {In, Out} :
             Asking(Removed(fds, fd), interest) = Asking(fds, interest) \ {fd}
  BY RemovedOneEach
<1>5. /\ OneEach(WriteRemoved(fds, fd), F)
      /\ Asking(WriteRemoved(fds, fd), In) = Asking(fds, In)
      /\ Asking(WriteRemoved(fds, fd), Out) = Asking(fds, Out) \ {fd}
  BY WriteRemovedOneEach
<1>6. QED
  BY <1>2, <1>3, <1>4, <1>5

-----------------------------------------------------------------------------
(* The events of a wait. *)

Events(F) == [fd : F, type : {"read", "write", "error"}]

Members(q) == {q[i] : i \in DOMAIN q}

\* What comes before what.
Along(q, R) == \A i, j \in DOMAIN q : i < j => <<q[i], q[j]>> \in R

\* The members of two sequences put together.
LEMMA MembersOfAppended ==
    ASSUME NEW E, NEW s \in Seq(E), NEW t \in Seq(E)
    PROVE  s \o t \in Seq(E) /\ Members(s \o t) = Members(s) \cup Members(t)
<1> DEFINE m == Len(s)
           n == Len(t)
           q == s \o t
<1>1. /\ m \in Nat /\ n \in Nat /\ DOMAIN s = 1 .. m /\ DOMAIN t = 1 .. n
      /\ DOMAIN q = 1 .. m + n /\ q \in Seq(E)
      /\ \A i \in 1 .. m : q[i] = s[i]
      /\ \A i \in 1 .. n : q[m + i] = t[i]
  OBVIOUS
<1> HIDE DEF m, n, q
<1>2. \A i \in 1 .. m + n : i \in 1 .. m \/ (i - m \in 1 .. n /\ m + (i - m) = i)
  BY <1>1
<1>3. (\A i \in 1 .. m : i \in 1 .. m + n) /\ (\A i \in 1 .. n : m + i \in 1 .. m + n)
  BY <1>1
<1>4. Members(q) \subseteq Members(s) \cup Members(t)
  <2> SUFFICES ASSUME NEW i \in 1 .. m + n PROVE q[i] \in Members(s) \cup Members(t)
    BY <1>1 DEF Members
  <2>1. CASE i \in 1 .. m
    BY <1>1, <2>1 DEF Members
  <2>2. CASE i - m \in 1 .. n /\ m + (i - m) = i
    <3>1. q[i] = t[i - m]
      BY <1>1, <2>2
    <3>2. QED
      BY <1>1, <2>2, <3>1 DEF Members
  <2>3. QED
    BY <1>2, <2>1, <2>2
<1>5. Members(s) \cup Members(t) \subseteq Members(q)
  BY <1>1, <1>3 DEF Members
<1>6. QED
  BY <1>1, <1>4, <1>5 DEF q

\* Two sequences in order are in order together if each of the first goes with
\* each of the second.
LEMMA AlongAppended ==
    ASSUME NEW E, NEW s \in Seq(E), NEW t \in Seq(E), NEW R, Along(s, R), Along(t, R),
           \A a \in Members(s), b \in Members(t) : <<a, b>> \in R
    PROVE  Along(s \o t, R)
<1> DEFINE m == Len(s)
           n == Len(t)
           q == s \o t
<1>1. /\ m \in Nat /\ n \in Nat /\ DOMAIN s = 1 .. m /\ DOMAIN t = 1 .. n
      /\ DOMAIN q = 1 .. m + n
      /\ \A i \in 1 .. m : q[i] = s[i]
      /\ \A i \in 1 .. n : q[m + i] = t[i]
  OBVIOUS
<1> HIDE DEF m, n, q
<1>2. \A i \in 1 .. m + n : i \in 1 .. m \/ (i - m \in 1 .. n /\ m + (i - m) = i)
  BY <1>1
<1>3. ASSUME NEW i \in 1 .. m + n, NEW j \in 1 .. m + n, i < j
      PROVE  <<q[i], q[j]>> \in R
  <2>1. CASE i \in 1 .. m /\ j \in 1 .. m
    BY <1>1, <1>3, <2>1 DEF Along
  <2>2. CASE i \in 1 .. m /\ j - m \in 1 .. n /\ m + (j - m) = j
    <3>1. q[i] = s[i] /\ q[j] = t[j - m]
      BY <1>1, <2>2
    <3>2. s[i] \in Members(s) /\ t[j - m] \in Members(t)
      BY <1>1, <2>2 DEF Members
    <3>3. QED
      BY <3>1, <3>2
  <2>3. CASE i - m \in 1 .. n /\ j - m \in 1 .. n /\ m + (i - m) = i /\ m + (j - m) = j
    <3>1. q[i] = t[i - m] /\ q[j] = t[j - m] /\ i - m < j - m
      BY <1>1, <1>3, <2>3
    <3>2. QED
      BY <1>1, <2>3, <3>1 DEF Along
  <2>4. CASE j \in 1 .. m /\ i - m \in 1 .. n
    BY <1>1, <1>3, <2>4
  <2>5. QED
    BY <1>2, <2>1, <2>2, <2>3, <2>4
<1>4. QED
  BY <1>1, <1>3 DEF Along, q

\* A sequence of one member, or of none.
LEMMA OneOrNone ==
    ASSUME NEW E, NEW e \in E, NEW cond, NEW R
    PROVE  LET q == IF cond THEN <<e>> ELSE <<>> IN
           /\ q \in Seq(E) /\ Along(q, R)
           /\ Members(q) = IF cond THEN {e} ELSE {}
<1>1. <<e>> \in Seq(E) /\ Along(<<e>>, R) /\ Members(<<e>>) = {e}
  BY DEF Along, Members
<1>2. <<>> \in Seq(E) /\ Along(<<>>, R) /\ Members(<<>>) = {}
  BY DEF Along, Members
<1>3. QED
  BY <1>1, <1>2

\* The events of one entry.
Happens(e, type, readable, writable, failing) ==
    \/ type = "read" /\ In \in e.events /\ e.fd \in readable
    \/ type = "write" /\ Out \in e.events /\ e.fd \in writable
    \/ type = "error" /\ e.fd \in failing

EventsOf(e, readable, writable, failing) ==
    LET some(type, cond) == IF cond THEN <<[fd |-> e.fd, type |-> type]>> ELSE <<>>
    IN some("read", In \in e.events /\ e.fd \in readable)
       \o some("write", Out \in e.events /\ e.fd \in writable)
       \o some("error", e.fd \in failing)

Rank(type) == CASE type = "read" -> 1 [] type = "write" -> 2 [] type = "error" -> 3

\* The events of one entry: those that happen, by turns.
LEMMA EventsOfEntry ==
    ASSUME NEW F, NEW e, e.fd \in F, NEW readable, NEW writable, NEW failing, NEW R,
           \A a, b \in Events(F) :
               a.fd = e.fd /\ b.fd = e.fd /\ Rank(a.type) < Rank(b.type) => <<a, b>> \in R
    PROVE  LET q == EventsOf(e, readable, writable, failing) IN
           /\ q \in Seq(Events(F)) /\ Along(q, R)
           /\ \A a : a \in Members(q) <=>
                  /\ a \in Events(F) /\ a.fd = e.fd
                  /\ Happens(e, a.type, readable, writable, failing)
<1> DEFINE E == Events(F)
           ev(type) == [fd |-> e.fd, type |-> type]
           some(type, cond) == IF cond THEN <<ev(type)>> ELSE <<>>
           r == some("read", In \in e.events /\ e.fd \in readable)
           w == some("write", Out \in e.events /\ e.fd \in writable)
           f == some("error", e.fd \in failing)
<1>1. /\ \A t \in {"read", "write", "error"} : ev(t) \in E /\ ev(t).fd = e.fd /\ ev(t).type = t
      /\ \A a \in E : a.fd = e.fd => a.type \in {"read", "write", "error"} /\ a = ev(a.type)
  BY DEF Events
<1>2. Rank("read") = 1 /\ Rank("write") = 2 /\ Rank("error") = 3
  BY DEF Rank
<1>3. <<ev("read"), ev("write")>> \in R /\ <<ev("read"), ev("error")>> \in R
      /\ <<ev("write"), ev("error")>> \in R
  <2> HIDE DEF ev
  <2>1. QED
    BY <1>1, <1>2
<1>4. EventsOf(e, readable, writable, failing) = r \o w \o f
  BY DEF EventsOf
<1>5. /\ r \in Seq(E) /\ Along(r, R)
      /\ Members(r) = IF In \in e.events /\ e.fd \in readable THEN {ev("read")} ELSE {}
  <2> HIDE DEF E, ev
  <2>1. QED
    BY <1>1, OneOrNone
<1>6. /\ w \in Seq(E) /\ Along(w, R)
      /\ Members(w) = IF Out \in e.events /\ e.fd \in writable THEN {ev("write")} ELSE {}
  <2> HIDE DEF E, ev
  <2>1. QED
    BY <1>1, OneOrNone
<1>7. /\ f \in Seq(E) /\ Along(f, R)
      /\ Members(f) = IF e.fd \in failing THEN {ev("error")} ELSE {}
  <2> HIDE DEF E, ev
  <2>1. QED
    BY <1>1, OneOrNone
<1> HIDE DEF E, r, w, f, ev
<1>8. r \o w \in Seq(E) /\ Along(r \o w, R) /\ Members(r \o w) = Members(r) \cup Members(w)
  <2>1. \A a \in Members(r), b \in Members(w) : <<a, b>> \in R
    BY <1>3, <1>5, <1>6
  <2>2. QED
    BY <1>5, <1>6, <2>1, MembersOfAppended, AlongAppended
<1>9. /\ r \o w \o f \in Seq(E) /\ Along(r \o w \o f, R)
      /\ Members(r \o w \o f) = Members(r) \cup Members(w) \cup Members(f)
  <2>1. \A a \in Members(r \o w), b \in Members(f) : <<a, b>> \in R
    BY <1>3, <1>5, <1>6, <1>7, <1>8
  <2> DEFINE q == r \o w
  <2>2. q \in Seq(E) /\ Along(q, R) /\ Members(q) = Members(r) \cup Members(w)
        /\ \A a \in Members(q), b \in Members(f) : <<a, b>> \in R
    BY <1>8, <2>1
  <2> HIDE DEF q
  <2>3. /\ q \o f \in Seq(E) /\ Along(q \o f, R)
        /\ Members(q \o f) = Members(q) \cup Members(f)
    BY <1>7, <2>2, MembersOfAppended, AlongAppended
  <2>4. QED
    BY <2>2, <2>3 DEF q
<1>10. ASSUME NEW a
       PROVE  a \in Members(r \o w \o f) <=>
                  /\ a \in E /\ a.fd = e.fd
                  /\ Happens(e, a.type, readable, writable, failing)
  BY <1>1, <1>5, <1>6, <1>7, <1>9 DEF Happens
<1>11. QED
  BY <1>4, <1>9, <1>10 DEF E

\* Those of all entries: what is readable, writable or failing has its event,
\* the events of a descriptor are together, and its error comes last.
InTurn(q) ==
    \A i, j \in DOMAIN q : i < j /\ q[i].fd = q[j].fd => Rank(q[i].type) < Rank(q[j].type)

\* Waited, step by step.
Collects(u, fds, readable, writable, failing) ==
    /\ u[0] = <<>>
    /\ \A i \in 1 .. Len(fds) :
           u[i] = u[i - 1] \o EventsOf(fds[i], readable, writable, failing)

\* Waited is what its steps come to.
LEMMA WaitedByStep ==
    ASSUME NEW F, NEW fds, OneEach(fds, F), NEW readable, NEW writable, NEW failing
    PROVE  \E u : /\ Collects(u, fds, readable, writable, failing)
                  /\ Waited(fds, readable, writable, failing) = u[Len(fds)]
                  /\ u \in [0 .. Len(fds) -> Seq(Events(F))]
<1> DEFINE n == Len(fds)
           of(i) == EventsOf(fds[i], readable, writable, failing)
           T == Seq(Events(F))
           Body(u) == [i \in 0 .. n |-> IF i = 0 THEN <<>> ELSE u[i - 1] \o of(i)]
           step == [i \in 1 .. n |-> [x \in T |-> x \o of(i)]]
           base == <<>>
           w == CHOOSE u : u = Body(u)
<1>1. /\ n \in Nat /\ base \in T
      /\ \A i \in 1 .. n : fds[i].fd \in F
  BY EntryParts DEF OneEach
<1>2. Waited(fds, readable, writable, failing) = w[n]
  BY DEF Waited, EventsOf
<1>3. \A i \in 1 .. n : of(i) \in T
  <2> TAKE i \in 1 .. n
  <2> DEFINE R == Events(F) \X Events(F)
  <2>1. \A a, b \in Events(F) : <<a, b>> \in R
    OBVIOUS
  <2> HIDE DEF R
  <2>2. QED
    BY <1>1, <2>1, EventsOfEntry
<1> HIDE DEF of
<1>4. step \in Steps(n, T)
  <2>1. ASSUME NEW i \in 1 .. n, NEW x \in T PROVE x \o of(i) \in T
    BY <1>3, MembersOfAppended
  <2> HIDE DEF T
  <2>2. QED
    BY <2>1 DEF Steps
<1>5. PICK f : Follows(f, n, T, base, step)
  <2> HIDE DEF step, n, T, base
  <2>1. QED
    BY <1>1, <1>4, Recursion
<1>6. /\ f \in [0 .. n -> T] /\ f[0] = <<>>
      /\ \A i \in 1 .. n : f[i] = f[i - 1] \o of(i)
  <2>1. f \in [0 .. n -> T] /\ f[0] = <<>> /\ \A i \in 1 .. n : f[i] = step[i][f[i - 1]]
    BY <1>5 DEF Follows
  <2>2. ASSUME NEW i \in 1 .. n PROVE f[i] = f[i - 1] \o of(i)
    <3>1. i - 1 \in 0 .. n
      BY <1>1
    <3> HIDE DEF T
    <3>2. f[i - 1] \in T
      BY <2>1, <3>1
    <3>3. QED
      BY <2>1, <3>2
  <2>3. QED
    BY <2>1, <2>2
<1>7. f = Body(f)
  <2>1. \A i \in 0 .. n : i # 0 => i \in 1 .. n
    BY <1>1
  <2> HIDE DEF T
  <2>2. \A i \in 0 .. n : f[i] = Body(f)[i]
    BY <1>6, <2>1
  <2>3. QED
    BY <1>6, <2>2
<1>8. w = Body(w)
  <2> HIDE DEF Body
  <2>1. QED
    BY <1>7
<1> HIDE DEF w
<1>9. w[n] = f[n]
  <2> DEFINE S == {i \in 0 .. n : w[i] = f[i]}
  <2>1. 0 \in S
    BY <1>1, <1>6, <1>8
  <2>2. ASSUME NEW i \in S, i < n PROVE i + 1 \in S
    <3>1. i + 1 \in 1 .. n /\ i + 1 \in 0 .. n /\ (i + 1) - 1 = i /\ i + 1 # 0
      BY <1>1, <2>2
    <3>2. w[i + 1] = w[i] \o of(i + 1)
      BY <1>8, <3>1
    <3>3. f[i + 1] = f[i] \o of(i + 1)
      BY <1>6, <3>1
    <3>4. QED
      BY <3>1, <3>2, <3>3
  <2>3. n \in S
    <3>1. S \subseteq Nat
      OBVIOUS
    <3> HIDE DEF S
    <3>2. QED
      BY <1>1, <2>1, <2>2, <3>1, Induction
  <2>4. QED
    BY <2>3
<1>10. Collects(f, fds, readable, writable, failing)
  BY <1>6 DEF Collects, of
<1>11. QED
  BY <1>2, <1>6, <1>9, <1>10

\* What a wait gives the context thread: an event for each thing that happens
\* to a descriptor that is waited for it, or fails, and no other; those of the
\* first descriptor before the rest, those of each by turns with its error last.
THEOREM EventsComeInTurn ==
    ASSUME NEW F, NEW fds, OneEach(fds, F), NEW readable, NEW writable, NEW failing
    PROVE  LET q == Waited(fds, readable, writable, failing) IN
           /\ q \in Seq(Events(F))
           /\ InTurn(q)
           /\ \A i, j \in DOMAIN q : i < j /\ q[j].fd = fds[1].fd => q[i].fd = fds[1].fd
           /\ \A a : a \in Members(q) <=>
                  /\ a \in Events(F)
                  /\ \E p \in DOMAIN fds :
                         a.fd = fds[p].fd /\ Happens(fds[p], a.type, readable, writable, failing)
<1> DEFINE n == Len(fds)
           q == Waited(fds, readable, writable, failing)
           of(i) == EventsOf(fds[i], readable, writable, failing)
           does(i, type) == Happens(fds[i], type, readable, writable, failing)
           R == {c \in Events(F) \X Events(F) :
                    /\ c[1].fd = c[2].fd => Rank(c[1].type) < Rank(c[2].type)
                    /\ c[2].fd = fds[1].fd => c[1].fd = fds[1].fd}
<1>1. PICK u : /\ Collects(u, fds, readable, writable, failing) /\ q = u[n]
               /\ u \in [0 .. n -> Seq(Events(F))]
  BY WaitedByStep
<1>2. u[0] = <<>> /\ \A i \in 1 .. n : u[i] = u[i - 1] \o of(i)
  BY <1>1 DEF Collects
<1>3. /\ n \in Nat /\ DOMAIN fds = 1 .. n
      /\ \A i \in 1 .. n : fds[i].fd \in F
      /\ \A i, j \in 1 .. n : fds[i].fd = fds[j].fd => i = j
  BY EntryParts DEF OneEach
<1>4. \A a, b \in Events(F) : <<a, b>> \in R <=>
          /\ a.fd = b.fd => Rank(a.type) < Rank(b.type)
          /\ b.fd = fds[1].fd => a.fd = fds[1].fd
  OBVIOUS
<1> HIDE DEF R
<1>5. ASSUME NEW i \in 1 .. n
      PROVE  /\ of(i) \in Seq(Events(F)) /\ Along(of(i), R)
             /\ \A a : a \in Members(of(i)) <=>
                    a \in Events(F) /\ a.fd = fds[i].fd /\ does(i, a.type)
  <2>1. \A a, b \in Events(F) :
            a.fd = fds[i].fd /\ b.fd = fds[i].fd /\ Rank(a.type) < Rank(b.type) => <<a, b>> \in R
    BY <1>4
  <2>2. fds[i].fd \in F
    BY <1>3
  <2>3. QED
    BY <2>1, <2>2, EventsOfEntry
<1> HIDE DEF n, of, does, q
<1> DEFINE Among(k, a) ==
               a \in Events(F) /\ \E p \in 1 .. k : a.fd = fds[p].fd /\ does(p, a.type)
           S == {k \in 0 .. n : /\ Along(u[k], R)
                                /\ \A a : a \in Members(u[k]) <=> Among(k, a)}
<1>6. 0 \in S
  <2>1. Along(u[0], R) /\ Members(u[0]) = {} /\ 1 .. 0 = {}
    BY <1>2 DEF Along, Members
  <2>2. QED
    BY <1>3, <2>1
<1>7. ASSUME NEW k \in S, k < n PROVE k + 1 \in S
  <2>1. k \in 0 .. n /\ k + 1 \in 1 .. n /\ k + 1 \in 0 .. n /\ (k + 1) - 1 = k
        /\ 1 .. k + 1 = (1 .. k) \cup {k + 1} /\ 1 .. k \subseteq 1 .. n /\ k + 1 \notin 1 .. k
        /\ (k + 1 = 1 => k = 0) /\ 1 \in 1 .. n
    BY <1>3, <1>7
  <2>2. u[k + 1] = u[k] \o of(k + 1) /\ u[k] \in Seq(Events(F))
    BY <1>1, <1>2, <2>1
  <2>3. Along(u[k], R) /\ \A a : a \in Members(u[k]) <=> Among(k, a)
    OBVIOUS
  <2>4. \A a \in Members(u[k]), b \in Members(of(k + 1)) : <<a, b>> \in R
    <3> SUFFICES ASSUME NEW a \in Members(u[k]), NEW b \in Members(of(k + 1))
                 PROVE  <<a, b>> \in R
      OBVIOUS
    <3>1. b \in Events(F) /\ b.fd = fds[k + 1].fd
      BY <1>5, <2>1
    <3>2. PICK p \in 1 .. k : a.fd = fds[p].fd
      BY <2>3
    <3>3. a \in Events(F)
      BY <2>3
    <3>4. a.fd # b.fd /\ k + 1 # 1
      BY <1>3, <2>1, <3>1, <3>2
    <3>5. b.fd # fds[1].fd
      BY <1>3, <2>1, <3>1, <3>4
    <3>6. QED
      BY <1>4, <3>1, <3>3, <3>4, <3>5
  <2>5. Along(u[k + 1], R) /\ Members(u[k + 1]) = Members(u[k]) \cup Members(of(k + 1))
    <3>1. of(k + 1) \in Seq(Events(F)) /\ Along(of(k + 1), R)
      BY <1>5, <2>1
    <3>2. QED
      BY <2>2, <2>3, <2>4, <3>1, MembersOfAppended, AlongAppended
  <2>6. ASSUME NEW a PROVE a \in Members(u[k + 1]) <=> Among(k + 1, a)
    <3>1. a \in Members(u[k]) <=> Among(k, a)
      BY <2>3
    <3>2. a \in Members(of(k + 1)) <=>
              a \in Events(F) /\ a.fd = fds[k + 1].fd /\ does(k + 1, a.type)
      BY <1>5, <2>1
    <3>3. QED
      BY <2>1, <2>5, <3>1, <3>2
  <2>7. QED
    BY <2>1, <2>5, <2>6
<1>8. n \in S
  <2>1. S \subseteq Nat
    OBVIOUS
  <2> HIDE DEF S
  <2>2. QED
    BY <1>3, <1>6, <1>7, <2>1, Induction
<1>9. q \in Seq(Events(F)) /\ Along(q, R) /\ \A a : a \in Members(q) <=> Among(n, a)
  BY <1>1, <1>3, <1>8
<1>10. \A i \in DOMAIN q : q[i] \in Events(F)
  BY <1>9
<1>11. /\ InTurn(q)
       /\ \A i, j \in DOMAIN q : i < j /\ q[j].fd = fds[1].fd => q[i].fd = fds[1].fd
  BY <1>4, <1>9, <1>10 DEF Along, InTurn
<1>12. QED
  BY <1>3, <1>9, <1>11 DEF does, q

\* When the first event is taken, those of the same descriptor that are left
\* come later in turn.
LEMMA FirstOfTurn ==
    ASSUME NEW F, NEW q \in Seq(Events(F)), q # <<>>, InTurn(q)
    PROVE  /\ Head(q) \in Members(q) /\ Head(q) \in Events(F)
           /\ Tail(q) \in Seq(Events(F)) /\ InTurn(Tail(q))
           /\ Members(Tail(q)) \subseteq Members(q)
           /\ \A e \in Members(Tail(q)) :
                  e.fd = Head(q).fd => Rank(Head(q).type) < Rank(e.type)
<1> DEFINE n == Len(q)
           t == Tail(q)
<1>1. /\ n \in Nat \ {0} /\ DOMAIN q = 1 .. n /\ DOMAIN t = 1 .. n - 1
      /\ Head(q) = q[1] /\ t \in Seq(Events(F)) /\ q[1] \in Events(F)
      /\ \A i \in 1 .. n - 1 : t[i] = q[i + 1] /\ i + 1 \in 1 .. n /\ 1 < i + 1
      /\ 1 \in 1 .. n
  <2> DEFINE E == Events(F)
  <2>1. q \in Seq(E)
    OBVIOUS
  <2> HIDE DEF E
  <2>2. QED
    BY <2>1 DEF E
<1> HIDE DEF n, t
<1>2. InTurn(t)
  <2> SUFFICES ASSUME NEW i \in 1 .. n - 1, NEW j \in 1 .. n - 1, i < j, t[i].fd = t[j].fd
               PROVE  Rank(t[i].type) < Rank(t[j].type)
    BY <1>1 DEF InTurn
  <2>1. i + 1 < j + 1
    BY <1>1
  <2>2. QED
    BY <1>1, <2>1 DEF InTurn
<1>3. Members(t) \subseteq Members(q) /\ q[1] \in Members(q)
  BY <1>1 DEF Members
<1>4. ASSUME NEW e \in Members(t), e.fd = q[1].fd PROVE Rank(q[1].type) < Rank(e.type)
  <2>1. PICK i \in 1 .. n - 1 : e = q[i + 1] /\ i + 1 \in 1 .. n /\ 1 < i + 1
    BY <1>1 DEF Members
  <2>2. QED
    BY <1>1, <1>4, <2>1 DEF InTurn
<1>5. QED
  BY <1>1, <1>2, <1>3, <1>4 DEF t

\* No events are in turn.
LEMMA NothingMembers == Members(<<>>) = {} /\ \A F : <<>> \in Seq(Events(F)) /\ InTurn(<<>>)
BY DEF Members, InTurn
=============================================================================
