--------------------------- MODULE Notices_proofs ---------------------------
(***************************************************************************)
(* What a class may conclude from the notices of its BaseServer, for any   *)
(* connections: the contract BaseServer and ClientLink are checked to keep *)
(* makes the obvious bookkeeping of connections right.                     *)
(***************************************************************************)
EXTENDS Notices, TLAPS

Queued == [kind : Kinds, id : Lines]
Has(q, n) == \E i \in DOMAIN q : q[i] = n

\* Known, by what the queue has.
LEMMA KnownByQueue ==
    ASSUME NEW c \in Lines
    PROVE  c \in Known <=>
              /\ line[c] # "none" /\ ~Has(queue, Notice("connection", c))
              /\ line[c] = "down" => Has(queue, Notice("disconnection", c))
BY DEF Known, Told, Over, Has

LEMMA KnownByQueueNext ==
    ASSUME NEW c \in Lines
    PROVE  (c \in Known)' <=>
              /\ line'[c] # "none" /\ ~Has(queue', Notice("connection", c))
              /\ line'[c] = "down" => Has(queue', Notice("disconnection", c))
BY DEF Known, Told, Over, Has

LEMMA KnownLines == Known \subseteq Lines /\ Known' \subseteq Lines
BY DEF Known

LEMMA NoticesDiffer ==
    ASSUME NEW k, NEW l, NEW c, NEW d
    PROVE  Notice(k, c) = Notice(l, d) <=> k = l /\ c = d
BY DEF Notice

\* Append adds one notice, and Tail takes the first away.
LEMMA HasAppended ==
    ASSUME NEW q \in Seq(Queued), NEW e \in Queued, NEW n
    PROVE  Has(Append(q, e), n) <=> Has(q, n) \/ n = e
<1>1. /\ DOMAIN Append(q, e) = 1 .. Len(q) + 1 /\ DOMAIN q = 1 .. Len(q) /\ Len(q) \in Nat
      /\ \A i \in 1 .. Len(q) : Append(q, e)[i] = q[i]
      /\ Append(q, e)[Len(q) + 1] = e
  OBVIOUS
<1>2. QED
  BY <1>1 DEF Has

LEMMA HasBefore ==
    ASSUME NEW q \in Seq(Queued), q # <<>>, NEW n
    PROVE  Has(q, n) <=> n = Head(q) \/ Has(Tail(q), n)
<1>1. /\ DOMAIN q = 1 .. Len(q) /\ Len(q) \in Nat \ {0} /\ DOMAIN Tail(q) = 1 .. Len(q) - 1
      /\ Head(q) = q[1]
      /\ \A i \in 1 .. Len(q) - 1 : Tail(q)[i] = q[i + 1]
  OBVIOUS
<1>2. ASSUME Has(q, n) PROVE n = Head(q) \/ Has(Tail(q), n)
  <2>1. PICK i \in 1 .. Len(q) : q[i] = n
    BY <1>1, <1>2 DEF Has
  <2>2. CASE i = 1
    BY <1>1, <2>1, <2>2
  <2>3. CASE i # 1
    <3>1. i - 1 \in 1 .. Len(q) - 1 /\ (i - 1) + 1 = i
      BY <1>1, <2>3
    <3>2. QED
      BY <1>1, <2>1, <3>1 DEF Has
  <2>4. QED
    BY <2>2, <2>3
<1>3. ASSUME Has(Tail(q), n) PROVE Has(q, n)
  <2>1. PICK i \in 1 .. Len(q) - 1 : Tail(q)[i] = n
    BY <1>1, <1>3 DEF Has
  <2>2. i + 1 \in 1 .. Len(q)
    BY <1>1
  <2>3. QED
    BY <1>1, <2>1, <2>2 DEF Has
<1>4. ASSUME n = Head(q) PROVE Has(q, n)
  BY <1>1, <1>4 DEF Has
<1>5. QED
  BY <1>2, <1>3, <1>4

-----------------------------------------------------------------------------
\* Nothing has been told and nothing is queued in the beginning.
LEMMA InitOrdered == Init => Ordered
BY DEF Init, Ordered

\* A notice that comes in turn keeps the order.
LEMMA QueueOrdered ==
    ASSUME Ordered, NEW c \in Lines, NEW kind \in Kinds,
           queue' = Append(queue, Notice(kind, c)),
           line' \in [Lines -> {"none", "up", "down"}],
           \A d \in Lines \ {c} : line'[d] = line[d],
           line[c] # "down", line'[c] # "none",
           kind = "connection" => line[c] = "none",
           kind = "disconnection" <=> line'[c] = "down"
    PROVE  Ordered'
<1> DEFINE e == Notice(kind, c)
           n == Len(queue) + 1
<1>1. queue \in Seq(Queued) /\ e \in Queued /\ e.id = c /\ e.kind = kind
  BY DEF Ordered, Queued, Notice
<1>2. /\ queue' \in Seq(Queued) /\ DOMAIN queue' = 1 .. n /\ DOMAIN queue = 1 .. n - 1 /\ n \in Nat
      /\ \A i \in 1 .. n - 1 : queue'[i] = queue[i] /\ queue[i].id \in Lines
      /\ queue'[n] = e
  <2>1. \A i \in 1 .. Len(queue) : queue[i] \in Queued
    BY <1>1
  <2>2. QED
    BY <1>1, <2>1 DEF Queued
<1> HIDE DEF e, n
<1>3. \A i \in 1 .. n - 1 : queue[i].id = c =>
          line[c] = "up" /\ queue[i].kind # "disconnection"
  BY <1>2 DEF Ordered
<1>4. ASSUME NEW i \in 1 .. n
      PROVE  /\ line'[queue'[i].id] # "none"
             /\ queue'[i].kind = "disconnection" => line'[queue'[i].id] = "down"
             /\ queue'[i].kind # "disconnection" /\ line'[queue'[i].id] = "down" =>
                    \E j \in 1 .. n : queue'[j] = Notice("disconnection", queue'[i].id)
  <2>1. CASE i = n
    BY <1>1, <1>2, <2>1
  <2>2. CASE i \in 1 .. n - 1 /\ queue[i].id = c
    <3>1. queue'[i].id = c /\ queue'[i].kind # "disconnection"
      BY <1>2, <1>3, <2>2
    <3>2. line'[c] = "down" => queue'[n] = Notice("disconnection", c)
      BY <1>2 DEF e
    <3>3. n \in 1 .. n
      BY <1>2
    <3>4. QED
      BY <3>1, <3>2, <3>3
  <2>3. CASE i \in 1 .. n - 1 /\ queue[i].id # c
    <3>1. queue'[i] = queue[i] /\ line'[queue[i].id] = line[queue[i].id]
      BY <1>2, <2>3
    <3>2. \A j \in 1 .. n - 1 : j \in 1 .. n /\ queue'[j] = queue[j]
      BY <1>2
    <3>3. /\ line[queue[i].id] # "none"
          /\ queue[i].kind = "disconnection" => line[queue[i].id] = "down"
          /\ queue[i].kind # "disconnection" /\ line[queue[i].id] = "down" =>
                 \E j \in 1 .. n - 1 : queue[j] = Notice("disconnection", queue[i].id)
      BY <1>2, <2>3 DEF Ordered
    <3>4. QED
      BY <3>1, <3>2, <3>3
  <2>4. QED
    BY <1>2, <2>1, <2>2, <2>3
<1>5. ASSUME NEW i \in 1 .. n, NEW j \in 1 .. n, i < j, queue'[i].id = queue'[j].id
      PROVE  queue'[i].kind # "disconnection" /\ queue'[j].kind # "connection"
  <2>1. i \in 1 .. n - 1 /\ queue'[i] = queue[i]
    BY <1>2, <1>5
  <2>2. CASE j = n
    BY <1>1, <1>2, <1>3, <1>5, <2>1, <2>2
  <2>3. CASE j \in 1 .. n - 1
    BY <1>2, <1>5, <2>1, <2>3 DEF Ordered
  <2>4. QED
    BY <1>2, <2>2, <2>3
<1>6. QED
  BY <1>2, <1>4, <1>5 DEF Ordered, Queued

\* So does telling the first notice.
LEMMA TellOrdered ==
    ASSUME Ordered, NEW c \in Lines, NEW kind \in Kinds, Tell(kind, c)
    PROVE  Ordered'
<1> DEFINE n == Len(queue)
<1>1. queue \in Seq(Queued) /\ queue # <<>> /\ line' = line /\ queue' = Tail(queue)
  BY DEF Ordered, Queued, Tell
<1>2. /\ queue' \in Seq(Queued) /\ DOMAIN queue' = 1 .. n - 1 /\ DOMAIN queue = 1 .. n
      /\ n \in Nat \ {0}
      /\ \A i \in 1 .. n - 1 : queue'[i] = queue[i + 1] /\ i + 1 \in 1 .. n
  BY <1>1
<1> HIDE DEF n
<1>3. ASSUME NEW i \in 1 .. n - 1, queue[i + 1].kind # "disconnection",
             line[queue[i + 1].id] = "down"
      PROVE  \E j \in 1 .. n - 1 : queue'[j] = Notice("disconnection", queue[i + 1].id)
  <2>1. PICK k \in 1 .. n : queue[k] = Notice("disconnection", queue[i + 1].id)
    BY <1>2, <1>3 DEF Ordered
  <2>2. queue[k].kind = "disconnection" /\ queue[k].id = queue[i + 1].id
    BY <2>1 DEF Notice
  <2>3. k # 1
    BY <1>2, <2>2 DEF Ordered
  <2>4. k - 1 \in 1 .. n - 1 /\ (k - 1) + 1 = k
    BY <1>2, <2>3
  <2>5. QED
    BY <1>2, <2>1, <2>4
<1>4. ASSUME NEW i \in 1 .. n - 1
      PROVE  /\ line'[queue'[i].id] # "none"
             /\ queue'[i].kind = "disconnection" => line'[queue'[i].id] = "down"
             /\ queue'[i].kind # "disconnection" /\ line'[queue'[i].id] = "down" =>
                    \E j \in 1 .. n - 1 : queue'[j] = Notice("disconnection", queue'[i].id)
  <2>1. queue'[i] = queue[i + 1] /\ i + 1 \in DOMAIN queue
    BY <1>2
  <2>2. /\ line[queue[i + 1].id] # "none"
        /\ queue[i + 1].kind = "disconnection" => line[queue[i + 1].id] = "down"
    BY <2>1 DEF Ordered
  <2>3. QED
    BY <1>1, <1>3, <2>1, <2>2
<1>5. ASSUME NEW i \in 1 .. n - 1, NEW j \in 1 .. n - 1, i < j, queue'[i].id = queue'[j].id
      PROVE  queue'[i].kind # "disconnection" /\ queue'[j].kind # "connection"
  <2>1. /\ i + 1 < j + 1 /\ i + 1 \in DOMAIN queue /\ j + 1 \in DOMAIN queue
        /\ queue'[i] = queue[i + 1] /\ queue'[j] = queue[j + 1]
    BY <1>2, <1>5
  <2>2. queue[i + 1].id = queue[j + 1].id
    BY <1>5, <2>1
  <2>3. \A k, l \in DOMAIN queue : k < l /\ queue[k].id = queue[l].id =>
            queue[k].kind # "disconnection" /\ queue[l].kind # "connection"
    BY DEF Ordered
  <2>4. QED
    BY <2>1, <2>2, <2>3
<1>6. line' \in [Lines -> {"none", "up", "down"}]
  BY <1>1 DEF Ordered
<1>7. QED
  BY <1>2, <1>4, <1>5, <1>6 DEF Ordered, Queued

\* Ordered is an invariant of its own.
LEMMA NextOrdered ==
    ASSUME Ordered, [Next]_vars
    PROVE  Ordered'
<1>1. ASSUME UNCHANGED vars PROVE Ordered'
  BY <1>1 DEF vars, Ordered
<1>2. ASSUME NEW c \in Lines, Up(c) PROVE Ordered'
  <2>1. line' \in [Lines -> {"none", "up", "down"}] /\ line'[c] = "up"
        /\ \A d \in Lines \ {c} : line'[d] = line[d]
    BY <1>2 DEF Up, Ordered
  <2>2. QED
    BY <1>2, <2>1, QueueOrdered DEF Up, Kinds
<1>3. ASSUME NEW c \in Lines, Read(c) PROVE Ordered'
  <2>1. line' \in [Lines -> {"none", "up", "down"}] /\ line' = line
    BY <1>3 DEF Read, Ordered
  <2>2. QED
    BY <1>3, <2>1, QueueOrdered DEF Read, Kinds
<1>4. ASSUME NEW c \in Lines, Down(c) PROVE Ordered'
  <2>1. line' \in [Lines -> {"none", "up", "down"}] /\ line'[c] = "down"
        /\ \A d \in Lines \ {c} : line'[d] = line[d]
    BY <1>4 DEF Down, Ordered
  <2>2. QED
    BY <1>4, <2>1, QueueOrdered DEF Down, Kinds
<1>5. QED
  BY <1>1, <1>2, <1>3, <1>4, TellOrdered DEF Next

\* The notices a connection has in the queue come in its order, and its end is
\* queued as long as anything of it is that came before.
THEOREM NoticesStayOrdered == Spec => []Ordered
<1>1. Init => Ordered
  BY InitOrdered
<1>2. Ordered /\ [Next]_vars => Ordered'
  BY NextOrdered
<1>3. QED
  BY <1>1, <1>2, PTL DEF Spec

-----------------------------------------------------------------------------
\* What is queued does not change what is known ...
LEMMA QueueKeepsKnown ==
    ASSUME Ordered, NEW c \in Lines, Up(c) \/ Read(c) \/ Down(c)
    PROVE  Known' = Known
<1>1. queue \in Seq(Queued) /\ line \in [Lines -> {"none", "up", "down"}]
  BY DEF Ordered, Queued
<1>2. PICK kind \in Kinds : queue' = Append(queue, Notice(kind, c))
  BY DEF Up, Read, Down, Kinds
<1>3. Notice(kind, c) \in Queued
  BY DEF Notice, Queued
<1>4. \A n : Has(queue', n) <=> Has(queue, n) \/ n = Notice(kind, c)
  BY <1>1, <1>2, <1>3, HasAppended
<1>5. ASSUME NEW d \in Lines \ {c} PROVE d \in Known' <=> d \in Known
  <2>1. line'[d] = line[d]
    BY <1>1, <1>5 DEF Up, Read, Down
  <2>2. \A k : Has(queue', Notice(k, d)) <=> Has(queue, Notice(k, d))
    BY <1>4, <1>5, NoticesDiffer
  <2>3. QED
    BY <2>1, <2>2, KnownByQueue, KnownByQueueNext
<1>6. c \in Known' <=> c \in Known
  <2>1. CASE Up(c)
    <3>1. kind = "connection"
      BY <1>1, <1>2, <1>3, <2>1 DEF Up, Notice
    <3>2. c \notin Known
      BY <2>1, KnownByQueue DEF Up
    <3>3. c \notin Known'
      BY <1>4, <3>1, KnownByQueueNext
    <3>4. QED
      BY <3>2, <3>3
  <2>2. CASE Read(c)
    <3>1. kind = "read" /\ line' = line /\ line[c] = "up"
      BY <1>1, <1>2, <1>3, <2>2 DEF Read, Notice
    <3>2. Has(queue', Notice("connection", c)) <=> Has(queue, Notice("connection", c))
      BY <1>4, <3>1, NoticesDiffer
    <3>3. QED
      BY <3>1, <3>2, KnownByQueue, KnownByQueueNext
  <2>3. CASE Down(c)
    <3>1. kind = "disconnection" /\ line[c] = "up" /\ line'[c] = "down"
      BY <1>1, <1>2, <1>3, <2>3 DEF Down, Notice
    <3>2. /\ Has(queue', Notice("connection", c)) <=> Has(queue, Notice("connection", c))
          /\ Has(queue', Notice("disconnection", c))
      BY <1>4, <3>1, NoticesDiffer
    <3>3. QED
      BY <3>1, <3>2, KnownByQueue, KnownByQueueNext
  <2>4. QED
    BY <2>1, <2>2, <2>3
<1>7. QED
  BY <1>5, <1>6, KnownLines

\* ... and what is told does as it should.  Of the connection told of first:
LEMMA FirstNotice ==
    ASSUME Ordered, NEW c \in Lines, NEW kind \in Kinds, Tell(kind, c)
    PROVE  /\ line[c] # "none"
           /\ ~Has(Tail(queue), Notice("connection", c))
           /\ kind = "disconnection" =>
                  line[c] = "down" /\ ~Has(Tail(queue), Notice("disconnection", c))
           /\ kind # "disconnection" /\ line[c] = "down" =>
                  Has(Tail(queue), Notice("disconnection", c))
<1>1. queue \in Seq(Queued) /\ queue # <<>> /\ Head(queue) = Notice(kind, c)
  BY DEF Ordered, Queued, Tell
<1>2. /\ DOMAIN queue = 1 .. Len(queue) /\ DOMAIN Tail(queue) = 1 .. Len(queue) - 1
      /\ 1 \in DOMAIN queue /\ queue[1] = Notice(kind, c)
      /\ \A i \in DOMAIN Tail(queue) :
             Tail(queue)[i] = queue[i + 1] /\ i + 1 \in DOMAIN queue /\ 1 < i + 1
  BY <1>1
<1>3. queue[1].id = c /\ queue[1].kind = kind
  BY <1>2 DEF Notice
<1>4. /\ line[c] # "none"
      /\ kind = "disconnection" => line[c] = "down"
  BY <1>2, <1>3 DEF Ordered
<1>5. ASSUME NEW k, Has(Tail(queue), Notice(k, c))
      PROVE  kind # "disconnection" /\ k # "connection"
  <2>1. PICK i \in DOMAIN Tail(queue) : Tail(queue)[i] = Notice(k, c)
    BY <1>5 DEF Has
  <2>2. /\ i + 1 \in DOMAIN queue /\ 1 < i + 1
        /\ queue[i + 1].id = c /\ queue[i + 1].kind = k
    BY <1>2, <2>1 DEF Notice
  <2>3. \A m, n \in DOMAIN queue : m < n /\ queue[m].id = queue[n].id =>
            queue[m].kind # "disconnection" /\ queue[n].kind # "connection"
    BY DEF Ordered
  <2>4. QED
    BY <1>2, <1>3, <2>2, <2>3
<1>6. ASSUME kind # "disconnection", line[c] = "down"
      PROVE  Has(Tail(queue), Notice("disconnection", c))
  <2>1. Has(queue, Notice("disconnection", c))
    BY <1>2, <1>3, <1>6 DEF Ordered, Has
  <2>2. Notice("disconnection", c) # Head(queue)
    BY <1>1, <1>6, NoticesDiffer
  <2>3. QED
    BY <1>1, <2>1, <2>2, HasBefore
<1>7. QED
  BY <1>4, <1>5, <1>6

LEMMA TellKnown ==
    ASSUME Ordered, NEW c \in Lines, NEW kind \in Kinds, Tell(kind, c)
    PROVE  \/ kind = "connection" /\ c \notin Known /\ Known' = Known \cup {c}
           \/ kind = "read" /\ c \in Known /\ Known' = Known
           \/ kind = "disconnection" /\ c \in Known /\ Known' = Known \ {c}
<1>1. /\ queue \in Seq(Queued) /\ queue # <<>> /\ Head(queue) = Notice(kind, c)
      /\ queue' = Tail(queue) /\ line' = line
  BY DEF Ordered, Queued, Tell
<1>2. \A n : Has(queue, n) <=> n = Notice(kind, c) \/ Has(queue', n)
  BY <1>1, HasBefore
<1>3. ASSUME NEW d \in Lines \ {c} PROVE d \in Known' <=> d \in Known
  <2>1. \A k : Has(queue', Notice(k, d)) <=> Has(queue, Notice(k, d))
    BY <1>2, <1>3, NoticesDiffer
  <2>2. QED
    BY <1>1, <2>1, KnownByQueue, KnownByQueueNext
<1>4. /\ line[c] # "none"
      /\ ~Has(queue', Notice("connection", c))
      /\ kind = "disconnection" =>
             line[c] = "down" /\ ~Has(queue', Notice("disconnection", c))
      /\ kind # "disconnection" /\ line[c] = "down" =>
             Has(queue', Notice("disconnection", c))
  BY <1>1, FirstNotice
<1>5. c \in Known' <=> kind # "disconnection"
  BY <1>1, <1>4, KnownByQueueNext
<1>6. c \in Known <=> kind # "connection"
  <2>1. Has(queue, Notice("connection", c)) <=> kind = "connection"
    BY <1>2, <1>4, NoticesDiffer
  <2>2. line[c] = "down" => Has(queue, Notice("disconnection", c))
    BY <1>2, <1>4
  <2>3. QED
    BY <1>4, <2>1, <2>2, KnownByQueue
<1>7. kind = "connection" \/ kind = "read" \/ kind = "disconnection"
  BY DEF Kinds
<1>8. Known' \ {c} = Known \ {c}
  BY <1>3, KnownLines
<1>9. QED
  BY <1>5, <1>6, <1>7, <1>8

\* A class that adds the connections it is told of and removes those whose end
\* it is told has exactly the known ones: net::Server's _clients.
THEOREM NoticesComeInTurn == Spec => TellsInTurn
<1> DEFINE A == \/ \E c \in Lines :
                      \/ Tell("connection", c) /\ c \notin Known /\ Known' = Known \cup {c}
                      \/ Tell("read", c) /\ c \in Known /\ Known' = Known
                      \/ Tell("disconnection", c) /\ c \in Known /\ Known' = Known \ {c}
                \/ Known' = Known /\ \A c \in Lines, kind \in Kinds : ~Tell(kind, c)
<1>1. ASSUME Ordered, [Next]_vars PROVE [A]_vars
  <2>1. ASSUME NEW c \in Lines, NEW kind \in Kinds, Tell(kind, c) PROVE A
    BY <1>1, <2>1, TellKnown
  <2>2. ASSUME NEW c \in Lines, Up(c) \/ Read(c) \/ Down(c) PROVE A
    <3>1. Known' = Known
      BY <1>1, <2>2, QueueKeepsKnown
    <3>2. Len(queue') = Len(queue) + 1 /\ Len(queue) \in Nat
      <4>1. queue \in Seq(Queued)
        BY <1>1 DEF Ordered, Queued
      <4>2. PICK k \in Kinds : queue' = Append(queue, Notice(k, c))
        BY <2>2 DEF Up, Read, Down, Kinds
      <4>3. Notice(k, c) \in Queued
        BY DEF Notice, Queued
      <4>4. QED
        BY <4>1, <4>2, <4>3
    <3>3. \A d \in Lines, kind \in Kinds : ~Tell(kind, d)
      <4>1. queue \in Seq(Queued)
        BY <1>1 DEF Ordered, Queued
      <4>2. queue # <<>> => Len(Tail(queue)) = Len(queue) - 1
        BY <4>1
      <4>3. QED
        BY <3>2, <4>2 DEF Tell
    <3>4. QED
      BY <3>1, <3>3
  <2>3. QED
    BY <1>1, <2>1, <2>2 DEF Next
<1>2. QED
  BY <1>1, NoticesStayOrdered, PTL DEF Spec, TellsInTurn
=============================================================================
