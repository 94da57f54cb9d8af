-------------------------- MODULE BaseServer_proofs --------------------------
(***************************************************************************)
(* A hosting BaseServer keeps its promise to the class above it, drops no  *)
(* connection without a reason, and its poll and the events of a round are *)
(* of the connections they were meant for: for any number of connections,  *)
(* starts of the context, bytes and packets, and whatever calls fail.      *)
(***************************************************************************)
EXTENDS BaseServer, PollSet_proofs

NoticeProofs == INSTANCE Notices_proofs WITH
    Lines <- Conns,
    line <- [id \in Conns |-> Line(id)],
    queue <- tcpEvents

USE BaseServerAssumption

-----------------------------------------------------------------------------
(* The inductive invariant. *)

Descriptors == Fds \cup {Listener}
PollEvents == [fd : Descriptors, type : {"read", "write", "error"}, id : Conns \cup {0}]

\* The peers and what is on its way from them.
PeersCounted ==
    /\ knocked \in 0 .. MaxConns
    /\ peer \in [Conns -> {"none", "open", "closed", "reset"}]
    /\ sent \in [Conns -> 0 .. MaxBytes]
    /\ wire \in [Conns -> Nat]
    /\ \A id \in Conns : wire[id] <= sent[id]

\* The connections are some of those accepted, each with a descriptor of its
\* own.
ConnsKnown ==
    /\ accepted \in 0 .. knocked /\ refused \subseteq 1 .. accepted /\ since \in 0 .. accepted
    /\ DOMAIN conns \subseteq (1 .. accepted) \ refused
    /\ conns \in [DOMAIN conns -> Fds]
    /\ \A id, other \in DOMAIN conns : conns[id] = conns[other] => id = other
    /\ out \in [Conns -> 0 .. OutCapacity]

\* Where the context thread is fits the connection it is at, and what is left
\* of the round.
JobFits ==
    /\ ctx \in {"top", "events", "insert", "drain", "send", "close", "erase", "announce", "off"}
    /\ job \in [id : Conns \cup {0}, reader : BOOLEAN, back : {"events", "drain"}]
    /\ running \in BOOLEAN
    /\ ~running /\ ctx # "off" => main = "joining"
    /\ ctx = "insert" => /\ job.id = accepted /\ since < accepted
                         /\ job.id \notin DOMAIN conns \cup refused
    /\ ctx \in {"close", "erase"} => job.id \in DOMAIN conns
    /\ ctx = "announce" => job.id \in (1 .. accepted) \ (DOMAIN conns \cup refused)
    /\ ctx \in {"close", "erase", "announce"} /\ job.back = "drain" => events = <<>>
    /\ ctx \in {"top", "drain", "send", "off"} => events = <<>>

\* The poll has one entry for each descriptor, the listener first.
PollKept ==
    /\ OneEach(polled, Descriptors)
    /\ PollSetMatchesConnections
    /\ Listener \in FdsOf(polled) => polled[1].fd = Listener

\* The events of a round are of the connections they were found for.  That of
\* the listener is taken before anything else happens, so that the descriptor
\* of a connection closed in this round is given out in a later one.
EventsFit ==
    /\ events \in Seq(PollEvents)
    /\ EventsKeepTheirConnection
    /\ \A j \in DOMAIN events : events[j].type = "error" =>
           \A id \in Holders(events[j].fd) : peer[id] # "open"
    /\ \A j \in DOMAIN events : events[j].fd = Listener =>
           /\ j = 1 /\ events[j].type = "read" /\ ctx = "events" /\ accepted < knocked
           /\ \A k \in DOMAIN events : events[k].fd \in Range(conns) \cup {Listener}
    /\ ctx = "insert" => \A j \in DOMAIN events : events[j].fd # LowestFreeFd

\* The buffers and what the main thread has.
MainFits ==
    /\ buffer \in [Conns -> [pos : 0 .. Capacity, filled : 0 .. Capacity]]
    /\ \A id \in Conns : buffer[id].pos <= buffer[id].filled
    /\ connLock \in {"free", "context", "main"}
    /\ disconnects \in Seq(Conns) /\ sends \in Seq(Conns)
    /\ hosted \in BOOLEAN /\ starts \in 0 .. MaxStarts
    /\ main \in {"idle", "found", "peek", "packet", "consume", "thrown", "joining"}
    /\ reading \in Conns \cup {0}
    /\ main \in {"found", "peek", "packet", "consume", "thrown"} => reading \in Conns
    /\ asked \subseteq Conns /\ written \in 0 .. MaxSends /\ taken \in [Conns -> Nat]

ToldInTurn == Promise!Ordered /\ ClientsFollowConnections

\* A connection that is being closed has a reason, and what the program asked
\* to drop is asked for until it is over.
DropsHaveReasons ==
    /\ ctx \in {"close", "erase"} =>
           \/ peer[job.id] # "open"
           \/ job.id \in asked
           \/ job.reader /\ Unread(job.id) > 0 /\ buffer[job.id].filled = Capacity
    /\ \A j \in DOMAIN disconnects :
           disconnects[j] \in asked \/ Line(disconnects[j]) = "down"

ServerInv ==
    /\ PeersCounted /\ ConnsKnown /\ JobFits /\ PollKept /\ EventsFit
    /\ MainFits /\ ToldInTurn /\ DropsHaveReasons

-----------------------------------------------------------------------------
(* The helpers of the model. *)

\* A set of numbers has a smallest one.
LEMMA SmallestOne ==
    ASSUME NEW S, S \subseteq Nat, S # {}
    PROVE  Min(S) \in S
<1> SUFFICES ASSUME ~\E x \in S : \A y \in S : x =< y PROVE FALSE
  BY DEF Min
<1> DEFINE T == {n \in Nat : \A y \in S : n =< y}
<1>1. PICK x : x \in S
  OBVIOUS
<1>2. 0 \in T
  OBVIOUS
<1>3. ASSUME NEW n \in T PROVE n + 1 \in T
  <2>1. \A y \in S : n =< y /\ n # y
    OBVIOUS
  <2>2. \A y \in S : n + 1 =< y
    BY <2>1
  <2>3. QED
    BY <2>2
<1>4. x + 1 \in T
  <2>1. x + 1 \in Nat /\ T \subseteq Nat
    BY <1>1
  <2> HIDE DEF T
  <2>2. QED
    BY <1>2, <1>3, <2>1, Induction
<1>5. QED
  BY <1>1, <1>4

\* There is a descriptor for each of MaxConns connections.
LEMMA FreeFd ==
    ASSUME NEW n \in Nat, n < MaxConns, DOMAIN conns \subseteq 1 .. n,
           conns \in [DOMAIN conns -> Fds]
    PROVE  LowestFreeFd \in Fds /\ LowestFreeFd \notin Range(conns)
<1> DEFINE free == Fds \ Range(conns)
<1>1. free # {}
  <2> SUFFICES ASSUME free = {} PROVE FALSE
    OBVIOUS
  <2> DEFINE holder(fd) == CHOOSE id \in DOMAIN conns : conns[id] = fd
             f == [fd \in Fds |-> holder(fd)]
             N == 1 .. n
  <2>1. \A fd \in Fds : holder(fd) \in DOMAIN conns /\ conns[holder(fd)] = fd
    BY DEF Range
  <2>2. f \in [Fds -> N] /\ \A fd \in Fds : conns[f[fd]] = fd
    BY <2>1
  <2> HIDE DEF f
  <2>3. /\ IsFiniteSet(Fds) /\ Cardinality(Fds) = MaxConns
        /\ IsFiniteSet(N) /\ Cardinality(N) = n
    <3>1. \A m \in Nat : IsFiniteSet(1 .. m) /\ Cardinality(1 .. m) = m
      <4> TAKE m \in Nat
      <4>1. 1 \in Int /\ m \in Int
        OBVIOUS
      <4>2. IsFiniteSet(1 .. m) /\ Cardinality(1 .. m) = IF 1 > m THEN 0 ELSE m - 1 + 1
        BY ONLY <4>1, FS_Interval
      <4>3. QED
        BY <4>2
    <3>2. MaxConns \in Nat
      OBVIOUS
    <3>3. QED
      BY <3>1, <3>2 DEF Fds
  <2> HIDE DEF N
  <2>4. \E x, y \in Fds : x # y /\ f[x] = f[y]
    BY <2>2, <2>3, FS_PigeonHole
  <2>5. QED
    BY <2>2, <2>4
<1>2. free \subseteq Nat
  BY DEF Fds
<1>3. LowestFreeFd \in free
  BY <1>1, <1>2, SmallestOne DEF LowestFreeFd
<1>4. QED
  BY <1>3

\* In each state that looks for one:
LEMMA FdIsFree ==
    ASSUME ConnsKnown, PeersCounted,
           accepted < knocked \/ (JobFits /\ ctx = "insert")
    PROVE  LowestFreeFd \in Fds /\ LowestFreeFd \notin Range(conns)
<1>1. /\ accepted \in Nat /\ accepted <= MaxConns
      /\ DOMAIN conns \subseteq 1 .. accepted /\ conns \in [DOMAIN conns -> Fds]
  BY DEF ConnsKnown, PeersCounted
<1>2. CASE accepted < knocked
  <2>1. accepted < MaxConns
    BY <1>2 DEF ConnsKnown, PeersCounted
  <2>2. QED
    BY <1>1, <2>1, FreeFd
<1>3. CASE JobFits /\ ctx = "insert"
  <2>1. accepted \notin DOMAIN conns /\ accepted # 0
    BY <1>3 DEF JobFits, ConnsKnown
  <2>2. accepted - 1 \in Nat /\ accepted - 1 < MaxConns /\ DOMAIN conns \subseteq 1 .. accepted - 1
    BY <1>1, <2>1
  <2>3. QED
    BY <1>1, <2>2, FreeFd
<1>4. QED
  BY <1>2, <1>3

\* Each descriptor has one holder.
LEMMA OneHolder ==
    ASSUME ConnsKnown
    PROVE  /\ \A id \in DOMAIN conns : Holders(conns[id]) = {id} /\ Max({id}) = id
           /\ Holders(Listener) = {} /\ Listener \notin Range(conns) /\ Range(conns) \subseteq Fds
           /\ \A fd : Holders(fd) # {} <=> fd \in Range(conns)
<1>1. \A id \in DOMAIN conns : Holders(conns[id]) = {id}
  BY DEF ConnsKnown, Holders
<1>2. \A id \in DOMAIN conns : Max({id}) = id
  BY DEF ConnsKnown, Max
<1>3. \A fd : Holders(fd) # {} <=> fd \in Range(conns)
  BY DEF Holders, Range
<1>4. Range(conns) \subseteq Fds /\ Listener \notin Fds
  BY DEF ConnsKnown, Range, Fds, Listener
<1>5. QED
  BY <1>1, <1>2, <1>3, <1>4

\* What prepare_write leaves: what is waited for data stays, and what is
\* waited for writing was before, or is a connection.
PreparedLike ==
    {x \in Seq(Entry(Descriptors)) :
        /\ OneEach(x, Descriptors)
        /\ Asking(x, In) = Asking(polled, In)
        /\ Asking(x, Out) \subseteq Asking(polled, Out) \cup Range(conns)
        /\ Listener \in FdsOf(polled) => x # <<>> /\ x[1].fd = Listener}

LEMMA PreparedOne ==
    ASSUME ConnsKnown, NEW x \in PreparedLike, NEW id \in DOMAIN conns
    PROVE  WriteAdded(x, conns[id]) \in PreparedLike /\ WriteRemoved(x, conns[id]) \in PreparedLike
<1> DEFINE fd == conns[id]
           a == WriteAdded(x, fd)
           r == WriteRemoved(x, fd)
<1>1. fd \in Fds /\ fd \in Descriptors /\ fd # Listener /\ fd \in Range(conns)
  BY DEF ConnsKnown, Descriptors, Range, Fds, Listener
<1>2. /\ OneEach(x, Descriptors)
      /\ Asking(x, In) = Asking(polled, In)
      /\ Asking(x, Out) \subseteq Asking(polled, Out) \cup Range(conns)
      /\ Listener \in FdsOf(polled) => x # <<>> /\ x[1].fd = Listener
  BY DEF PreparedLike
<1> HIDE DEF fd
<1>3. /\ OneEach(a, Descriptors)
      /\ Asking(a, Out) = Asking(x, Out) \cup {fd}
      /\ Asking(a, In) = Asking(x, In)
      /\ x # <<>> => a # <<>> /\ a[1].fd = x[1].fd
  <2>1. In \in {In, Out} \ {Out} /\ Out \in {In, Out}
    BY DEF In, Out
  <2>2. QED
    BY <1>1, <1>2, <2>1, AskedForOneEach DEF WriteAdded
<1>4. /\ OneEach(r, Descriptors)
      /\ Asking(r, In) = Asking(x, In)
      /\ Asking(r, Out) = Asking(x, Out) \ {fd}
      /\ x # <<>> /\ x[1].fd # fd => r # <<>> /\ r[1].fd = x[1].fd
  BY <1>2, WriteRemovedOneEach
<1> HIDE DEF a, r
<1>5. a \in PreparedLike
  BY <1>1, <1>2, <1>3 DEF PreparedLike, OneEach
<1>6. r \in PreparedLike
  BY <1>1, <1>2, <1>4 DEF PreparedLike, OneEach
<1>7. QED
  BY <1>5, <1>6 DEF a, r, fd

LEMMA PreparedPoll ==
    ASSUME ConnsKnown, PollKept
    PROVE  Prepared \in PreparedLike
<1> DEFINE n == MaxConns
           T == PreparedLike
           next(i, x) == IF i \notin DOMAIN conns THEN x
                         ELSE IF out[i] > 0 THEN WriteAdded(x, conns[i])
                         ELSE WriteRemoved(x, conns[i])
           Body(u) == [i \in 0 .. n |-> IF i = 0 THEN polled ELSE next(i, u[i - 1])]
           step == [i \in 1 .. n |-> [x \in T |-> next(i, x)]]
           w == CHOOSE u : u = Body(u)
<1>1. n \in Nat
  OBVIOUS
<1>2. Prepared = w[n]
  BY DEF Prepared
<1>3. polled \in T
  <2>1. OneEach(polled, Descriptors) /\ (Listener \in FdsOf(polled) => polled[1].fd = Listener)
    BY DEF PollKept
  <2>2. polled \in Seq(Entry(Descriptors)) /\ (Listener \in FdsOf(polled) => polled # <<>>)
    BY <2>1 DEF OneEach, FdsOf
  <2>3. QED
    BY <2>1, <2>2 DEF PreparedLike
<1>4. \A i \in 1 .. n, x \in T : next(i, x) \in T
  <2> HIDE DEF T, n
  <2> SUFFICES ASSUME NEW i \in 1 .. n, NEW x \in T PROVE next(i, x) \in T
    OBVIOUS
  <2>1. CASE i \notin DOMAIN conns
    BY <2>1
  <2>2. CASE i \in DOMAIN conns
    BY <2>2, PreparedOne DEF T
  <2>3. QED
    BY <2>1, <2>2
<1> HIDE DEF next, T
<1>5. step \in Steps(n, T)
  BY <1>4 DEF Steps
<1>6. PICK f : Follows(f, n, T, polled, step)
  <2> HIDE DEF step, n
  <2>1. QED
    BY <1>1, <1>3, <1>5, Recursion
<1>7. f = Body(f)
  <2>1. /\ f \in [0 .. n -> T] /\ f[0] = polled
        /\ \A i \in 1 .. n : f[i] = step[i][f[i - 1]] /\ i - 1 \in 0 .. n
    BY <1>1, <1>6 DEF Follows
  <2>2. \A i \in 1 .. n : f[i] = next(i, f[i - 1])
    BY <2>1
  <2>3. \A i \in 0 .. n : i # 0 => i \in 1 .. n
    BY <1>1
  <2>4. \A i \in 0 .. n : f[i] = Body(f)[i]
    BY <2>1, <2>2, <2>3
  <2>5. QED
    BY <2>1, <2>4
<1>8. w = Body(w)
  <2> HIDE DEF Body
  <2>1. QED
    BY <1>7
<1> HIDE DEF w
<1>9. w[n] \in T
  <2> DEFINE S == {i \in 0 .. n : w[i] \in T}
  <2>1. 0 \in S
    BY <1>1, <1>3, <1>8
  <2>2. ASSUME NEW i \in S, i < n PROVE i + 1 \in S
    <3>1. i + 1 \in 1 .. n /\ i + 1 \in 0 .. n /\ (i + 1) - 1 = i /\ i + 1 # 0
      BY <1>1, <2>2
    <3>2. w[i + 1] = next(i + 1, w[i])
      BY <1>8, <3>1
    <3>3. QED
      BY <1>4, <3>1, <3>2
  <2>3. n \in S
    <3>1. S \subseteq Nat
      OBVIOUS
    <3> HIDE DEF S, n
    <3>2. QED
      BY <1>1, <2>1, <2>2, <3>1, Induction
  <2>4. QED
    BY <2>3
<1>10. QED
  BY <1>2, <1>9 DEF T

-----------------------------------------------------------------------------
(* The poll set, by its parts. *)

\* The connections that are not being closed, and those of this run among them.
Open == DOMAIN conns \ IF ctx \in {"close", "erase"} THEN {job.id} ELSE {}
New == {id \in Open : id > since}
Placed(ids) == {conns[id] : id \in ids}
Coming == IF ctx = "insert" THEN {LowestFreeFd} ELSE {}
Waiting == Asking(polled, In)

\* What is waited for and no connection's, and the connections that could not
\* be set up in this run.
Stray == Waiting \ ({Listener} \cup Placed(Open) \cup Coming)
Lost == {id \in refused : id > since}

LEMMA PollSetParts ==
    PollSetMatchesConnections <=>
        /\ ctx # "off" =>
               (IF hosted THEN {Listener} ELSE {}) \cup Placed(New) \cup Coming \subseteq Waiting
        /\ \A i, j \in DOMAIN polled : polled[i].fd = polled[j].fd => i = j
        /\ FdsOf(polled) \ Waiting \subseteq Placed(Open \ New)
        /\ Cardinality(Stray) <= Cardinality(Lost)
        /\ \A i, j \in Open : conns[i] = conns[j] => i = j
BY DEF PollSetMatchesConnections, Open, New, Placed, Coming, Waiting, Stray, Lost, Asking

LEMMA PollSetPartsNext ==
    PollSetMatchesConnections' <=>
        /\ ctx' # "off" =>
               (IF hosted' THEN {Listener} ELSE {}) \cup Placed(New)' \cup Coming' \subseteq Waiting'
        /\ \A i, j \in DOMAIN polled' : polled'[i].fd = polled'[j].fd => i = j
        /\ FdsOf(polled') \ Waiting' \subseteq Placed(Open \ New)'
        /\ Cardinality(Stray') <= Cardinality(Lost')
        /\ \A i, j \in Open' : conns'[i] = conns'[j] => i = j
BY DEF PollSetMatchesConnections, Open, New, Placed, Coming, Waiting, Stray, Lost, Asking

-----------------------------------------------------------------------------
(* The beginning. *)

LEMMA InitInv == Init => ServerInv
<1> SUFFICES ASSUME Init PROVE ServerInv
  OBVIOUS
<1> USE DEF Init
<1>1. DOMAIN conns = {} /\ Range(conns) = {}
  BY DEF Range
<1>2. PeersCounted /\ ConnsKnown
  BY <1>1 DEF PeersCounted, ConnsKnown
<1>3. JobFits
  <2>1. running \in BOOLEAN /\ job.reader \in BOOLEAN
    BY DEF NoJob
  <2>2. job \in [id : Conns \cup {0}, reader : BOOLEAN, back : {"events", "drain"}]
    BY DEF NoJob
  <2>3. QED
    BY <2>1, <2>2 DEF JobFits
<1>4. PollKept
  <2>1. OneEach(<<>>, Descriptors) /\ FdsOf(<<>>) = {}
    BY DEF OneEach, FdsOf
  <2>2. PollSetMatchesConnections
    <3>1. Waiting = {} /\ Stray = {} /\ Lost = {}
      BY DEF Waiting, Asking, Stray, Lost
    <3>2. Cardinality({}) <= Cardinality({})
      BY FS_EmptySet
    <3>3. Open = {}
      BY <1>1 DEF Open
    <3>4. ctx = "off" /\ DOMAIN polled = {} /\ FdsOf(polled) = {}
      BY <2>1
    <3>5. QED
      BY <3>1, <3>2, <3>3, <3>4, PollSetParts
  <2>3. QED
    BY <2>1, <2>2 DEF PollKept
<1>5. EventsFit
  <2>1. events \in Seq(PollEvents) /\ DOMAIN events = {} /\ ctx # "insert"
    OBVIOUS
  <2>2. QED
    BY <2>1 DEF EventsFit, EventsKeepTheirConnection
<1>6. MainFits
  <2>1. buffer \in [Conns -> [pos : 0 .. Capacity, filled : 0 .. Capacity]]
        /\ \A id \in Conns : buffer[id].pos <= buffer[id].filled
    BY DEF EmptyBuffer
  <2>2. hosted \in BOOLEAN
    OBVIOUS
  <2>3. starts \in 0 .. MaxStarts /\ written \in 0 .. MaxSends /\ taken \in [Conns -> Nat]
    OBVIOUS
  <2>4. QED
    BY <2>1, <2>2, <2>3 DEF MainFits
<1>7. \A id \in Conns : Line(id) = "none"
  BY DEF Conns, Line
<1>8. Promise!Ordered
  BY <1>7 DEF Promise!Ordered
<1>9. Promise!Known = {}
  BY <1>7 DEF Promise!Known, Promise!Told
<1>10. ToldInTurn /\ DropsHaveReasons
  BY <1>8, <1>9 DEF ToldInTurn, ClientsFollowConnections, DropsHaveReasons
<1>11. QED
  BY <1>2, <1>3, <1>4, <1>5, <1>6, <1>10 DEF ServerInv

-----------------------------------------------------------------------------
(* The steps of the main thread, but for the start of the context, leave     *)
(* the network and the context thread's own variables alone.                 *)

MainSteps ==
    \/ HandleEvents
    \/ (\E id \in Conns : AskDisconnect(id) \/ SendTcp(id))
    \/ HostTcp \/ StopContext \/ Joined

LEMMA MainKeeps == MainSteps => UNCHANGED <<netVars, ctxVars>>
BY DEF MainSteps, HandleEvents, OnConnection, OnDisconnection, FindConnection, EnterConnection,
       Peek, OnPacket, Consume, AskDisconnect, SendTcp, HostTcp, StopContext, Joined

\* So does the rest but a few with what the connections are.
ContextSteps ==
    \/ Poll \/ LeaveLoop \/ Accept \/ AcceptFails \/ Refuse \/ Insert \/ SkipEvent
    \/ (\E id \in DOMAIN conns :
           ReadData(id) \/ ReadEnd(id) \/ ReadFails(id) \/ Flush(id) \/ CloseOnError(id))
    \/ EventsDone \/ DrainDisconnects \/ DrainSends \/ LockToErase \/ Erase \/ Announce

LEMMA NextSteps == Next => Network \/ ContextSteps \/ Start \/ MainSteps
BY DEF Next, Context, Calls, ContextSteps, MainSteps

\* The context thread cannot be running when it is started, or when the
\* listener is made.
LEMMA OffWhenIdle ==
    ASSUME JobFits, main = "idle", ~running
    PROVE  ctx = "off" /\ events = <<>>
BY DEF JobFits

-----------------------------------------------------------------------------
(* The peers. *)

LEMMA ForgottenPeers ==
    ASSUME PeersCounted, NEW id \in Conns, Forgotten(id)
    PROVE  PeersCounted'
BY DEF PeersCounted, Forgotten

LEMMA NextConn ==
    ASSUME PeersCounted, ConnsKnown, accepted < knocked
    PROVE  accepted + 1 \in Conns /\ accepted + 1 <= knocked
BY DEF PeersCounted, ConnsKnown, Conns

\* An event of the listener is of a peer that waits.
LEMMA ListenerEvent ==
    ASSUME EventsFit, NextEvent("read"), Head(events).fd = Listener
    PROVE  accepted < knocked
<1>1. events \in Seq(PollEvents) /\ events # <<>>
  BY DEF EventsFit, NextEvent
<1>2. 1 \in DOMAIN events /\ Head(events) = events[1]
  BY <1>1
<1>3. QED
  BY <1>2 DEF EventsFit

LEMMA PeersStep ==
    ASSUME PeersCounted, ConnsKnown, JobFits, EventsFit, MainFits, Next
    PROVE  PeersCounted'
<1>1. CASE Knock
  <2>1. knocked + 1 \in Conns /\ knocked + 1 \in 0 .. MaxConns
    BY <1>1 DEF Knock, PeersCounted, Conns
  <2>2. QED
    BY <1>1, <2>1 DEF Knock, PeersCounted
<1>2. ASSUME NEW id \in Conns, PeerSends(id) PROVE PeersCounted'
  <2>1. sent[id] \in 0 .. MaxBytes /\ wire[id] \in Nat /\ wire[id] <= sent[id]
    BY DEF PeersCounted
  <2>2. sent[id] + 1 \in 0 .. MaxBytes /\ wire[id] + 1 \in Nat /\ wire[id] + 1 <= sent[id] + 1
    BY <1>2, <2>1 DEF PeerSends
  <2>3. QED
    BY <1>2, <2>2 DEF PeerSends, PeersCounted
<1>3. ASSUME NEW id \in Conns, NEW how \in Endings, PeerEnds(id, how) PROVE PeersCounted'
  BY <1>3 DEF PeerEnds, PeersCounted
<1>4. CASE Refuse
  <2>1. accepted < knocked
    BY <1>4, ListenerEvent DEF Refuse
  <2>2. accepted' \in Conns
    BY <1>4, <2>1, NextConn DEF Refuse
  <2>3. QED
    BY <1>4, <2>2, ForgottenPeers DEF Refuse
<1>5. ASSUME NEW id \in DOMAIN conns, ReadData(id) PROVE PeersCounted'
  <2>1. id \in Conns
    BY DEF ConnsKnown, PeersCounted, Conns
  <2>2. wire[id] \in Nat /\ wire[id] <= sent[id]
    BY <2>1 DEF PeersCounted
  <2>3. Received(id) \in {wire[id], Capacity - Compacted(buffer[id]).filled}
        /\ Received(id) <= wire[id] /\ Received(id) \in Nat
    <3> DEFINE room == Capacity - Compacted(buffer[id]).filled
    <3>1. room \in Nat
      <4>1. buffer[id] \in [pos : 0 .. Capacity, filled : 0 .. Capacity]
        BY <2>1 DEF MainFits
      <4>2. buffer[id].filled \in 0 .. Capacity
        BY <4>1
      <4>3. QED
        BY <4>2 DEF Compacted, EmptyBuffer
    <3> HIDE DEF room
    <3>2. Min({wire[id], room}) \in {wire[id], room} /\ Min({wire[id], room}) <= wire[id]
      BY <2>2, <3>1 DEF Min
    <3>3. QED
      BY <2>2, <3>1, <3>2 DEF Received, room
  <2>4. wire[id] - Received(id) \in Nat /\ wire[id] - Received(id) <= sent[id]
    <3>1. sent[id] \in Nat
      BY <2>1 DEF PeersCounted
    <3>2. QED
      BY <2>2, <2>3, <3>1
  <2>5. QED
    BY <1>5, <2>1, <2>4 DEF ReadData, PeersCounted
<1>6. CASE Erase
  <2>1. job.id \in Conns
    BY <1>6 DEF Erase, JobFits, ConnsKnown, PeersCounted, Conns
  <2>2. QED
    BY <1>6, <2>1, ForgottenPeers DEF Erase
<1>7. CASE UNCHANGED netVars
  BY <1>7 DEF netVars, PeersCounted
<1>8. ASSUME \/ Poll \/ LeaveLoop \/ Accept \/ AcceptFails \/ Insert \/ SkipEvent
             \/ (\E id \in DOMAIN conns : ReadEnd(id) \/ ReadFails(id) \/ Flush(id) \/ CloseOnError(id))
             \/ EventsDone \/ DrainDisconnects \/ DrainSends \/ LockToErase \/ Announce
             \/ Start \/ MainSteps
      PROVE  UNCHANGED netVars
  BY <1>8, MainKeeps
     DEF Poll, LeaveLoop, Accept, AcceptFails, Insert, SkipEvent, ReadEnd, ReadFails, Flush,
         CloseOnError, EventsDone, DrainDisconnects, DrainSends, LockToErase, Announce, Start
<1>9. QED
  BY <1>1, <1>2, <1>3, <1>4, <1>5, <1>6, <1>7, <1>8, NextSteps DEF Network, ContextSteps

-----------------------------------------------------------------------------
(* The connections. *)

LEMMA ConnsStep ==
    ASSUME PeersCounted, ConnsKnown, JobFits, EventsFit, MainFits, Next
    PROVE  ConnsKnown'
<1>1. CASE Knock
  BY <1>1 DEF Knock, PeersCounted, ConnsKnown, ctxVars, acceptVars
<1>2. CASE Accept
  <2>1. accepted < knocked /\ accepted' = accepted + 1
    BY <1>2, ListenerEvent DEF Accept
  <2>2. accepted' \in 0 .. knocked /\ 1 .. accepted \subseteq 1 .. accepted' /\ since \in 0 .. accepted'
    BY <2>1 DEF PeersCounted, ConnsKnown
  <2>3. UNCHANGED <<knocked, refused, since, conns, out>>
    BY <1>2 DEF Accept, netVars
  <2>4. DOMAIN conns \subseteq (1 .. accepted') \ refused
    BY <2>2 DEF ConnsKnown
  <2>5. QED
    BY <2>2, <2>3, <2>4 DEF ConnsKnown
<1>3. CASE Refuse
  <2>1. accepted < knocked /\ accepted' = accepted + 1 /\ refused' = refused \cup {accepted'}
    BY <1>3, ListenerEvent DEF Refuse
  <2>2. accepted' \in 0 .. knocked /\ 1 .. accepted \subseteq 1 .. accepted' /\ since \in 0 .. accepted'
        /\ accepted' \in 1 .. accepted' /\ accepted' \notin 1 .. accepted
    BY <2>1 DEF PeersCounted, ConnsKnown
  <2>3. UNCHANGED <<knocked, since, conns, out>>
    BY <1>3 DEF Refuse, Forgotten
  <2>4. DOMAIN conns \subseteq (1 .. accepted') \ refused'
    BY <2>1, <2>2 DEF ConnsKnown
  <2>5. refused' \subseteq 1 .. accepted'
    BY <2>1, <2>2 DEF ConnsKnown
  <2>6. QED
    BY <2>2, <2>3, <2>4, <2>5 DEF ConnsKnown
<1>4. CASE Insert
  <2> DEFINE fd == LowestFreeFd
  <2>1. /\ conns' = [id \in DOMAIN conns \cup {job.id} |-> IF id = job.id THEN fd ELSE conns[id]]
        /\ UNCHANGED <<knocked, accepted, refused, since, out>> /\ ctx = "insert"
    BY <1>4 DEF Insert, netVars, acceptVars
  <2>2. fd \in Fds /\ fd \notin Range(conns)
    BY <2>1, FdIsFree
  <2> HIDE DEF fd
  <2>3. job.id \in (1 .. accepted) \ refused
    BY <2>1 DEF JobFits, ConnsKnown
  <2>4. DOMAIN conns' = DOMAIN conns \cup {job.id}
    BY <2>1
  <2>5. conns' \in [DOMAIN conns' -> Fds]
    BY <2>1, <2>2, <2>4 DEF ConnsKnown
  <2>6. \A id \in DOMAIN conns : conns[id] # fd
    BY <2>2 DEF Range
  <2>7. \A id, other \in DOMAIN conns' : conns'[id] = conns'[other] => id = other
    BY <2>1, <2>4, <2>6 DEF ConnsKnown
  <2>8. QED
    BY <2>1, <2>3, <2>4, <2>5, <2>7 DEF ConnsKnown
<1>5. CASE Erase
  <2>1. /\ conns' = [id \in DOMAIN conns \ {job.id} |-> conns[id]]
        /\ out' = [out EXCEPT ![job.id] = 0]
        /\ UNCHANGED <<knocked, accepted, refused, since>>
    BY <1>5 DEF Erase, Forgotten, acceptVars
  <2>2. DOMAIN conns' = DOMAIN conns \ {job.id}
    BY <2>1
  <2>3. out' \in [Conns -> 0 .. OutCapacity]
    <3>1. 0 \in 0 .. OutCapacity
      OBVIOUS
    <3>2. QED
      BY <2>1, <3>1 DEF ConnsKnown
  <2>4. QED
    BY <2>1, <2>2, <2>3 DEF ConnsKnown
<1>6. ASSUME NEW id \in DOMAIN conns, Flush(id) PROVE ConnsKnown'
  <2>1. UNCHANGED <<knocked, accepted, refused, since, conns>>
    BY <1>6 DEF Flush, netVars, acceptVars
  <2>2. out' \in [Conns -> 0 .. OutCapacity]
    <3>1. CASE out' = out
      BY <3>1 DEF ConnsKnown
    <3>2. ASSUME NEW left \in 0 .. out[id] - 1, out' = [out EXCEPT ![id] = left]
          PROVE  out' \in [Conns -> 0 .. OutCapacity]
      <4>1. id \in Conns
        BY DEF ConnsKnown, PeersCounted, Conns
      <4>2. out[id] \in 0 .. OutCapacity
        BY <4>1 DEF ConnsKnown
      <4>3. left \in 0 .. OutCapacity
        BY <4>2
      <4>4. QED
        BY <3>2, <4>3 DEF ConnsKnown
    <3>3. QED
      BY <1>6, <3>1, <3>2 DEF Flush
  <2>3. QED
    BY <2>1, <2>2 DEF ConnsKnown
<1>7. CASE DrainSends
  <2>1. UNCHANGED <<knocked, accepted, refused, since, conns>>
    BY <1>7 DEF DrainSends, netVars, acceptVars
  <2>2. out' \in [Conns -> 0 .. OutCapacity]
    <3>1. CASE out' = out
      BY <3>1 DEF ConnsKnown
    <3>2. ASSUME NEW id, out[id] < OutCapacity, id \in DOMAIN conns, out' = [out EXCEPT ![id] = @ + 1]
          PROVE  out' \in [Conns -> 0 .. OutCapacity]
      <4>1. id \in Conns
        BY <3>2 DEF ConnsKnown, PeersCounted, Conns
      <4>2. out[id] \in 0 .. OutCapacity
        BY <4>1 DEF ConnsKnown
      <4>3. out[id] + 1 \in 0 .. OutCapacity
        BY <3>2, <4>2
      <4>4. QED
        BY <3>2, <4>3 DEF ConnsKnown
    <3>3. QED
      BY <1>7, <3>1, <3>2 DEF DrainSends
  <2>3. QED
    BY <2>1, <2>2 DEF ConnsKnown
<1>8. CASE Start
  <2>1. since' = accepted /\ UNCHANGED <<knocked, accepted, refused, conns, out>>
    BY <1>8 DEF Start, netVars
  <2>2. accepted \in 0 .. accepted
    BY DEF ConnsKnown, PeersCounted
  <2>3. QED
    BY <2>1, <2>2 DEF ConnsKnown
<1>9. CASE UNCHANGED <<knocked, acceptVars, conns, out>>
  BY <1>9 DEF acceptVars, ConnsKnown
<1>10. ASSUME \/ \E id \in Conns : PeerSends(id) \/ \E how \in Endings : PeerEnds(id, how)
              \/ Poll \/ LeaveLoop \/ AcceptFails \/ SkipEvent
              \/ (\E id \in DOMAIN conns : ReadData(id) \/ ReadEnd(id) \/ ReadFails(id) \/ CloseOnError(id))
              \/ EventsDone \/ DrainDisconnects \/ LockToErase \/ Announce
              \/ MainSteps
       PROVE  UNCHANGED <<knocked, acceptVars, conns, out>>
  BY <1>10, MainKeeps
     DEF PeerSends, PeerEnds, Poll, LeaveLoop, AcceptFails, SkipEvent, ReadData, ReadEnd, ReadFails,
         CloseOnError, EventsDone, DrainDisconnects, LockToErase, Announce,
         netVars, ctxVars
<1>11. QED
  BY <1>1, <1>2, <1>3, <1>4, <1>5, <1>6, <1>7, <1>8, <1>9, <1>10, NextSteps
     DEF Network, ContextSteps

-----------------------------------------------------------------------------
(* Where the context thread is. *)

\* A close begins.
LEMMA CloseBegins ==
    ASSUME JobFits, ctx \in {"events", "drain"}, NEW id \in DOMAIN conns, id \in Conns,
           NEW reader \in BOOLEAN, NEW back \in {"events", "drain"},
           BeginClose(id, reader, back), back = "drain" => events' = <<>>,
           UNCHANGED <<accepted, refused, since, conns, running, main>>
    PROVE  JobFits'
<1>1. job' \in [id : Conns \cup {0}, reader : BOOLEAN, back : {"events", "drain"}]
      /\ job'.id = id /\ job'.back = back /\ ctx' = "close"
  BY DEF BeginClose
<1>2. ~running' /\ ctx' # "off" => main' = "joining"
  BY DEF JobFits
<1>3. running' \in BOOLEAN
  BY DEF JobFits
<1>4. QED
  BY <1>1, <1>2, <1>3 DEF JobFits

LEMMA JobStep ==
    ASSUME PeersCounted, ConnsKnown, JobFits, EventsFit, MainFits, Next
    PROVE  JobFits'
<1> USE DEF JobFits
<1>1. CASE Accept
  <2>1. accepted < knocked /\ accepted' = accepted + 1
    BY <1>1, ListenerEvent DEF Accept
  <2>2. job' = [NoJob EXCEPT !.id = accepted + 1] /\ ctx' = "insert" /\ ctx = "events"
    BY <1>1 DEF Accept, NextEvent, NewUuid
  <2>3. accepted + 1 \in Conns
    BY <2>1, NextConn
  <2>4. job' = [id |-> accepted + 1, reader |-> FALSE, back |-> "events"]
    BY <2>2 DEF NoJob
  <2>5. job' \in [id : Conns \cup {0}, reader : BOOLEAN, back : {"events", "drain"}]
        /\ job'.id = accepted'
    BY <2>1, <2>3, <2>4
  <2>6. accepted' \notin DOMAIN conns \cup refused /\ since < accepted'
    BY <2>1 DEF ConnsKnown, PeersCounted
  <2>7. UNCHANGED <<conns, refused, since, running, main>>
    BY <1>1 DEF Accept, sharedVars, mainVars
  <2>8. QED
    BY <2>2, <2>5, <2>6, <2>7
<1>2. CASE Insert
  <2>1. job' = NoJob /\ ctx' = "events" /\ UNCHANGED <<running, main>>
    BY <1>2 DEF Insert, mainVars
  <2>2. job' \in [id : Conns \cup {0}, reader : BOOLEAN, back : {"events", "drain"}]
    BY <2>1 DEF NoJob
  <2>3. ctx = "insert"
    BY <1>2 DEF Insert
  <2>4. QED
    BY <2>1, <2>2, <2>3
<1>3. CASE Announce
  <2>1. job' = NoJob /\ ctx' = job.back /\ ctx = "announce" /\ UNCHANGED <<running, main, events>>
    BY <1>3 DEF Announce, mainVars
  <2>2. job' \in [id : Conns \cup {0}, reader : BOOLEAN, back : {"events", "drain"}]
    BY <2>1 DEF NoJob
  <2>3. job.back \in {"events", "drain"}
    OBVIOUS
  <2>4. QED
    BY <2>1, <2>2, <2>3
<1>4. CASE LockToErase
  BY <1>4 DEF LockToErase, netVars, acceptVars, mainVars
<1>5. CASE Erase
  <2>1. /\ ctx = "erase" /\ ctx' = "announce" /\ DOMAIN conns' = DOMAIN conns \ {job.id}
        /\ UNCHANGED <<job, accepted, refused, since, events, running, main>>
    BY <1>5 DEF Erase, acceptVars, mainVars
  <2>2. job.id \in (1 .. accepted) \ (DOMAIN conns' \cup refused)
    BY <2>1 DEF ConnsKnown
  <2>3. QED
    BY <2>1, <2>2
<1>6. ASSUME NEW id \in DOMAIN conns, ReadEnd(id) \/ Flush(id) \/ CloseOnError(id)
      PROVE  JobFits'
  <2>1. id \in Conns
    BY DEF ConnsKnown, PeersCounted, Conns
  <2>2. UNCHANGED <<accepted, refused, since, conns, running, main>> /\ ctx = "events"
    BY <1>6 DEF ReadEnd, Flush, CloseOnError, ReadableEvent, NextEvent,
                acceptVars, sharedVars, mainVars
  <2>3. \/ BeginClose(id, TRUE, "events") \/ BeginClose(id, FALSE, "events")
        \/ UNCHANGED <<ctx, job>>
    BY <1>6 DEF ReadEnd, Flush, CloseOnError
  <2>4. CASE BeginClose(id, TRUE, "events") \/ BeginClose(id, FALSE, "events")
    BY <2>1, <2>2, <2>4, CloseBegins
  <2>5. CASE UNCHANGED <<ctx, job>>
    BY <2>2, <2>5
  <2>6. QED
    BY <2>3, <2>4, <2>5
<1>7. CASE DrainDisconnects
  <2>1. UNCHANGED <<accepted, refused, since, conns, running, main, events>> /\ ctx = "drain"
    BY <1>7 DEF DrainDisconnects, acceptVars, mainVars
  <2>2. CASE ctx' = "send" /\ job' = job
    BY <2>1, <2>2
  <2>3. CASE Head(disconnects) \in DOMAIN conns /\ BeginClose(Head(disconnects), FALSE, "drain")
    <3>1. Head(disconnects) \in Conns
      BY <2>3 DEF ConnsKnown, PeersCounted, Conns
    <3>2. events' = <<>>
      BY <2>1
    <3>3. QED
      BY <2>1, <2>3, <3>1, <3>2, CloseBegins
  <2>4. CASE UNCHANGED <<ctx, job>>
    BY <2>1, <2>4
  <2>5. QED
    BY <1>7, <2>2, <2>3, <2>4 DEF DrainDisconnects
<1>8. CASE Start
  <2>1. ctx = "off" /\ events = <<>>
    BY <1>8 DEF Start
  <2>2. running' = TRUE /\ ctx' = "top" /\ UNCHANGED <<job, events>>
    BY <1>8 DEF Start
  <2>3. running' \in BOOLEAN
    BY <2>2
  <2>4. QED
    BY <2>1, <2>2, <2>3
<1>9. CASE Poll \/ LeaveLoop \/ EventsDone \/ DrainSends
  <2>1. CASE Poll
    BY <2>1 DEF Poll, acceptVars, sharedVars, mainVars
  <2>2. CASE LeaveLoop
    BY <2>2 DEF LeaveLoop, acceptVars, sharedVars, mainVars
  <2>3. CASE EventsDone
    BY <2>3 DEF EventsDone, acceptVars, sharedVars, mainVars
  <2>4. CASE DrainSends
    BY <2>4 DEF DrainSends, acceptVars, mainVars
  <2>5. QED
    BY <1>9, <2>1, <2>2, <2>3, <2>4
<1>10. CASE ctx = "events" /\ UNCHANGED <<ctx, job, since, conns, running, main>>
  BY <1>10
<1>11. ASSUME \/ AcceptFails \/ Refuse \/ SkipEvent
              \/ (\E id \in DOMAIN conns : ReadData(id) \/ ReadFails(id))
       PROVE  ctx = "events" /\ UNCHANGED <<ctx, job, since, conns, running, main>>
  BY <1>11 DEF AcceptFails, Refuse, SkipEvent, ReadData, ReadFails, ReadableEvent, NextEvent,
               acceptVars, sharedVars, mainVars
<1>12. CASE Network
  BY <1>12 DEF Network, Knock, PeerSends, PeerEnds, ctxVars, acceptVars, sharedVars, mainVars
<1>13. CASE MainSteps
  <2>1. UNCHANGED <<ctx, job, accepted, refused, since, conns, events>>
    BY <1>13, MainKeeps DEF ctxVars, acceptVars
  <2>2. CASE StopContext
    <3>1. running' = FALSE /\ main' = "joining"
      BY <2>2 DEF StopContext
    <3>2. running' \in BOOLEAN
      BY <3>1
    <3>3. QED
      BY <2>1, <3>1, <3>2
  <2>3. CASE Joined
    BY <2>1, <2>3 DEF Joined, sharedVars
  <2>4. CASE UNCHANGED running /\ main # "joining"
    BY <2>1, <2>4
  <2>5. ASSUME HandleEvents \/ (\E id \in Conns : AskDisconnect(id) \/ SendTcp(id)) \/ HostTcp
        PROVE  UNCHANGED running /\ main # "joining"
    BY <2>5 DEF HandleEvents, OnConnection, OnDisconnection, FindConnection, EnterConnection,
                Peek, OnPacket, Consume, AskDisconnect, SendTcp, HostTcp, NextTcpEvent, sharedVars
  <2>6. QED
    BY <1>13, <2>2, <2>3, <2>4, <2>5 DEF MainSteps
<1>14. QED
  BY <1>1, <1>2, <1>3, <1>4, <1>5, <1>6, <1>7, <1>8, <1>9, <1>10, <1>11, <1>12, <1>13, NextSteps
     DEF ContextSteps

-----------------------------------------------------------------------------
(* What the main thread is told. *)

Lifeline == [id \in Conns |-> Line(id)]

\* Promise and NoticeProofs are two instances of the same operators.
LEMMA SamePromise ==
    /\ Promise!Ordered <=> NoticeProofs!Ordered
    /\ Promise!Known = NoticeProofs!Known
    /\ \A c \in Conns :
           /\ Promise!Up(c) <=> NoticeProofs!Up(c)
           /\ Promise!Read(c) <=> NoticeProofs!Read(c)
           /\ Promise!Down(c) <=> NoticeProofs!Down(c)
           /\ \A k : Promise!Tell(k, c) <=> NoticeProofs!Tell(k, c)
BY DEF Promise!Ordered, NoticeProofs!Ordered, Promise!Known, NoticeProofs!Known,
       Promise!Told, NoticeProofs!Told, Promise!Over, NoticeProofs!Over,
       Promise!Up, NoticeProofs!Up, Promise!Read, NoticeProofs!Read,
       Promise!Down, NoticeProofs!Down, Promise!Tell, NoticeProofs!Tell,
       Promise!Notice, NoticeProofs!Notice, Promise!Kinds, NoticeProofs!Kinds

LEMMA SamePromiseNext ==
    /\ Promise!Ordered' <=> NoticeProofs!Ordered'
    /\ Promise!Known' = NoticeProofs!Known'
BY DEF Promise!Ordered, NoticeProofs!Ordered, Promise!Known, NoticeProofs!Known,
       Promise!Told, NoticeProofs!Told, Promise!Over, NoticeProofs!Over,
       Promise!Notice, NoticeProofs!Notice, Promise!Kinds, NoticeProofs!Kinds

\* What Notices_proofs says of a step.
LEMMA PromiseSteps ==
    ASSUME Promise!Ordered
    PROVE  /\ UNCHANGED <<Lifeline, tcpEvents>> => Promise!Ordered' /\ Promise!Known' = Promise!Known
           /\ \A c \in Conns : Promise!Up(c) \/ Promise!Read(c) \/ Promise!Down(c) =>
                  Promise!Ordered' /\ Promise!Known' = Promise!Known
           /\ \A c \in Conns, k \in Promise!Kinds : Promise!Tell(k, c) =>
                  /\ Promise!Ordered'
                  /\ k = "connection" => Promise!Known' = Promise!Known \cup {c}
                  /\ k = "disconnection" => Promise!Known' = Promise!Known \ {c}
                  /\ k = "read" => Promise!Known' = Promise!Known
<1>1. ASSUME UNCHANGED <<Lifeline, tcpEvents>>
      PROVE  Promise!Ordered' /\ Promise!Known' = Promise!Known
  BY <1>1 DEF Lifeline, Promise!Ordered, Promise!Known, Promise!Told, Promise!Over
<1>2. NoticeProofs!Ordered /\ Promise!Kinds = NoticeProofs!Kinds
  BY SamePromise DEF Promise!Kinds, NoticeProofs!Kinds
<1>3. ASSUME NEW c \in Conns, Promise!Up(c) \/ Promise!Read(c) \/ Promise!Down(c)
      PROVE  Promise!Ordered' /\ Promise!Known' = Promise!Known
  <2>1. NoticeProofs!Up(c) \/ NoticeProofs!Read(c) \/ NoticeProofs!Down(c)
    BY <1>3, SamePromise
  <2>2. NoticeProofs!Next
    BY <2>1 DEF NoticeProofs!Next
  <2>3. NoticeProofs!Ordered'
    BY <1>2, <2>2, NoticeProofs!NextOrdered
  <2>4. NoticeProofs!Known' = NoticeProofs!Known
    BY <1>2, <2>1, NoticeProofs!QueueKeepsKnown
  <2>5. QED
    BY <2>3, <2>4, SamePromise, SamePromiseNext
<1>4. ASSUME NEW c \in Conns, NEW k \in Promise!Kinds, Promise!Tell(k, c)
      PROVE  /\ Promise!Ordered'
             /\ k = "connection" => Promise!Known' = Promise!Known \cup {c}
             /\ k = "disconnection" => Promise!Known' = Promise!Known \ {c}
             /\ k = "read" => Promise!Known' = Promise!Known
  <2>1. NoticeProofs!Tell(k, c) /\ k \in NoticeProofs!Kinds
    BY <1>2, <1>4, SamePromise
  <2>2. NoticeProofs!Ordered'
    BY <1>2, <2>1, NoticeProofs!TellOrdered
  <2>3. \/ k = "connection" /\ NoticeProofs!Known' = NoticeProofs!Known \cup {c}
        \/ k = "read" /\ NoticeProofs!Known' = NoticeProofs!Known
        \/ k = "disconnection" /\ NoticeProofs!Known' = NoticeProofs!Known \ {c}
    BY <1>2, <2>1, NoticeProofs!TellKnown
  <2>4. QED
    BY <2>2, <2>3, SamePromise, SamePromiseNext
<1>5. QED
  BY <1>1, <1>3, <1>4

\* The next notice is of a connection.
LEMMA FirstTold ==
    ASSUME ToldInTurn, NEW kind, NextTcpEvent(kind)
    PROVE  /\ Head(tcpEvents).id \in Conns /\ kind \in Promise!Kinds
           /\ Head(tcpEvents) = Promise!Notice(kind, Head(tcpEvents).id)
           /\ Head(tcpEvents) = tcpEvents[1] /\ 1 \in DOMAIN tcpEvents
<1> DEFINE E == [kind : Promise!Kinds, id : Conns]
<1>1. tcpEvents \in Seq(E) /\ tcpEvents # <<>>
  BY DEF ToldInTurn, Promise!Ordered, NextTcpEvent
<1> HIDE DEF E
<1>2. Head(tcpEvents) \in E /\ Head(tcpEvents) = tcpEvents[1] /\ 1 \in DOMAIN tcpEvents
  BY <1>1
<1>3. Head(tcpEvents).kind = kind
  BY DEF NextTcpEvent
<1>4. QED
  BY <1>2, <1>3 DEF E, Promise!Notice

-----------------------------------------------------------------------------
(* The buffers and the main thread. *)

Buffers == [pos : 0 .. Capacity, filled : 0 .. Capacity]

\* A buffer that starts over, or takes what there is room for, is a buffer.
LEMMA CompactedFits ==
    ASSUME NEW b \in Buffers, b.pos <= b.filled
    PROVE  /\ Compacted(b) \in Buffers /\ Compacted(b).pos <= Compacted(b).filled
           /\ b.filled \in Nat /\ b.pos \in Nat
           /\ Compacted(b) = b \/ (Compacted(b) = EmptyBuffer /\ b.pos = b.filled)
<1>1. b.filled \in 0 .. Capacity /\ b.pos \in 0 .. Capacity /\ Capacity \in Nat
  BY DEF Buffers
<1>2. EmptyBuffer \in Buffers /\ EmptyBuffer.pos <= EmptyBuffer.filled
  BY <1>1 DEF Buffers, EmptyBuffer
<1>3. CASE b.pos = b.filled
  BY <1>1, <1>2, <1>3 DEF Compacted
<1>4. CASE b.pos # b.filled
  BY <1>1, <1>4 DEF Compacted
<1>5. QED
  BY <1>3, <1>4

\* One buffer changes.
LEMMA OneBufferFits ==
    ASSUME MainFits, NEW id \in Conns, NEW b \in Buffers, b.pos <= b.filled,
           buffer' = [buffer EXCEPT ![id] = b]
    PROVE  /\ buffer' \in [Conns -> Buffers]
           /\ \A other \in Conns : buffer'[other].pos <= buffer'[other].filled
<1>1. buffer \in [Conns -> Buffers] /\ \A other \in Conns : buffer[other].pos <= buffer[other].filled
  BY DEF MainFits, Buffers
<1> HIDE DEF Buffers
<1>2. QED
  BY <1>1

LEMMA BufferStep ==
    ASSUME PeersCounted, ConnsKnown, JobFits, MainFits, Next
    PROVE  /\ buffer' \in [Conns -> Buffers]
           /\ \A id \in Conns : buffer'[id].pos <= buffer'[id].filled
<1>1. buffer \in [Conns -> Buffers] /\ \A id \in Conns : buffer[id].pos <= buffer[id].filled
  BY DEF MainFits, Buffers
<1>2. \A id \in DOMAIN conns : id \in Conns
  BY DEF ConnsKnown, PeersCounted, Conns
<1>3. ASSUME NEW id \in DOMAIN conns, ReadData(id)
      PROVE  /\ buffer' \in [Conns -> Buffers]
             /\ \A other \in Conns : buffer'[other].pos <= buffer'[other].filled
  <2> DEFINE c == Compacted(buffer[id])
             b == [c EXCEPT !.filled = @ + Received(id)]
  <2>1. id \in Conns /\ c \in Buffers /\ c.pos <= c.filled
    BY <1>1, <1>2, CompactedFits
  <2>2. c.filled \in 0 .. Capacity /\ c.pos \in 0 .. Capacity
    BY <2>1 DEF Buffers
  <2>3. Received(id) \in Nat /\ c.filled + Received(id) <= Capacity
    <3> DEFINE room == Capacity - c.filled
    <3>1. room \in Nat /\ wire[id] \in Nat
      BY <2>1, <2>2 DEF PeersCounted
    <3> HIDE DEF room
    <3>2. Min({wire[id], room}) \in {wire[id], room} /\ Min({wire[id], room}) <= room
      BY <3>1 DEF Min
    <3>3. Received(id) \in Nat /\ Received(id) <= room
      BY <3>1, <3>2 DEF Received, room
    <3> HIDE DEF c
    <3>4. QED
      BY <2>2, <3>3 DEF room
  <2>4. b = [pos |-> c.pos, filled |-> c.filled + Received(id)]
    <3> HIDE DEF c
    <3>1. QED
      BY <2>1 DEF Buffers
  <2>5. b \in Buffers /\ b.pos <= b.filled
    <3> HIDE DEF c, b
    <3>1. c.filled + Received(id) \in 0 .. Capacity /\ c.pos <= c.filled + Received(id)
      BY <2>1, <2>2, <2>3
    <3>2. QED
      BY <2>2, <2>4, <3>1 DEF Buffers
  <2>6. buffer' = [buffer EXCEPT ![id] = b]
    BY <1>3 DEF ReadData, Filled
  <2> HIDE DEF b
  <2>7. QED
    BY <2>1, <2>5, <2>6, OneBufferFits
<1>4. ASSUME NEW id \in DOMAIN conns, ReadEnd(id) \/ ReadFails(id)
      PROVE  /\ buffer' \in [Conns -> Buffers]
             /\ \A other \in Conns : buffer'[other].pos <= buffer'[other].filled
  <2> DEFINE c == Compacted(buffer[id])
  <2>1. id \in Conns /\ c \in Buffers /\ c.pos <= c.filled
    BY <1>1, <1>2, CompactedFits
  <2>2. buffer' = [buffer EXCEPT ![id] = c]
    BY <1>4 DEF ReadEnd, ReadFails
  <2> HIDE DEF c
  <2>3. QED
    BY <2>1, <2>2, OneBufferFits
<1>5. CASE Erase
  <2>1. job.id \in Conns /\ buffer' = [buffer EXCEPT ![job.id] = EmptyBuffer]
    BY <1>2, <1>5 DEF Erase, JobFits
  <2>2. EmptyBuffer \in Buffers /\ EmptyBuffer.pos <= EmptyBuffer.filled
    BY DEF EmptyBuffer, Buffers
  <2>3. QED
    BY <2>1, <2>2, OneBufferFits
<1>6. CASE Consume
  <2> DEFINE c == buffer[reading]
             n == Min({PacketLen, Unread(reading)})
             b == [c EXCEPT !.pos = @ + n]
  <2>1. reading \in Conns
    BY <1>6 DEF Consume, MainFits
  <2>2. c \in Buffers /\ c.pos <= c.filled
    BY <1>1, <2>1
  <2>3. c.filled \in 0 .. Capacity /\ c.pos \in 0 .. Capacity /\ c = [pos |-> c.pos, filled |-> c.filled]
    BY <2>2 DEF Buffers
  <2>4. n \in Nat /\ c.pos + n <= c.filled
    <3> DEFINE left == c.filled - c.pos
    <3>1. left \in Nat /\ PacketLen \in Nat
      BY <2>2, <2>3
    <3> HIDE DEF left
    <3>2. Min({PacketLen, left}) \in {PacketLen, left} /\ Min({PacketLen, left}) <= left
      BY <3>1 DEF Min
    <3>3. n = Min({PacketLen, left})
      BY DEF Unread, left
    <3> HIDE DEF n, c
    <3>4. n \in Nat /\ n <= left
      BY <3>1, <3>2, <3>3
    <3>5. QED
      BY <2>3, <3>4 DEF left
  <2>5. b \in Buffers /\ b.pos <= b.filled
    <3>1. b = [pos |-> c.pos + n, filled |-> c.filled]
      <4> HIDE DEF c, n
      <4>1. QED
        BY <2>3
    <3> HIDE DEF c, n, b
    <3>2. c.pos + n \in 0 .. Capacity
      BY <2>3, <2>4
    <3>3. QED
      BY <2>3, <2>4, <3>1, <3>2 DEF Buffers
  <2>6. buffer' = [buffer EXCEPT ![reading] = b]
    BY <1>6 DEF Consume
  <2> HIDE DEF b
  <2>7. QED
    BY <2>1, <2>5, <2>6, OneBufferFits
<1>7. CASE UNCHANGED buffer
  BY <1>1, <1>7
<1>8. ASSUME \/ Network
             \/ Poll \/ LeaveLoop \/ Accept \/ AcceptFails \/ Refuse \/ Insert \/ SkipEvent
             \/ (\E id \in DOMAIN conns : Flush(id) \/ CloseOnError(id))
             \/ EventsDone \/ DrainDisconnects \/ DrainSends \/ LockToErase \/ Announce
             \/ Start
      PROVE  UNCHANGED buffer
  BY <1>8 DEF Network, Knock, PeerSends, PeerEnds, Poll, LeaveLoop, Accept, AcceptFails, Refuse,
              Insert, SkipEvent, Flush, CloseOnError, EventsDone, DrainDisconnects, DrainSends,
              LockToErase, Announce, Start, sharedVars
<1>9. ASSUME MainSteps PROVE Consume \/ UNCHANGED buffer
  BY <1>9 DEF MainSteps, HandleEvents, OnConnection, OnDisconnection, FindConnection,
              EnterConnection, Peek, OnPacket, AskDisconnect, SendTcp, HostTcp, StopContext, Joined,
              sharedVars
<1>10. QED
  BY <1>3, <1>4, <1>5, <1>6, <1>7, <1>8, <1>9, NextSteps DEF ContextSteps

LEMMA QueuesStep ==
    ASSUME PeersCounted, MainFits, ToldInTurn, Next
    PROVE  disconnects' \in Seq(Conns) /\ sends' \in Seq(Conns)
<1> DEFINE S == Conns
<1>1. disconnects \in Seq(S) /\ sends \in Seq(S)
  BY DEF MainFits
<1>2. UNCHANGED <<disconnects, sends>> => disconnects' \in Seq(S) /\ sends' \in Seq(S)
  BY <1>1
<1>3. ASSUME \/ Network
             \/ Poll \/ LeaveLoop \/ Accept \/ AcceptFails \/ Refuse \/ Insert \/ SkipEvent
             \/ (\E id \in DOMAIN conns :
                    ReadData(id) \/ ReadEnd(id) \/ ReadFails(id) \/ Flush(id) \/ CloseOnError(id))
             \/ EventsDone \/ LockToErase \/ Erase \/ Announce \/ Start
      PROVE  UNCHANGED <<disconnects, sends>>
  BY <1>3 DEF Network, Knock, PeerSends, PeerEnds, Poll, LeaveLoop, Accept, AcceptFails, Refuse,
              Insert, SkipEvent, ReadData, ReadEnd, ReadFails, Flush, CloseOnError, EventsDone,
              LockToErase, Erase, Announce, Start, sharedVars
<1>4. CASE DrainDisconnects
  <2>1. /\ sends' = sends
        /\ disconnects' = disconnects \/ (disconnects # <<>> /\ disconnects' = Tail(disconnects))
    BY <1>4 DEF DrainDisconnects
  <2> HIDE DEF S
  <2>2. disconnects # <<>> => Tail(disconnects) \in Seq(S)
    BY <1>1
  <2>3. disconnects' \in Seq(S) /\ sends' \in Seq(S)
    BY <1>1, <2>1, <2>2
  <2>4. QED
    BY <2>3 DEF S
<1>5. CASE DrainSends
  <2>1. /\ disconnects' = disconnects
        /\ sends' = sends \/ (sends # <<>> /\ sends' = Tail(sends))
    BY <1>5 DEF DrainSends
  <2> HIDE DEF S
  <2>2. sends # <<>> => Tail(sends) \in Seq(S)
    BY <1>1
  <2>3. disconnects' \in Seq(S) /\ sends' \in Seq(S)
    BY <1>1, <2>1, <2>2
  <2>4. QED
    BY <2>3 DEF S
<1>6. CASE OnConnection
  <2>1. Head(tcpEvents).id \in S
    BY <1>6, FirstTold DEF OnConnection
  <2>2. disconnects' = disconnects /\ sends' = Append(sends, Head(tcpEvents).id)
    BY <1>6 DEF OnConnection
  <2> HIDE DEF S
  <2>3. QED
    BY <1>1, <2>1, <2>2 DEF S
<1>7. ASSUME NEW id \in S, AskDisconnect(id) \/ SendTcp(id)
      PROVE  disconnects' \in Seq(S) /\ sends' \in Seq(S)
  <2>1. \/ disconnects' = Append(disconnects, id) /\ sends' = sends
        \/ sends' = Append(sends, id) /\ disconnects' = disconnects
    BY <1>7 DEF AskDisconnect, SendTcp
  <2>2. id \in S
    OBVIOUS
  <2> HIDE DEF S
  <2>3. Append(disconnects, id) \in Seq(S) /\ Append(sends, id) \in Seq(S)
    BY <1>1, <2>2
  <2>4. QED
    BY <1>1, <2>1, <2>3
<1>8. ASSUME \/ OnDisconnection \/ FindConnection \/ EnterConnection \/ Peek \/ OnPacket \/ Consume
             \/ HostTcp \/ StopContext \/ Joined
      PROVE  UNCHANGED <<disconnects, sends>>
  BY <1>8 DEF OnDisconnection, FindConnection, EnterConnection, Peek, OnPacket, Consume,
              HostTcp, StopContext, Joined, sharedVars
<1>9. QED
  BY <1>2, <1>3, <1>4, <1>5, <1>6, <1>7, <1>8, NextSteps DEF ContextSteps, MainSteps, HandleEvents

\* The rest of what the main thread has.
MainPlace ==
    /\ connLock \in {"free", "context", "main"}
    /\ hosted \in BOOLEAN /\ starts \in 0 .. MaxStarts
    /\ main \in {"idle", "found", "peek", "packet", "consume", "thrown", "joining"}
    /\ reading \in Conns \cup {0}
    /\ main \in {"found", "peek", "packet", "consume", "thrown"} => reading \in Conns
    /\ asked \subseteq Conns /\ written \in 0 .. MaxSends /\ taken \in [Conns -> Nat]

LEMMA PlaceStep ==
    ASSUME MainFits, ToldInTurn, Next
    PROVE  MainPlace'
<1>1. MainPlace
  BY DEF MainFits, MainPlace
<1>2. CASE UNCHANGED <<connLock, mainVars>>
  BY <1>1, <1>2 DEF MainPlace, mainVars, setupVars
<1>3. ASSUME \/ Network
             \/ Poll \/ LeaveLoop \/ Accept \/ AcceptFails \/ Refuse \/ Insert \/ SkipEvent
             \/ (\E id \in DOMAIN conns :
                    ReadData(id) \/ ReadEnd(id) \/ ReadFails(id) \/ Flush(id) \/ CloseOnError(id))
             \/ EventsDone \/ DrainDisconnects \/ DrainSends \/ Announce
      PROVE  UNCHANGED <<connLock, mainVars>>
  BY <1>3 DEF Network, Knock, PeerSends, PeerEnds, Poll, LeaveLoop, Accept, AcceptFails, Refuse,
              Insert, SkipEvent, ReadData, ReadEnd, ReadFails, Flush, CloseOnError, EventsDone,
              DrainDisconnects, DrainSends, Announce, sharedVars
<1>4. ASSUME LockToErase \/ Erase PROVE MainPlace'
  <2>1. connLock' \in {"context", "free"} /\ UNCHANGED mainVars
    BY <1>4 DEF LockToErase, Erase
  <2>2. QED
    BY <1>1, <2>1 DEF MainPlace, mainVars, setupVars
<1>5. CASE Start
  <2>1. starts' \in 0 .. MaxStarts
    BY <1>1, <1>5 DEF Start, MainPlace
  <2>2. QED
    BY <1>1, <1>5, <2>1 DEF MainPlace, Start
<1>6. CASE OnConnection
  BY <1>1, <1>6 DEF MainPlace, OnConnection, NextTcpEvent, setupVars
<1>7. CASE OnDisconnection
  <2>1. taken' \in [Conns -> Nat]
    BY <1>1, <1>7 DEF MainPlace, OnDisconnection
  <2>2. QED
    BY <1>1, <1>7, <2>1 DEF MainPlace, OnDisconnection, NextTcpEvent, setupVars
<1>8. CASE FindConnection
  <2>1. Head(tcpEvents).id \in Conns
    BY <1>8, FirstTold DEF FindConnection
  <2>2. /\ \/ main' = "found" /\ reading' = Head(tcpEvents).id
           \/ UNCHANGED <<main, reading>>
        /\ UNCHANGED <<connLock, asked, written, taken, setupVars>>
    BY <1>8 DEF FindConnection
  <2>3. QED
    BY <1>1, <2>1, <2>2 DEF MainPlace, setupVars
<1>9. CASE EnterConnection
  <2>1. main = "found" /\ UNCHANGED <<asked, written, taken, setupVars>>
    BY <1>9 DEF EnterConnection
  <2>2. \/ connLock' = "main" /\ main' = "peek" /\ UNCHANGED reading
        \/ main' = "idle" /\ reading' = 0 /\ UNCHANGED connLock
        \/ main' = "thrown" /\ UNCHANGED <<reading, connLock>>
    BY <1>9 DEF EnterConnection
  <2>3. QED
    BY <1>1, <2>1, <2>2 DEF MainPlace, setupVars
<1>10. ASSUME Peek \/ Consume PROVE MainPlace'
  <2>1. main \in {"peek", "consume"} /\ UNCHANGED <<asked, written, taken, setupVars>>
    BY <1>10 DEF Peek, Consume
  <2>2. \/ main' = "packet" /\ UNCHANGED <<reading, connLock>>
        \/ main' = "idle" /\ reading' = 0 /\ connLock' = "free"
    BY <1>10 DEF Peek, Consume, PacketOrReturn
  <2>3. QED
    BY <1>1, <2>1, <2>2 DEF MainPlace, setupVars
<1>11. CASE OnPacket
  <2>1. taken' \in [Conns -> Nat]
    BY <1>1, <1>11 DEF MainPlace, OnPacket
  <2>2. QED
    BY <1>1, <1>11, <2>1 DEF MainPlace, OnPacket, sharedVars, setupVars
<1>12. ASSUME NEW id \in Conns, AskDisconnect(id) PROVE MainPlace'
  BY <1>1, <1>12 DEF MainPlace, AskDisconnect, setupVars
<1>13. ASSUME NEW id \in Conns, SendTcp(id) PROVE MainPlace'
  <2>1. written' \in 0 .. MaxSends
    BY <1>1, <1>13 DEF MainPlace, SendTcp
  <2>2. QED
    BY <1>1, <1>13, <2>1 DEF MainPlace, SendTcp, setupVars
<1>14. CASE HostTcp
  <2>1. hosted' \in BOOLEAN
    BY <1>14 DEF HostTcp
  <2>2. QED
    BY <1>1, <1>14, <2>1 DEF MainPlace, HostTcp, sharedVars
<1>15. ASSUME StopContext \/ Joined PROVE MainPlace'
  BY <1>1, <1>15 DEF MainPlace, StopContext, Joined, sharedVars, setupVars
<1>16. QED
  BY <1>2, <1>3, <1>4, <1>5, <1>6, <1>7, <1>8, <1>9, <1>10, <1>11, <1>12, <1>13, <1>14, <1>15, NextSteps
     DEF ContextSteps, MainSteps, HandleEvents

LEMMA MainStep ==
    ASSUME PeersCounted, ConnsKnown, JobFits, MainFits, ToldInTurn, Next
    PROVE  MainFits'
<1>1. MainPlace'
  BY PlaceStep
<1>2. disconnects' \in Seq(Conns) /\ sends' \in Seq(Conns)
  BY QueuesStep
<1>3. /\ buffer' \in [Conns -> [pos : 0 .. Capacity, filled : 0 .. Capacity]]
      /\ \A id \in Conns : buffer'[id].pos <= buffer'[id].filled
  BY BufferStep DEF Buffers
<1>4. QED
  BY <1>1, <1>2, <1>3 DEF MainFits, MainPlace

-----------------------------------------------------------------------------
(* The connections, as the promise has them. *)

Unborn(id) == id > accepted \/ id \in refused \/ (ctx = "insert" /\ job.id = id)
There(id) == id \in DOMAIN conns \/ (ctx = "announce" /\ job.id = id)

\* The cases of Line do not overlap.
LEMMA LineIs ==
    ASSUME PeersCounted, ConnsKnown, JobFits, NEW id \in Conns
    PROVE  /\ There(id) => ~Unborn(id)
           /\ Line(id) = IF Unborn(id) THEN "none" ELSE IF There(id) THEN "up" ELSE "down"
<1>1. id \in Nat /\ accepted \in Nat
  BY DEF PeersCounted, ConnsKnown, Conns
<1>2. There(id) => ~Unborn(id)
  BY <1>1 DEF ConnsKnown, JobFits, There, Unborn
<1>3. Line(id) = CASE Unborn(id) -> "none" [] There(id) -> "up" [] OTHER -> "down"
  BY DEF Line, Unborn, There
<1>4. QED
  BY <1>2, <1>3

LEMMA LineIsNext ==
    ASSUME PeersCounted', ConnsKnown', JobFits', NEW id \in Conns
    PROVE  Line(id)' = IF Unborn(id)' THEN "none" ELSE IF There(id)' THEN "up" ELSE "down"
<1>1. id \in Nat /\ accepted' \in Nat
  BY DEF PeersCounted, ConnsKnown, Conns
<1>2. There(id)' => ~Unborn(id)'
  BY <1>1 DEF ConnsKnown, JobFits, There, Unborn
<1>3. Line(id)' = CASE Unborn(id)' -> "none" [] There(id)' -> "up" [] OTHER -> "down"
  BY DEF Line, Unborn, There
<1>4. QED
  BY <1>2, <1>3

\* What the lemmas below begin with.
Before == /\ PeersCounted /\ ConnsKnown /\ JobFits
          /\ PeersCounted' /\ ConnsKnown' /\ JobFits'

LEMMA LifelineKept ==
    ASSUME Before, \A id \in Conns : (Unborn(id)' <=> Unborn(id)) /\ (There(id)' <=> There(id))
    PROVE  UNCHANGED Lifeline
<1>1. \A id \in Conns : Line(id)' = Line(id)
  BY LineIs, LineIsNext DEF Before
<1>2. QED
  BY <1>1 DEF Lifeline

\* One line changes.
LEMMA LifelineMoves ==
    ASSUME Before, NEW c \in Conns,
           \A id \in Conns \ {c} : (Unborn(id)' <=> Unborn(id)) /\ (There(id)' <=> There(id))
    PROVE  [id \in Conns |-> Line(id)]' = [[id \in Conns |-> Line(id)] EXCEPT ![c] = Line(c)']
<1>1. \A id \in Conns \ {c} : Line(id)' = Line(id)
  BY LineIs, LineIsNext DEF Before
<1>2. QED
  BY <1>1

\* An accepted connection is none until it is emplaced.
LEMMA AcceptTold ==
    ASSUME Before, EventsFit, Accept \/ Refuse
    PROVE  UNCHANGED <<Lifeline, tcpEvents, clients>>
<1>1. /\ accepted' = accepted + 1 /\ ctx = "events" /\ UNCHANGED <<conns, tcpEvents, clients>>
      /\ \/ ctx' = "insert" /\ job'.id = accepted' /\ refused' = refused
         \/ ctx' = "events" /\ refused' = refused \cup {accepted'}
  <2>1. CASE Accept
    BY <2>1 DEF Accept, NextEvent, NewUuid, NoJob, sharedVars, mainVars
  <2>2. CASE Refuse
    BY <2>2 DEF Refuse, NextEvent, sharedVars, mainVars
  <2>3. QED
    BY <2>1, <2>2
<1>2. accepted \in Nat
  BY DEF Before, PeersCounted, ConnsKnown
<1>3. \A id \in Conns : (Unborn(id)' <=> Unborn(id)) /\ (There(id)' <=> There(id))
  <2> TAKE id \in Conns
  <2>1. id \in Nat
    BY DEF Conns
  <2>2. id > accepted <=> id > accepted + 1 \/ id = accepted + 1
    BY <1>2, <2>1
  <2>3. QED
    BY <1>1, <2>2 DEF Unborn, There
<1>4. QED
  BY <1>1, <1>3, LifelineKept

LEMMA InsertTold ==
    ASSUME Before, Insert
    PROVE  \E c \in Conns : Promise!Up(c)
<1>0. PICK c : c = job.id
  OBVIOUS
<1>1. /\ ctx = "insert" /\ ctx' = "events" /\ DOMAIN conns' = DOMAIN conns \cup {c}
      /\ UNCHANGED <<accepted, refused>>
      /\ tcpEvents' = Append(tcpEvents, Event("connection", c))
  BY <1>0 DEF Insert, acceptVars
<1>2. c \in Conns /\ c = accepted /\ c \notin refused /\ accepted \in Nat
  BY <1>0, <1>1 DEF Before, JobFits, ConnsKnown, PeersCounted, Conns
<1>3. Unborn(c) /\ ~Unborn(c)' /\ There(c)'
  BY <1>0, <1>1, <1>2 DEF Unborn, There
<1>4. \A id \in Conns \ {c} : (Unborn(id)' <=> Unborn(id)) /\ (There(id)' <=> There(id))
  BY <1>0, <1>1 DEF Unborn, There
<1>5. Line(c) = "none" /\ Line(c)' = "up"
  BY <1>2, <1>3, LineIs, LineIsNext DEF Before
<1>6. [id \in Conns |-> Line(id)]' = [[id \in Conns |-> Line(id)] EXCEPT ![c] = "up"]
  BY <1>2, <1>4, <1>5, LifelineMoves
<1>7. Promise!Up(c)
  BY <1>1, <1>2, <1>5, <1>6 DEF Promise!Up, Promise!Notice, Event
<1>8. QED
  BY <1>2, <1>7

LEMMA AnnounceTold ==
    ASSUME Before, Announce
    PROVE  \E c \in Conns : Promise!Down(c)
<1>0. PICK c : c = job.id
  OBVIOUS
<1>1. /\ ctx = "announce" /\ ctx' \in {"events", "drain"}
      /\ UNCHANGED <<accepted, refused, conns>>
      /\ tcpEvents' = Append(tcpEvents, Event("disconnection", c))
  BY <1>0 DEF Announce, acceptVars, Before, JobFits
<1>2. c \in Conns /\ c <= accepted /\ c \notin refused \cup DOMAIN conns /\ accepted \in Nat
  BY <1>0, <1>1 DEF Before, JobFits, ConnsKnown, PeersCounted, Conns
<1>3. There(c) /\ ~Unborn(c) /\ ~Unborn(c)' /\ ~There(c)'
  BY <1>0, <1>1, <1>2 DEF Unborn, There, Conns
<1>4. \A id \in Conns \ {c} : (Unborn(id)' <=> Unborn(id)) /\ (There(id)' <=> There(id))
  BY <1>0, <1>1 DEF Unborn, There
<1>5. Line(c) = "up" /\ Line(c)' = "down"
  BY <1>2, <1>3, LineIs, LineIsNext DEF Before
<1>6. [id \in Conns |-> Line(id)]' = [[id \in Conns |-> Line(id)] EXCEPT ![c] = "down"]
  BY <1>2, <1>4, <1>5, LifelineMoves
<1>7. Promise!Down(c)
  BY <1>1, <1>2, <1>5, <1>6 DEF Promise!Down, Promise!Notice, Event
<1>8. QED
  BY <1>2, <1>7

\* A connection that is erased is there until its end is announced.
LEMMA EraseTold ==
    ASSUME Before, Erase
    PROVE  UNCHANGED <<Lifeline, tcpEvents, clients>>
<1>1. /\ ctx = "erase" /\ ctx' = "announce" /\ DOMAIN conns' = DOMAIN conns \ {job.id}
      /\ UNCHANGED <<job, accepted, refused, tcpEvents, clients>>
  BY DEF Erase, acceptVars, mainVars
<1>2. job.id \in DOMAIN conns
  BY <1>1 DEF Before, JobFits
<1>3. \A id \in Conns : (Unborn(id)' <=> Unborn(id)) /\ (There(id)' <=> There(id))
  BY <1>1, <1>2 DEF Unborn, There
<1>4. QED
  BY <1>1, <1>3, LifelineKept

LEMMA ReadTold ==
    ASSUME Before, NEW c \in DOMAIN conns, ReadData(c)
    PROVE  c \in Conns /\ Promise!Read(c) /\ clients' = clients
<1>1. /\ UNCHANGED <<ctx, job, accepted, refused, conns, clients>>
      /\ tcpEvents' = Append(tcpEvents, Event("read", c))
  BY DEF ReadData, acceptVars, mainVars
<1>2. c \in Conns /\ There(c)
  BY DEF Before, ConnsKnown, PeersCounted, Conns, There
<1>3. Line(c) = "up"
  BY <1>2, LineIs DEF Before
<1>4. UNCHANGED Lifeline
  BY <1>1, LifelineKept DEF Unborn, There
<1>5. QED
  BY <1>1, <1>2, <1>3, <1>4 DEF Promise!Read, Promise!Notice, Event, Lifeline

\* A handler is called.
LEMMA HandlerTold ==
    ASSUME Before, ToldInTurn, NEW k, NextTcpEvent(k), UNCHANGED ctxVars
    PROVE  LET c == Head(tcpEvents).id IN c \in Conns /\ k \in Promise!Kinds /\ Promise!Tell(k, c)
<1> DEFINE c == Head(tcpEvents).id
<1>1. c \in Conns /\ k \in Promise!Kinds /\ Head(tcpEvents) = Promise!Notice(k, c)
  BY FirstTold
<1>2. UNCHANGED Lifeline
  BY LifelineKept DEF Unborn, There, ctxVars, acceptVars
<1>3. tcpEvents # <<>> /\ tcpEvents' = Tail(tcpEvents)
  BY DEF NextTcpEvent
<1>4. Promise!Tell(k, c)
  BY <1>1, <1>2, <1>3 DEF Promise!Tell, Lifeline
<1>5. QED
  BY <1>1, <1>4

\* The rest of the context thread's steps are none of the promise's.
LEMMA QuietSteps ==
    ASSUME JobFits, MainFits,
           \/ Network
           \/ Poll \/ LeaveLoop \/ AcceptFails \/ SkipEvent
           \/ (\E id \in DOMAIN conns : ReadEnd(id) \/ ReadFails(id) \/ Flush(id) \/ CloseOnError(id))
           \/ EventsDone \/ DrainDisconnects \/ DrainSends \/ LockToErase \/ Start
           \/ EnterConnection \/ Peek \/ OnPacket \/ Consume
           \/ (\E id \in Conns : AskDisconnect(id) \/ SendTcp(id))
           \/ HostTcp \/ StopContext \/ Joined
    PROVE  /\ UNCHANGED <<accepted, refused, conns, tcpEvents, clients>>
           /\ \/ UNCHANGED <<ctx, job>>
              \/ ctx \notin {"insert", "announce"} /\ ctx' \notin {"insert", "announce"}
<1>1. CASE Network
  BY <1>1 DEF Network, Knock, PeerSends, PeerEnds, ctxVars, acceptVars, sharedVars, mainVars
<1>2. CASE Poll \/ LeaveLoop \/ AcceptFails \/ SkipEvent \/ EventsDone
  BY <1>2 DEF Poll, LeaveLoop, AcceptFails, SkipEvent, EventsDone, acceptVars, sharedVars, mainVars
<1>3. CASE DrainDisconnects \/ DrainSends \/ LockToErase
  BY <1>3 DEF DrainDisconnects, DrainSends, LockToErase, BeginClose, acceptVars, mainVars
<1>4. ASSUME NEW id \in DOMAIN conns, ReadEnd(id) \/ ReadFails(id) \/ Flush(id) \/ CloseOnError(id)
      PROVE  /\ UNCHANGED <<accepted, refused, conns, tcpEvents, clients>>
             /\ \/ UNCHANGED <<ctx, job>>
                \/ ctx \notin {"insert", "announce"} /\ ctx' \notin {"insert", "announce"}
  BY <1>4 DEF ReadEnd, ReadFails, Flush, CloseOnError, ReadableEvent, NextEvent, BeginClose,
              acceptVars, sharedVars, mainVars
<1>5. CASE Start
  BY <1>5, OffWhenIdle DEF Start
<1>6. CASE \/ EnterConnection \/ Peek \/ OnPacket \/ Consume
           \/ (\E id \in Conns : AskDisconnect(id) \/ SendTcp(id))
           \/ HostTcp \/ StopContext \/ Joined
  BY <1>6 DEF EnterConnection, Peek, OnPacket, Consume, AskDisconnect, SendTcp,
              HostTcp, StopContext, Joined, ctxVars, acceptVars, sharedVars
<1>7. QED
  BY <1>1, <1>2, <1>3, <1>4, <1>5, <1>6

LEMMA QuietTold ==
    ASSUME Before, UNCHANGED <<accepted, refused, conns, tcpEvents, clients>>,
           \/ UNCHANGED <<ctx, job>>
           \/ ctx \notin {"insert", "announce"} /\ ctx' \notin {"insert", "announce"}
    PROVE  UNCHANGED <<Lifeline, tcpEvents, clients>>
<1>1. \A id \in Conns : (Unborn(id)' <=> Unborn(id)) /\ (There(id)' <=> There(id))
  BY DEF Unborn, There
<1>2. QED
  BY <1>1, LifelineKept

\* Every step is one the promise allows, and _clients goes with it.
LEMMA StepTold ==
    ASSUME Before, EventsFit, MainFits, ToldInTurn, Next
    PROVE  \/ UNCHANGED <<Lifeline, tcpEvents, clients>>
           \/ \E c \in Conns :
                  (Promise!Up(c) \/ Promise!Read(c) \/ Promise!Down(c)) /\ clients' = clients
           \/ \E c \in Conns, k \in Promise!Kinds :
                  /\ Promise!Tell(k, c)
                  /\ clients' = CASE k = "connection" -> clients \cup {c}
                                  [] k = "disconnection" -> clients \ {c}
                                  [] k = "read" -> clients
<1>1. CASE Accept \/ Refuse
  BY <1>1, AcceptTold
<1>2. CASE Insert
  BY <1>2, InsertTold DEF Insert, mainVars
<1>3. CASE Announce
  BY <1>3, AnnounceTold DEF Announce, mainVars
<1>4. CASE Erase
  BY <1>4, EraseTold
<1>5. CASE \E id \in DOMAIN conns : ReadData(id)
  BY <1>5, ReadTold
<1>6. CASE OnConnection \/ OnDisconnection \/ FindConnection
  <2>1. PICK k : /\ NextTcpEvent(k) /\ UNCHANGED ctxVars
                 /\ clients' = CASE k = "connection" -> clients \cup {Head(tcpEvents).id}
                                 [] k = "disconnection" -> clients \ {Head(tcpEvents).id}
                                 [] k = "read" -> clients
    <3>1. CASE OnConnection
      BY <3>1 DEF OnConnection
    <3>2. CASE OnDisconnection
      BY <3>2 DEF OnDisconnection
    <3>3. CASE FindConnection
      BY <3>3 DEF FindConnection
    <3>4. QED
      BY <1>6, <3>1, <3>2, <3>3
  <2>2. QED
    BY <2>1, HandlerTold
<1>7. CASE \/ Network
           \/ Poll \/ LeaveLoop \/ AcceptFails \/ SkipEvent
           \/ (\E id \in DOMAIN conns : ReadEnd(id) \/ ReadFails(id) \/ Flush(id) \/ CloseOnError(id))
           \/ EventsDone \/ DrainDisconnects \/ DrainSends \/ LockToErase \/ Start
           \/ EnterConnection \/ Peek \/ OnPacket \/ Consume
           \/ (\E id \in Conns : AskDisconnect(id) \/ SendTcp(id))
           \/ HostTcp \/ StopContext \/ Joined
  <2>1. JobFits
    BY DEF Before
  <2>2. QED
    BY <1>7, <2>1, QuietSteps, QuietTold
<1>8. QED
  BY <1>1, <1>2, <1>3, <1>4, <1>5, <1>6, <1>7, NextSteps DEF ContextSteps, MainSteps, HandleEvents

LEMMA ToldStep ==
    ASSUME Before, EventsFit, MainFits, ToldInTurn, Next
    PROVE  ToldInTurn'
<1>1. Promise!Ordered /\ clients = Promise!Known
  BY DEF ToldInTurn, ClientsFollowConnections
<1>2. CASE UNCHANGED <<Lifeline, tcpEvents, clients>>
  BY <1>1, <1>2, PromiseSteps DEF ToldInTurn, ClientsFollowConnections
<1>3. ASSUME NEW c \in Conns, Promise!Up(c) \/ Promise!Read(c) \/ Promise!Down(c), clients' = clients
      PROVE  ToldInTurn'
  BY <1>1, <1>3, PromiseSteps DEF ToldInTurn, ClientsFollowConnections
<1>4. ASSUME NEW c \in Conns, NEW k \in Promise!Kinds, Promise!Tell(k, c),
             clients' = CASE k = "connection" -> clients \cup {c}
                          [] k = "disconnection" -> clients \ {c}
                          [] k = "read" -> clients
      PROVE  ToldInTurn'
  <2>1. /\ Promise!Ordered'
        /\ k = "connection" => Promise!Known' = Promise!Known \cup {c}
        /\ k = "disconnection" => Promise!Known' = Promise!Known \ {c}
        /\ k = "read" => Promise!Known' = Promise!Known
    BY <1>1, <1>4, PromiseSteps
  <2>2. k = "connection" \/ k = "disconnection" \/ k = "read"
    BY DEF Promise!Kinds
  <2>3. clients' = Promise!Known'
    BY <1>1, <1>4, <2>1, <2>2
  <2>4. QED
    BY <2>1, <2>3 DEF ToldInTurn, ClientsFollowConnections
<1>5. QED
  BY <1>1, <1>2, <1>3, <1>4, StepTold

-----------------------------------------------------------------------------
(* The poll set. *)

Heard == IF hosted THEN {Listener} ELSE {}

\* PollKept, by its parts.
LEMMA PollKeptParts ==
    ASSUME PollKept
    PROVE  /\ OneEach(polled, Descriptors)
           /\ Listener \in FdsOf(polled) => polled # <<>> /\ polled[1].fd = Listener
           /\ ctx # "off" => Heard \subseteq Waiting /\ Placed(New) \subseteq Waiting /\ Coming \subseteq Waiting
           /\ FdsOf(polled) \ Waiting \subseteq Placed(Open \ New)
           /\ Cardinality(Stray) <= Cardinality(Lost)
           /\ FdsOf(polled) = Waiting \cup Asking(polled, Out)
<1>1. OneEach(polled, Descriptors) /\ PollSetMatchesConnections
      /\ (Listener \in FdsOf(polled) => polled[1].fd = Listener)
  BY DEF PollKept
<1>2. Listener \in FdsOf(polled) => polled # <<>>
  BY DEF FdsOf
<1>3. FdsOf(polled) = Waiting \cup Asking(polled, Out)
  BY <1>1, FdsAsk DEF Waiting
<1>4. QED
  BY <1>1, <1>2, <1>3, PollSetParts DEF Heard

LEMMA PollKeptNext ==
    ASSUME ConnsKnown', OneEach(polled', Descriptors),
           Listener \in FdsOf(polled') => polled'[1].fd = Listener,
           ctx' # "off" => Heard' \subseteq Waiting' /\ Placed(New)' \subseteq Waiting' /\ Coming' \subseteq Waiting',
           FdsOf(polled') \ Waiting' \subseteq Placed(Open \ New)',
           Cardinality(Stray') <= Cardinality(Lost')
    PROVE  PollKept'
<1>1. \A i, j \in DOMAIN polled' : polled'[i].fd = polled'[j].fd => i = j
  BY DEF OneEach
<1>2. \A i, j \in Open' : conns'[i] = conns'[j] => i = j
  BY DEF ConnsKnown, Open
<1>3. PollSetMatchesConnections'
  BY <1>1, <1>2, PollSetPartsNext DEF Heard
<1>4. QED
  BY <1>3 DEF PollKept

\* There are finitely many of each.
LEMMA StrayFinite ==
    ASSUME PollKept, PeersCounted, ConnsKnown
    PROVE  /\ IsFiniteSet(Stray) /\ IsFiniteSet(Lost)
           /\ Cardinality(Stray) \in Nat /\ Cardinality(Lost) \in Nat
<1>1. \A m \in Nat : IsFiniteSet(0 .. m)
  <2> TAKE m \in Nat
  <2>1. 0 \in Int /\ m \in Int
    OBVIOUS
  <2>2. QED
    BY ONLY <2>1, FS_Interval
<1>2. Stray \subseteq 0 .. MaxConns /\ MaxConns \in Nat
  <2>1. FdsOf(polled) \subseteq Descriptors
    BY FdsAsk DEF PollKept
  <2>2. Stray \subseteq FdsOf(polled)
    BY DEF Stray, Waiting, Asking, FdsOf
  <2>3. Descriptors \subseteq 0 .. MaxConns
    BY DEF Descriptors, Fds, Listener
  <2>4. QED
    BY <2>1, <2>2, <2>3
<1>3. Lost \subseteq 0 .. accepted /\ accepted \in Nat
  BY DEF ConnsKnown, PeersCounted, Lost
<1>4. IsFiniteSet(Stray) /\ IsFiniteSet(Lost)
  BY <1>1, <1>2, <1>3, FS_Subset
<1>5. QED
  BY <1>4, FS_CardinalityType

LEMMA StrayKept ==
    ASSUME Before, PollKept, Stray' \subseteq Stray, Lost' = Lost
    PROVE  Cardinality(Stray') <= Cardinality(Lost')
<1>1. Cardinality(Stray) <= Cardinality(Lost)
  BY PollKeptParts
<1>2. /\ IsFiniteSet(Stray) /\ IsFiniteSet(Lost)
      /\ Cardinality(Stray) \in Nat /\ Cardinality(Lost) \in Nat
  BY StrayFinite DEF Before
<1>3. Cardinality(Stray') <= Cardinality(Stray) /\ IsFiniteSet(Stray')
  BY <1>2, FS_Subset
<1>4. Cardinality(Stray') \in Nat
  BY <1>3, FS_CardinalityType
<1>5. QED
  BY <1>1, <1>2, <1>3, <1>4

\* A descriptor that could not be set up is one more of both.
LEMMA StrayGrows ==
    ASSUME Before, PollKept, NEW fd, NEW id, id \notin Lost,
           Stray' \subseteq Stray \cup {fd}, Lost' = Lost \cup {id}
    PROVE  Cardinality(Stray') <= Cardinality(Lost')
<1> DEFINE more == Stray \cup {fd}
<1>1. Cardinality(Stray) <= Cardinality(Lost)
  BY PollKeptParts
<1>2. /\ IsFiniteSet(Stray) /\ IsFiniteSet(Lost)
      /\ Cardinality(Stray) \in Nat /\ Cardinality(Lost) \in Nat
  BY StrayFinite DEF Before
<1>3. /\ IsFiniteSet(more)
      /\ Cardinality(more) = IF fd \in Stray THEN Cardinality(Stray) ELSE Cardinality(Stray) + 1
  BY <1>2, FS_AddElement
<1>4. Cardinality(Lost') = Cardinality(Lost) + 1
  BY <1>2, FS_AddElement
<1> HIDE DEF more
<1>5. Cardinality(Stray') <= Cardinality(more) /\ IsFiniteSet(Stray')
  BY <1>3, FS_Subset DEF more
<1>6. Cardinality(Stray') \in Nat /\ Cardinality(more) \in Nat
  BY <1>3, <1>5, FS_CardinalityType
<1>7. QED
  BY <1>1, <1>2, <1>3, <1>4, <1>5, <1>6

\* Nothing is polled.
LEMMA NoStray ==
    ASSUME Waiting' \subseteq {Listener}, IsFiniteSet(Lost')
    PROVE  Cardinality(Stray') <= Cardinality(Lost')
<1>1. Stray' = {}
  BY DEF Stray
<1>2. Cardinality(Stray') = 0 /\ Cardinality(Lost') \in Nat
  BY <1>1, FS_EmptySet, FS_CardinalityType
<1>3. QED
  BY <1>2

\* prepare_write
LEMMA PollPolls ==
    ASSUME Before, PollKept, Poll
    PROVE  PollKept'
<1>1. /\ ctx = "top" /\ ctx' = "events"
      /\ UNCHANGED <<job, accepted, refused, since, conns, hosted>>
      /\ polled' \in PreparedLike
  BY PreparedPoll DEF Poll, Before, acceptVars, sharedVars, mainVars, setupVars
<1>2. /\ OneEach(polled', Descriptors) /\ Waiting' = Waiting
      /\ Asking(polled', Out) \subseteq Asking(polled, Out) \cup Range(conns)
      /\ Listener \in FdsOf(polled) => polled'[1].fd = Listener
  BY <1>1 DEF PreparedLike, Waiting
<1>3. /\ FdsOf(polled') = Waiting' \cup Asking(polled', Out)
      /\ FdsOf(polled) = Waiting \cup Asking(polled, Out)
  BY <1>2, FdsAsk, PollKeptParts DEF Waiting
<1>4. Listener \notin Range(conns)
  BY OneHolder DEF Before
<1>5. Listener \in FdsOf(polled') => polled'[1].fd = Listener
  BY <1>2, <1>3, <1>4
<1>6. Open = DOMAIN conns /\ Open' = Open /\ New' = New /\ Coming = {} /\ Coming' = {} /\ Heard' = Heard
      /\ Placed(New)' = Placed(New) /\ Placed(Open \ New)' = Placed(Open \ New)
  BY <1>1 DEF Open, New, Coming, Heard, Placed
<1>7. Range(conns) \subseteq Placed(New) \cup Placed(Open \ New)
  BY <1>6 DEF Range, Placed
<1>8. Heard \subseteq Waiting /\ Placed(New) \subseteq Waiting /\ FdsOf(polled) \ Waiting \subseteq Placed(Open \ New)
  BY <1>1, PollKeptParts
<1>9. FdsOf(polled') \ Waiting' \subseteq Placed(Open \ New)'
  BY <1>2, <1>3, <1>6, <1>7, <1>8
<1>10. Stray' = Stray /\ Lost' = Lost
  BY <1>1, <1>2, <1>6 DEF Stray, Lost, Placed
<1>11. Cardinality(Stray') <= Cardinality(Lost')
  BY <1>10, StrayKept
<1>12. ConnsKnown'
  BY DEF Before
<1>13. QED
  BY <1>2, <1>5, <1>6, <1>8, <1>9, <1>11, <1>12, PollKeptNext

LEMMA PollLeaves ==
    ASSUME Before, PollKept, LeaveLoop
    PROVE  PollKept'
<1>1. polled' = <<>> /\ ctx' = "off" /\ UNCHANGED <<refused, since>>
  BY DEF LeaveLoop, acceptVars
<1>2. FdsOf(polled') = {} /\ Waiting' = {} /\ OneEach(polled', Descriptors)
  BY <1>1 DEF FdsOf, Waiting, Asking, OneEach
<1>3. IsFiniteSet(Lost')
  BY <1>1, StrayFinite DEF Before, Lost
<1>4. Cardinality(Stray') <= Cardinality(Lost')
  BY <1>2, <1>3, NoStray
<1>5. ConnsKnown'
  BY DEF Before
<1>6. QED
  BY <1>1, <1>2, <1>4, <1>5, PollKeptNext

LEMMA PollStarts ==
    ASSUME Before, PollKept, Start
    PROVE  PollKept'
<1>1. /\ ctx' = "top" /\ since' = accepted /\ UNCHANGED <<accepted, refused, conns, hosted>>
      /\ polled' = IF hosted THEN Added(<<>>, Listener) ELSE <<>>
  BY DEF Start
<1>2. /\ OneEach(polled', Descriptors)
      /\ FdsOf(polled') = Heard' /\ Waiting' = Heard'
      /\ Listener \in FdsOf(polled') => polled'[1].fd = Listener
  <2>1. OneEach(<<>>, Descriptors) /\ FdsOf(<<>>) = {} /\ \A i : Asking(<<>>, i) = {}
    BY DEF OneEach, FdsOf, Asking
  <2>2. Listener \in Descriptors /\ In \in {In, Out}
    BY DEF Descriptors
  <2> DEFINE r == AskedFor(<<>>, Listener, In)
  <2>3. OneEach(r, Descriptors) /\ FdsOf(r) = {Listener} /\ Asking(r, In) = {Listener}
        /\ r[1].fd = Listener
    BY <2>1, <2>2, AskedForOneEach
  <2> HIDE DEF r
  <2>4. polled' = IF hosted THEN r ELSE <<>>
    BY <1>1 DEF Added, r
  <2>5. QED
    BY <1>1, <2>1, <2>3, <2>4 DEF Heard, Waiting
<1>3. New' = {} /\ Coming' = {} /\ Lost' = {}
  <2>1. \A id \in Open' : id \in Nat /\ id <= accepted
    BY <1>1 DEF Before, ConnsKnown, PeersCounted, Open
  <2>2. \A id \in refused' : id \in Nat /\ id <= accepted
    BY <1>1 DEF Before, ConnsKnown, PeersCounted
  <2>3. accepted \in Nat
    BY DEF Before, ConnsKnown, PeersCounted
  <2>4. QED
    BY <1>1, <2>1, <2>2, <2>3 DEF New, Coming, Lost
<1>4. Placed(New)' = {}
  BY <1>3 DEF Placed
<1>5. Cardinality(Stray') <= Cardinality(Lost')
  BY <1>2, <1>3, NoStray, FS_EmptySet DEF Heard
<1>6. ConnsKnown'
  BY DEF Before
<1>7. QED
  BY <1>2, <1>3, <1>4, <1>5, <1>6, PollKeptNext

\* A new descriptor is polled, whatever becomes of it.
LEMMA PollTakes ==
    ASSUME Before, PollKept, EventsFit, Accept \/ Refuse
    PROVE  PollKept'
<1> DEFINE fd == LowestFreeFd
<1>1. /\ accepted < knocked /\ accepted' = accepted + 1 /\ ctx = "events"
      /\ polled' = Added(polled, fd) /\ UNCHANGED <<since, conns, hosted>>
      /\ \/ ctx' = "insert" /\ refused' = refused
         \/ ctx' = "events" /\ refused' = refused \cup {accepted'}
  <2>1. CASE Accept
    BY <2>1, ListenerEvent DEF Accept, NextEvent, sharedVars, mainVars, setupVars
  <2>2. CASE Refuse
    BY <2>2, ListenerEvent DEF Refuse, NextEvent, sharedVars, mainVars, setupVars
  <2>3. QED
    BY <2>1, <2>2
<1>2. fd \in Fds /\ fd \in Descriptors /\ fd # Listener
  BY <1>1, FdIsFree DEF Before, Descriptors, Fds, Listener
<1>3. fd' = fd
  BY <1>1 DEF LowestFreeFd
<1>4. Coming = {} /\ Coming' = IF ctx' = "insert" THEN {fd} ELSE {}
  BY <1>1, <1>3 DEF Coming
<1> HIDE DEF fd
<1>5. /\ OneEach(polled', Descriptors)
      /\ FdsOf(polled') = FdsOf(polled) \cup {fd}
      /\ Waiting' = Waiting \cup {fd}
      /\ polled # <<>> => polled'[1].fd = polled[1].fd
  <2>1. OneEach(polled, Descriptors) /\ In \in {In, Out}
    BY PollKeptParts
  <2>2. QED
    BY <1>1, <1>2, <2>1, AskedForOneEach DEF Added, Waiting
<1>6. Open' = Open /\ New' = New /\ Heard' = Heard
      /\ Placed(New)' = Placed(New) /\ Placed(Open \ New)' = Placed(Open \ New)
      /\ Placed(Open)' = Placed(Open)
  BY <1>1 DEF Open, New, Heard, Placed
<1>7. /\ Heard \subseteq Waiting /\ Placed(New) \subseteq Waiting
      /\ FdsOf(polled) \ Waiting \subseteq Placed(Open \ New)
      /\ Listener \in FdsOf(polled) => polled # <<>> /\ polled[1].fd = Listener
  BY <1>1, PollKeptParts
<1>8. Listener \in FdsOf(polled') => polled'[1].fd = Listener
  BY <1>2, <1>5, <1>7
<1>9. FdsOf(polled') \ Waiting' \subseteq Placed(Open \ New)'
  BY <1>5, <1>6, <1>7
<1>10. Heard' \subseteq Waiting' /\ Placed(New)' \subseteq Waiting' /\ Coming' \subseteq Waiting'
  BY <1>4, <1>5, <1>6, <1>7
<1>11. Stray = Waiting \ ({Listener} \cup Placed(Open))
       /\ Stray' = (Waiting \cup {fd}) \ ({Listener} \cup Placed(Open) \cup Coming')
  BY <1>4, <1>5, <1>6 DEF Stray
<1>12. Cardinality(Stray') <= Cardinality(Lost')
  <2>1. CASE ctx' = "insert" /\ refused' = refused
    <3>1. Stray' \subseteq Stray
      BY <1>4, <1>11, <2>1
    <3>2. Lost' = Lost
      BY <1>1, <2>1 DEF Lost
    <3>3. QED
      BY <3>1, <3>2, StrayKept
  <2>2. CASE ctx' = "events" /\ refused' = refused \cup {accepted'}
    <3>1. Stray' \subseteq Stray \cup {fd}
      BY <1>11
    <3>2. accepted + 1 \notin refused /\ accepted + 1 > since
      BY DEF Before, ConnsKnown, PeersCounted
    <3>3. Lost' = Lost \cup {accepted + 1} /\ accepted + 1 \notin Lost
      BY <1>1, <2>2, <3>2 DEF Lost
    <3>4. QED
      BY <3>1, <3>3, StrayGrows
  <2>3. QED
    BY <1>1, <2>1, <2>2
<1>13. ConnsKnown'
  BY DEF Before
<1>14. QED
  BY <1>5, <1>8, <1>9, <1>10, <1>12, <1>13, PollKeptNext

\* What was coming is a connection.
LEMMA PollInserts ==
    ASSUME Before, PollKept, Insert
    PROVE  PollKept'
<1>0. PICK fd, c : fd = LowestFreeFd /\ c = job.id
  OBVIOUS
<1>1. /\ ctx = "insert" /\ ctx' = "events" /\ UNCHANGED <<accepted, refused, since, polled, hosted>>
      /\ conns' = [id \in DOMAIN conns \cup {c} |-> IF id = c THEN fd ELSE conns[id]]
  BY <1>0 DEF Insert, acceptVars, mainVars, setupVars
<1>2. c = accepted /\ since < accepted /\ c \notin DOMAIN conns
  BY <1>0, <1>1 DEF Before, JobFits
<1>3. since \in Nat /\ accepted \in Nat
  BY DEF Before, ConnsKnown, PeersCounted
<1>4. Open = DOMAIN conns /\ Open' = Open \cup {c} /\ New' = New \cup {c}
  <2>1. Open = DOMAIN conns /\ Open' = Open \cup {c}
    BY <1>1 DEF Open
  <2>2. c > since
    BY <1>2, <1>3
  <2>3. QED
    BY <1>1, <2>1, <2>2 DEF New
<1>5. Coming = {fd} /\ Coming' = {}
  BY <1>0, <1>1 DEF Coming
<1>6. \A ids : ids \subseteq DOMAIN conns => {conns'[id] : id \in ids} = Placed(ids)
  BY <1>1, <1>2 DEF Placed
<1>7. conns'[c] = fd
  BY <1>1
<1>8. New \subseteq Open /\ Open' \ New' = Open \ New
  BY <1>2, <1>4 DEF New
<1>9. /\ Placed(New)' = Placed(New) \cup {fd} /\ Placed(Open)' = Placed(Open) \cup {fd}
      /\ Placed(Open \ New)' = Placed(Open \ New)
  <2>1. Placed(New)' = {conns'[id] : id \in New \cup {c}}
    BY <1>4 DEF Placed
  <2>2. Placed(Open)' = {conns'[id] : id \in Open \cup {c}}
    BY <1>4 DEF Placed
  <2>3. Placed(Open \ New)' = {conns'[id] : id \in Open \ New}
    BY <1>8 DEF Placed
  <2>4. \A ids : {conns'[id] : id \in ids \cup {c}} = {conns'[id] : id \in ids} \cup {fd}
    BY <1>7
  <2>5. QED
    BY <1>4, <1>6, <1>8, <2>1, <2>2, <2>3, <2>4
<1>10. Heard' = Heard /\ Waiting' = Waiting /\ FdsOf(polled') = FdsOf(polled) /\ Lost' = Lost
  BY <1>1 DEF Heard, Waiting, Lost
<1>11. Stray' = Stray
  BY <1>5, <1>9, <1>10 DEF Stray
<1>12. /\ OneEach(polled', Descriptors)
       /\ Listener \in FdsOf(polled') => polled'[1].fd = Listener
       /\ Heard \subseteq Waiting /\ Placed(New) \subseteq Waiting /\ Coming \subseteq Waiting
       /\ FdsOf(polled) \ Waiting \subseteq Placed(Open \ New)
  BY <1>1, PollKeptParts
<1>13. Heard' \subseteq Waiting' /\ Placed(New)' \subseteq Waiting' /\ Coming' \subseteq Waiting'
  BY <1>5, <1>9, <1>10, <1>12
<1>14. FdsOf(polled') \ Waiting' \subseteq Placed(Open \ New)'
  BY <1>9, <1>10, <1>12
<1>15. Cardinality(Stray') <= Cardinality(Lost')
  BY <1>10, <1>11, StrayKept
<1>16. ConnsKnown'
  BY DEF Before
<1>17. QED
  BY <1>12, <1>13, <1>14, <1>15, <1>16, PollKeptNext

\* A connection that is closed is not polled any more.
LEMMA PollCloses ==
    ASSUME Before, PollKept, NEW c \in DOMAIN conns, NEW reader, NEW back, BeginClose(c, reader, back),
           ctx \in {"events", "drain"}, UNCHANGED <<accepted, refused, since, conns, hosted>>
    PROVE  PollKept'
<1>0. PICK fd : fd = conns[c]
  OBVIOUS
<1>1. polled' = Removed(polled, fd) /\ job'.id = c /\ ctx' = "close"
  BY <1>0 DEF BeginClose
<1>2. fd # Listener /\ \A id \in DOMAIN conns : conns[id] = fd => id = c
  BY <1>0 DEF Before, ConnsKnown, Fds, Listener
<1>3. /\ OneEach(polled', Descriptors)
      /\ FdsOf(polled') = FdsOf(polled) \ {fd}
      /\ Waiting' = Waiting \ {fd}
      /\ polled # <<>> /\ polled[1].fd # fd => polled'[1].fd = polled[1].fd
  BY <1>1, PollKeptParts, RemovedOneEach DEF Waiting
<1>4. Open = DOMAIN conns /\ Open' = Open \ {c} /\ New' = New \ {c}
  <2>1. Open = DOMAIN conns /\ Open' = Open \ {c}
    BY <1>1 DEF Open
  <2>2. QED
    BY <2>1 DEF New
<1>5. \A ids : ids \subseteq DOMAIN conns => Placed(ids \ {c})  = Placed(ids) \ {fd}
  BY <1>0, <1>2 DEF Placed
<1>6. New \subseteq Open /\ Open' \ New' = (Open \ New) \ {c}
  BY <1>4 DEF New
<1>7. /\ Placed(New)' = Placed(New) \ {fd} /\ Placed(Open)' = Placed(Open) \ {fd}
      /\ Placed(Open \ New)' = Placed(Open \ New) \ {fd}
  <2>1. Placed(New)' = Placed(New \ {c}) /\ Placed(Open)' = Placed(Open \ {c})
        /\ Placed(Open \ New)' = Placed((Open \ New) \ {c})
    BY <1>4, <1>6 DEF Placed
  <2>2. QED
    BY <1>4, <1>5, <1>6, <2>1
<1>8. Coming = {} /\ Coming' = {} /\ Heard' = Heard /\ Lost' = Lost
  BY <1>1 DEF Coming, Heard, Lost
<1>9. /\ Heard \subseteq Waiting /\ Placed(New) \subseteq Waiting
      /\ FdsOf(polled) \ Waiting \subseteq Placed(Open \ New)
      /\ Listener \in FdsOf(polled) => polled # <<>> /\ polled[1].fd = Listener
  BY PollKeptParts
<1>10. Listener \in FdsOf(polled') => polled'[1].fd = Listener
  BY <1>2, <1>3, <1>9
<1>11. Heard' \subseteq Waiting' /\ Placed(New)' \subseteq Waiting' /\ Coming' \subseteq Waiting'
  BY <1>2, <1>3, <1>7, <1>8, <1>9 DEF Heard
<1>12. FdsOf(polled') \ Waiting' \subseteq Placed(Open \ New)'
  BY <1>3, <1>7, <1>9
<1>13. Stray' \subseteq Stray
  BY <1>3, <1>7, <1>8 DEF Stray
<1>14. Cardinality(Stray') <= Cardinality(Lost')
  BY <1>8, <1>13, StrayKept
<1>15. ConnsKnown'
  BY DEF Before
<1>16. QED
  BY <1>3, <1>10, <1>11, <1>12, <1>14, <1>15, PollKeptNext

\* The same connections are open, at the same descriptors.
LEMMA PollUnmoved ==
    ASSUME Before, PollKept, UNCHANGED <<polled, refused, since, hosted>>,
           Open' = Open, \A id \in Open : conns'[id] = conns[id], Coming' = Coming,
           ctx' # "off" => ctx # "off"
    PROVE  PollKept'
<1>1. New' = New /\ New \subseteq Open /\ Heard' = Heard /\ Waiting' = Waiting /\ Lost' = Lost
  BY DEF New, Heard, Waiting, Lost
<1>2. /\ Placed(New)' = Placed(New) /\ Placed(Open)' = Placed(Open)
      /\ Placed(Open \ New)' = Placed(Open \ New)
  BY <1>1 DEF Placed
<1>3. Stray' = Stray
  BY <1>1, <1>2 DEF Stray
<1>4. /\ OneEach(polled', Descriptors)
      /\ Listener \in FdsOf(polled') => polled'[1].fd = Listener
      /\ FdsOf(polled) \ Waiting \subseteq Placed(Open \ New) /\ FdsOf(polled') = FdsOf(polled)
      /\ ctx # "off" => Heard \subseteq Waiting /\ Placed(New) \subseteq Waiting /\ Coming \subseteq Waiting
  BY PollKeptParts
<1>5. Cardinality(Stray') <= Cardinality(Lost')
  BY <1>1, <1>3, StrayKept
<1>6. ConnsKnown'
  BY DEF Before
<1>7. QED
  BY <1>1, <1>2, <1>4, <1>5, <1>6, PollKeptNext

\* The listener is made before the context runs.
LEMMA PollHosts ==
    ASSUME Before, PollKept, HostTcp
    PROVE  PollKept'
<1>1. ctx = "off"
  BY OffWhenIdle DEF HostTcp, Before
<1>2. UNCHANGED <<polled, refused, since, conns, ctx, job>>
  BY DEF HostTcp, ctxVars, acceptVars
<1>3. Open' = Open /\ New' = New /\ Coming' = Coming /\ Waiting' = Waiting /\ Lost' = Lost
      /\ Placed(Open)' = Placed(Open) /\ Placed(Open \ New)' = Placed(Open \ New)
  BY <1>1, <1>2 DEF Open, New, Coming, Waiting, Lost, Placed
<1>4. Stray' = Stray
  BY <1>3 DEF Stray
<1>5. /\ OneEach(polled', Descriptors)
      /\ Listener \in FdsOf(polled') => polled'[1].fd = Listener
      /\ FdsOf(polled) \ Waiting \subseteq Placed(Open \ New) /\ FdsOf(polled') = FdsOf(polled)
  BY <1>2, PollKeptParts
<1>6. Cardinality(Stray') <= Cardinality(Lost')
  BY <1>3, <1>4, StrayKept
<1>7. ConnsKnown'
  BY DEF Before
<1>8. QED
  BY <1>1, <1>2, <1>3, <1>5, <1>6, <1>7, PollKeptNext

LEMMA PollStep ==
    ASSUME Before, PollKept, EventsFit, MainFits, Next
    PROVE  PollKept'
<1>0. JobFits
  BY DEF Before
<1>1. CASE Poll
  BY <1>1, PollPolls
<1>2. CASE LeaveLoop
  BY <1>2, PollLeaves
<1>3. CASE Start
  BY <1>3, PollStarts
<1>4. CASE Accept \/ Refuse
  BY <1>4, PollTakes
<1>5. CASE Insert
  BY <1>5, PollInserts
<1>6. ASSUME NEW id \in DOMAIN conns, ReadEnd(id) \/ Flush(id) \/ CloseOnError(id)
      PROVE  PollKept'
  <2>1. UNCHANGED <<accepted, refused, since, conns, hosted>> /\ ctx = "events"
    BY <1>6 DEF ReadEnd, Flush, CloseOnError, ReadableEvent, NextEvent,
                acceptVars, sharedVars, mainVars, setupVars
  <2>2. \/ BeginClose(id, TRUE, "events") \/ BeginClose(id, FALSE, "events")
        \/ UNCHANGED <<ctx, job, polled>>
    BY <1>6 DEF ReadEnd, Flush, CloseOnError
  <2>3. CASE BeginClose(id, TRUE, "events") \/ BeginClose(id, FALSE, "events")
    BY <2>1, <2>3, PollCloses
  <2>4. CASE UNCHANGED <<ctx, job, polled>>
    <3>1. Open' = Open /\ Coming' = Coming
      BY <2>1, <2>4 DEF Open, Coming
    <3>2. QED
      BY <2>1, <2>4, <3>1, PollUnmoved
  <2>5. QED
    BY <2>2, <2>3, <2>4
<1>7. CASE DrainDisconnects
  <2>1. UNCHANGED <<accepted, refused, since, conns, hosted>> /\ ctx = "drain"
    BY <1>7 DEF DrainDisconnects, acceptVars, mainVars, setupVars
  <2>2. CASE Head(disconnects) \in DOMAIN conns /\ BeginClose(Head(disconnects), FALSE, "drain")
    BY <2>1, <2>2, PollCloses
  <2>3. CASE (ctx' = "send" \/ ctx' = ctx) /\ UNCHANGED polled
    <3>1. Open' = Open /\ Coming' = Coming
      BY <2>1, <2>3 DEF Open, Coming
    <3>2. QED
      BY <2>1, <2>3, <3>1, PollUnmoved
  <2>4. QED
    BY <1>7, <2>2, <2>3 DEF DrainDisconnects
<1>8. CASE Erase
  <2>1. /\ ctx = "erase" /\ ctx' = "announce" /\ UNCHANGED <<polled, refused, since, hosted>>
        /\ DOMAIN conns' = DOMAIN conns \ {job.id}
        /\ \A id \in DOMAIN conns \ {job.id} : conns'[id] = conns[id]
    BY <1>8 DEF Erase, acceptVars, mainVars, setupVars
  <2>2. Open' = Open /\ Open = DOMAIN conns \ {job.id} /\ Coming' = Coming
    BY <2>1 DEF Open, Coming
  <2>3. QED
    BY <2>1, <2>2, PollUnmoved
<1>9. ASSUME \/ EventsDone \/ DrainSends \/ LockToErase \/ Announce
      PROVE  PollKept'
  <2>1. UNCHANGED <<polled, refused, since, hosted, conns>>
    BY <1>9 DEF EventsDone, DrainSends, LockToErase, Announce, acceptVars, mainVars, setupVars
  <2>2. \/ ctx \in {"events", "send", "announce"} /\ ctx' \in {"events", "drain", "top", "send"}
        \/ ctx = "close" /\ ctx' = "erase" /\ job' = job
    BY <1>0, <1>9 DEF EventsDone, DrainSends, LockToErase, Announce, JobFits
  <2>3. Open' = Open /\ Coming' = Coming
    BY <2>1, <2>2 DEF Open, Coming
  <2>4. QED
    BY <2>1, <2>2, <2>3, PollUnmoved
<1>10. CASE HostTcp
  BY <1>10, PollHosts
<1>11. ASSUME UNCHANGED <<polled, refused, since, hosted, conns, ctx, job>>
       PROVE  PollKept'
  <2>1. Open' = Open /\ Coming' = Coming
    BY <1>11 DEF Open, Coming, LowestFreeFd
  <2>2. QED
    BY <1>11, <2>1, PollUnmoved
<1>12. ASSUME \/ Network \/ AcceptFails \/ SkipEvent
              \/ \E id \in DOMAIN conns : ReadData(id) \/ ReadFails(id)
       PROVE  UNCHANGED <<polled, refused, since, hosted, conns, ctx, job>>
  BY <1>12 DEF Network, Knock, PeerSends, PeerEnds, AcceptFails, SkipEvent, ReadData, ReadFails,
               ctxVars, acceptVars, sharedVars, mainVars, setupVars
<1>13. ASSUME MainSteps
       PROVE  HostTcp \/ UNCHANGED <<polled, refused, since, hosted, conns, ctx, job>>
  <2>1. UNCHANGED <<polled, refused, since, conns, ctx, job>>
    BY <1>13, MainKeeps DEF ctxVars, acceptVars
  <2>2. HostTcp \/ UNCHANGED hosted
    BY <1>13 DEF MainSteps, HandleEvents, OnConnection, OnDisconnection, FindConnection,
                 EnterConnection, Peek, OnPacket, Consume, AskDisconnect, SendTcp, StopContext, Joined,
                 setupVars
  <2>3. QED
    BY <2>1, <2>2
<1>14. QED
  BY <1>1, <1>2, <1>3, <1>4, <1>5, <1>6, <1>7, <1>8, <1>9, <1>10, <1>11, <1>12, <1>13, NextSteps
     DEF ContextSteps

-----------------------------------------------------------------------------
(* The events of a round. *)

\* EventsFit, by its parts.
LEMMA EventsFitParts ==
    ASSUME EventsFit
    PROVE  /\ events \in Seq(PollEvents)
           /\ \A j \in DOMAIN events, id \in DOMAIN conns : conns[id] = events[j].fd =>
                  id = events[j].id /\ (events[j].type = "error" => peer[id] # "open")
BY DEF EventsFit, EventsKeepTheirConnection, Holders

LEMMA EventsFitNext ==
    ASSUME events' \in Seq(PollEvents),
           \A j \in DOMAIN events', id \in DOMAIN conns' : conns'[id] = events'[j].fd =>
               id = events'[j].id /\ (events'[j].type = "error" => peer'[id] # "open"),
           \A j \in DOMAIN events' : events'[j].fd = Listener =>
               /\ j = 1 /\ events'[j].type = "read" /\ ctx' = "events" /\ accepted' < knocked'
               /\ \A k \in DOMAIN events' : events'[k].fd \in Range(conns') \cup {Listener},
           ctx' = "insert" => \A j \in DOMAIN events' : events'[j].fd # LowestFreeFd'
    PROVE  EventsFit'
BY DEF EventsFit, EventsKeepTheirConnection, Holders

LEMMA NoEvents ==
    ASSUME events' = <<>>
    PROVE  EventsFit'
<1>1. events' \in Seq(PollEvents) /\ DOMAIN events' = {}
  OBVIOUS
<1>2. QED
  BY <1>1, EventsFitNext

\* The first event is taken.
LEMMA EventTaken ==
    ASSUME EventsFit, events # <<>>, events' = Tail(events), conns' = conns,
           \A id \in DOMAIN conns : peer'[id] = peer[id],
           ctx' = "insert" => \A j \in DOMAIN events' : events'[j].fd # LowestFreeFd'
    PROVE  EventsFit'
<1> DEFINE n == Len(events)
           E == PollEvents
<1>1. events \in Seq(E)
  BY DEF EventsFit
<1> HIDE DEF E
<1>2. /\ n \in Nat \ {0} /\ DOMAIN events = 1 .. n /\ DOMAIN events' = 1 .. n - 1
      /\ events' \in Seq(E)
      /\ \A j \in 1 .. n - 1 : events'[j] = events[j + 1] /\ j + 1 \in 1 .. n /\ j + 1 # 1
  BY <1>1
<1> HIDE DEF n
<1>3. \A j \in DOMAIN events', id \in DOMAIN conns' : conns'[id] = events'[j].fd =>
          id = events'[j].id /\ (events'[j].type = "error" => peer'[id] # "open")
  BY <1>2, EventsFitParts
<1>4. \A j \in DOMAIN events' : events'[j].fd # Listener
  BY <1>2 DEF EventsFit
<1>5. QED
  BY <1>2, <1>3, <1>4, EventsFitNext DEF E

\* The events stay: a connection that goes takes its descriptor out of their
\* way, and one that comes gets a descriptor none of them is of.
LEMMA EventsStay ==
    ASSUME EventsFit, UNCHANGED events,
           \A id \in DOMAIN conns' : \/ id \in DOMAIN conns /\ conns'[id] = conns[id]
                                     \/ \A j \in DOMAIN events : events[j].fd # conns'[id],
           \A id \in DOMAIN conns \cap DOMAIN conns' : peer[id] # "open" => peer'[id] # "open",
           \/ ctx # "events"
           \/ ctx' = ctx /\ conns' = conns /\ accepted' = accepted /\ (accepted < knocked => accepted' < knocked'),
           ctx' = "insert" => ctx = "insert" /\ conns' = conns
    PROVE  EventsFit'
<1>1. events' \in Seq(PollEvents)
  BY DEF EventsFit
<1>2. \A j \in DOMAIN events', id \in DOMAIN conns' : conns'[id] = events'[j].fd =>
          id = events'[j].id /\ (events'[j].type = "error" => peer'[id] # "open")
  BY EventsFitParts
<1>3. \A j \in DOMAIN events' : events'[j].fd = Listener =>
          /\ j = 1 /\ events'[j].type = "read" /\ ctx' = "events" /\ accepted' < knocked'
          /\ \A k \in DOMAIN events' : events'[k].fd \in Range(conns') \cup {Listener}
  BY DEF EventsFit
<1>4. ctx' = "insert" => \A j \in DOMAIN events' : events'[j].fd # LowestFreeFd'
  BY DEF EventsFit, LowestFreeFd
<1>5. QED
  BY <1>1, <1>2, <1>3, <1>4, EventsFitNext

\* What a round finds is of the connections it is found for, and the listener
\* comes first.
LEMMA PollFinds ==
    ASSUME Before, PollKept', Poll
    PROVE  EventsFit'
<1> DEFINE fdsOf(ids) == {conns[id] : id \in ids}
           R == (IF knocked > accepted THEN {Listener} ELSE {})
                \cup fdsOf({id \in DOMAIN conns : wire[id] > 0 \/ peer[id] # "open"})
           F == fdsOf({id \in DOMAIN conns : peer[id] = "reset"})
           whose(fd) == IF Holders(fd) = {} THEN 0 ELSE Max(Holders(fd))
<1>1. ctx' = "events" /\ UNCHANGED <<conns, peer, accepted, knocked>>
  BY DEF Poll, netVars, acceptVars
<1>2. PICK writable \in SUBSET {id \in DOMAIN conns : out[id] > 0} : events' = Found(polled', writable)
  BY DEF Poll
<1> DEFINE W == fdsOf(writable) \cup F
           q == Waited(polled', R, W, F)
<1>3. events' = [j \in DOMAIN q |-> PollEvent(q[j].fd, q[j].type, whose(q[j].fd))]
  BY <1>2 DEF Found
<1>4. /\ OneEach(polled', Descriptors)
      /\ Listener \in FdsOf(polled') => polled'[1].fd = Listener
  BY DEF PollKept
<1>5. /\ \A id \in DOMAIN conns : whose(conns[id]) = id /\ id \in Conns
      /\ \A fd : whose(fd) # 0 => \E id \in DOMAIN conns : conns[id] = fd
      /\ Listener \notin Range(conns)
  <2>1. /\ \A id \in DOMAIN conns : Holders(conns[id]) = {id} /\ Max({id}) = id
        /\ Listener \notin Range(conns)
    BY OneHolder DEF Before
  <2>2. \A id \in DOMAIN conns : id \in Conns /\ {id} # {}
    BY DEF Before, ConnsKnown, PeersCounted, Conns
  <2>3. \A fd : Holders(fd) # {} => \E id \in DOMAIN conns : conns[id] = fd
    BY DEF Holders
  <2>4. QED
    BY <2>1, <2>2, <2>3
<1>6. /\ W \subseteq Range(conns) /\ F \subseteq Range(conns)
      /\ R \subseteq Range(conns) \cup {Listener}
      /\ Listener \in R => accepted < knocked
      /\ \A id \in DOMAIN conns : conns[id] \in F => peer[id] # "open"
  <2>1. \A ids : ids \subseteq DOMAIN conns => fdsOf(ids) \subseteq Range(conns)
    BY DEF Range
  <2>2. W \subseteq Range(conns) /\ F \subseteq Range(conns)
    BY <2>1
  <2>3. fdsOf({id \in DOMAIN conns : wire[id] > 0 \/ peer[id] # "open"}) \subseteq Range(conns)
    BY <2>1
  <2>4. accepted \in Nat /\ knocked \in Nat /\ Listener \notin Range(conns)
    BY <1>5 DEF Before, ConnsKnown, PeersCounted
  <2>5. R \subseteq Range(conns) \cup {Listener} /\ (Listener \in R => accepted < knocked)
    <3> HIDE DEF fdsOf
    <3>1. QED
      BY <2>3, <2>4
  <2>6. \A id \in DOMAIN conns : conns[id] \in F => peer[id] # "open"
    <3> TAKE id \in DOMAIN conns
    <3>1. HAVE conns[id] \in F
    <3>2. PICK other \in DOMAIN conns : peer[other] = "reset" /\ conns[other] = conns[id]
      BY <3>1
    <3>3. other = id
      BY <3>2 DEF Before, ConnsKnown
    <3>4. QED
      BY <3>2, <3>3
  <2>7. QED
    BY <2>2, <2>5, <2>6
<1> HIDE DEF R, W, F, whose, fdsOf
<1>7. /\ q \in Seq(Events(Descriptors)) /\ InTurn(q)
      /\ \A i, j \in DOMAIN q : i < j /\ q[j].fd = polled'[1].fd => q[i].fd = polled'[1].fd
      /\ \A a : a \in Members(q) <=>
             /\ a \in Events(Descriptors)
             /\ \E p \in DOMAIN polled' :
                    a.fd = polled'[p].fd /\ Happens(polled'[p], a.type, R, W, F)
  BY <1>4, EventsComeInTurn
<1> HIDE DEF q
<1>8. /\ DOMAIN q = 1 .. Len(q) /\ Len(q) \in Nat
      /\ \A j \in DOMAIN q : q[j] \in Events(Descriptors) /\ q[j] \in Members(q)
  BY <1>7 DEF Members
<1>9. \A j \in DOMAIN q :
          /\ q[j].fd \in Descriptors /\ q[j].type \in {"read", "write", "error"}
          /\ q[j].fd \in FdsOf(polled')
          /\ q[j].fd \in Range(conns) \cup {Listener}
          /\ q[j].type = "error" => q[j].fd \in F
          /\ q[j].fd = Listener => q[j].type = "read" /\ Listener \in R
  <2> TAKE j \in DOMAIN q
  <2>1. q[j].fd \in Descriptors /\ q[j].type \in {"read", "write", "error"}
    BY <1>8 DEF Events
  <2>2. PICK p \in DOMAIN polled' :
            q[j].fd = polled'[p].fd /\ Happens(polled'[p], q[j].type, R, W, F)
    BY <1>7, <1>8
  <2>3. \/ q[j].type = "read" /\ q[j].fd \in R
        \/ q[j].type = "write" /\ q[j].fd \in W
        \/ q[j].type = "error" /\ q[j].fd \in F
    BY <2>2 DEF Happens
  <2>4. q[j].fd \in FdsOf(polled')
    BY <2>2 DEF FdsOf
  <2>5. QED
    BY <1>5, <1>6, <2>1, <2>3, <2>4
<1>10. /\ DOMAIN events' = DOMAIN q
       /\ \A j \in DOMAIN q : events'[j] = [fd |-> q[j].fd, type |-> q[j].type, id |-> whose(q[j].fd)]
  BY <1>3 DEF PollEvent
<1>11. events' \in Seq(PollEvents)
  <2>1. \A fd : whose(fd) \in Conns \cup {0}
    BY <1>5
  <2>2. \A j \in DOMAIN q : events'[j] \in PollEvents
    BY <1>9, <1>10, <2>1 DEF PollEvents
  <2> DEFINE E == PollEvents
  <2>3. events' = [j \in 1 .. Len(q) |-> events'[j]] /\ \A j \in 1 .. Len(q) : events'[j] \in E
    BY <1>3, <1>8, <2>2
  <2> HIDE DEF E
  <2>4. events' \in Seq(E)
    BY <1>8, <2>3
  <2>5. QED
    BY <2>4 DEF E
<1>12. \A j \in DOMAIN events', id \in DOMAIN conns' : conns'[id] = events'[j].fd =>
           id = events'[j].id /\ (events'[j].type = "error" => peer'[id] # "open")
  BY <1>1, <1>5, <1>6, <1>9, <1>10
<1>13. \A j \in DOMAIN events' : events'[j].fd = Listener =>
           /\ j = 1 /\ events'[j].type = "read" /\ ctx' = "events" /\ accepted' < knocked'
           /\ \A k \in DOMAIN events' : events'[k].fd \in Range(conns') \cup {Listener}
  <2> TAKE j \in DOMAIN events'
  <2>1. HAVE events'[j].fd = Listener
  <2>2. j \in DOMAIN q /\ q[j].fd = Listener /\ q[j].type = "read" /\ Listener \in R
    BY <1>9, <1>10, <2>1
  <2>3. polled'[1].fd = Listener
    BY <1>4, <1>9, <2>2
  <2>4. j = 1
    <3> SUFFICES ASSUME j # 1 PROVE FALSE
      OBVIOUS
    <3>1. 1 \in DOMAIN q /\ 1 < j
      BY <1>8, <2>2
    <3>2. q[1].fd = Listener
      BY <1>7, <2>2, <2>3, <3>1
    <3>3. q[1].type = "read"
      BY <1>9, <3>1, <3>2
    <3>4. Rank(q[1].type) < Rank(q[j].type)
      BY <1>7, <2>2, <3>1, <3>2 DEF InTurn
    <3>5. Rank("read") = 1
      BY DEF Rank
    <3>6. QED
      BY <2>2, <3>3, <3>4, <3>5
  <2>5. \A k \in DOMAIN events' : events'[k].fd \in Range(conns') \cup {Listener}
    BY <1>1, <1>9, <1>10
  <2>6. QED
    BY <1>1, <1>6, <1>10, <2>2, <2>4, <2>5
<1>14. QED
  BY <1>1, <1>11, <1>12, <1>13, EventsFitNext

LEMMA EventsStep ==
    ASSUME Before, PollKept', EventsFit, MainFits, Next
    PROVE  EventsFit'
<1>0. PeersCounted /\ ConnsKnown /\ JobFits /\ DOMAIN conns \subseteq 1 .. accepted /\ accepted \in Nat
  BY DEF Before, ConnsKnown, PeersCounted
<1>1. CASE Poll
  BY <1>1, PollFinds
<1>2. CASE LeaveLoop \/ EventsDone \/ DrainDisconnects \/ DrainSends \/ Start
  <2>1. events' = <<>>
    BY <1>0, <1>2, OffWhenIdle
       DEF LeaveLoop, EventsDone, DrainDisconnects, DrainSends, Start, JobFits
  <2>2. QED
    BY <2>1, NoEvents
<1>3. CASE Accept
  <2>1. /\ NextEvent("read") /\ Head(events).fd = Listener /\ events' = Tail(events)
        /\ UNCHANGED <<conns, peer>>
    BY <1>3 DEF Accept, netVars
  <2>2. LowestFreeFd' = LowestFreeFd /\ LowestFreeFd \notin Range(conns) /\ LowestFreeFd # Listener
    <3>1. LowestFreeFd \in Fds /\ LowestFreeFd \notin Range(conns)
      BY <1>0, <2>1, ListenerEvent, FdIsFree
    <3>2. LowestFreeFd' = LowestFreeFd
      BY <2>1 DEF LowestFreeFd
    <3>3. Listener \notin Fds
      BY DEF Listener, Fds
    <3>4. QED
      BY <3>1, <3>2, <3>3
  <2>3. events # <<>> /\ events[1].fd = Listener /\ 1 \in DOMAIN events
        /\ \A j \in DOMAIN events' : \E k \in DOMAIN events : events'[j] = events[k]
    <3> DEFINE E == PollEvents
    <3>1. events \in Seq(E) /\ events # <<>>
      BY <2>1 DEF EventsFit, NextEvent
    <3> HIDE DEF E
    <3> DEFINE n == Len(events)
    <3>2. /\ n \in Nat \ {0} /\ DOMAIN events = 1 .. n /\ DOMAIN Tail(events) = 1 .. n - 1
          /\ \A j \in 1 .. n - 1 : Tail(events)[j] = events[j + 1] /\ j + 1 \in 1 .. n
          /\ Head(events) = events[1]
      BY <3>1
    <3> HIDE DEF n
    <3>3. 1 \in DOMAIN events
      BY <3>2
    <3>4. \A j \in DOMAIN events' : j + 1 \in DOMAIN events /\ events'[j] = events[j + 1]
      BY <2>1, <3>2
    <3>5. QED
      BY <2>1, <3>1, <3>2, <3>3, <3>4
  <2>4. \A k \in DOMAIN events : events[k].fd \in Range(conns) \cup {Listener}
    BY <2>3 DEF EventsFit
  <2>5. \A j \in DOMAIN events' : events'[j].fd # LowestFreeFd'
    BY <2>2, <2>3, <2>4
  <2>6. QED
    BY <2>1, <2>3, <2>5, EventTaken
<1>4. CASE AcceptFails \/ Refuse \/ SkipEvent
  <2>1. events # <<>> /\ events' = Tail(events) /\ conns' = conns /\ ctx' # "insert"
    BY <1>4 DEF AcceptFails, Refuse, SkipEvent, NextEvent
  <2>2. \A id \in DOMAIN conns : peer'[id] = peer[id]
    <3>1. CASE AcceptFails \/ SkipEvent
      BY <3>1 DEF AcceptFails, SkipEvent, netVars
    <3>2. CASE Refuse
      <4>1. peer' = [peer EXCEPT ![accepted + 1] = "none"]
        BY <3>2 DEF Refuse, Forgotten
      <4>2. \A id \in DOMAIN conns : id # accepted + 1 /\ id \in Conns
        BY <1>0 DEF ConnsKnown, PeersCounted, Conns
      <4>3. peer \in [Conns -> {"none", "open", "closed", "reset"}]
        BY <1>0 DEF PeersCounted
      <4>4. QED
        BY <4>1, <4>2, <4>3
    <3>3. QED
      BY <1>4, <3>1, <3>2
  <2>3. QED
    BY <2>1, <2>2, EventTaken
<1>5. ASSUME NEW id \in DOMAIN conns, ReadData(id) \/ ReadEnd(id) \/ ReadFails(id) \/ Flush(id) \/ CloseOnError(id)
      PROVE  EventsFit'
  <2>1. events # <<>> /\ events' = Tail(events) /\ conns' = conns /\ peer' = peer /\ ctx' # "insert"
    BY <1>5 DEF ReadData, ReadEnd, ReadFails, Flush, CloseOnError, ReadableEvent, NextEvent, BeginClose, netVars
  <2>2. QED
    BY <2>1, EventTaken
<1>6. CASE Insert
  <2>1. /\ ctx = "insert" /\ ctx' = "events" /\ UNCHANGED <<events, peer>>
        /\ conns' = [id \in DOMAIN conns \cup {job.id} |-> IF id = job.id THEN LowestFreeFd ELSE conns[id]]
    BY <1>6 DEF Insert, netVars
  <2>2. \A id \in DOMAIN conns' : \/ id \in DOMAIN conns /\ conns'[id] = conns[id]
                                  \/ \A j \in DOMAIN events : events[j].fd # conns'[id]
    <3>1. job.id \notin DOMAIN conns /\ \A j \in DOMAIN events : events[j].fd # LowestFreeFd
      BY <1>0, <2>1 DEF JobFits, EventsFit
    <3>2. QED
      BY <2>1, <3>1
  <2>3. QED
    BY <2>1, <2>2, EventsStay
<1>7. CASE Erase
  <2>1. /\ ctx = "erase" /\ ctx' = "announce" /\ UNCHANGED events
        /\ DOMAIN conns' = DOMAIN conns \ {job.id}
        /\ \A id \in DOMAIN conns' : conns'[id] = conns[id]
        /\ peer' = [peer EXCEPT ![job.id] = "none"]
    BY <1>7 DEF Erase, Forgotten
  <2>2. peer \in [Conns -> {"none", "open", "closed", "reset"}]
    BY <1>0 DEF PeersCounted
  <2>3. QED
    BY <2>1, <2>2, EventsStay
<1>8. CASE LockToErase \/ Announce
  <2>1. /\ ctx \in {"close", "announce"} /\ ctx' # "insert" /\ UNCHANGED <<events, peer, conns>>
    BY <1>0, <1>8 DEF LockToErase, Announce, netVars, JobFits
  <2>2. QED
    BY <2>1, EventsStay
<1>9. CASE Network
  <2>1. UNCHANGED <<ctx, events, conns, accepted>>
    BY <1>9 DEF Network, Knock, PeerSends, PeerEnds, ctxVars, acceptVars
  <2>2. /\ \A id \in DOMAIN conns : peer[id] # "open" => peer'[id] # "open"
        /\ accepted < knocked => accepted < knocked'
    <3>1. CASE Knock
      <4>1. knocked' = knocked + 1 /\ peer' = [peer EXCEPT ![knocked + 1] = "open"]
        BY <3>1 DEF Knock
      <4>2. \A id \in DOMAIN conns : id # knocked + 1
        BY <1>0 DEF ConnsKnown, PeersCounted
      <4>3. knocked \in Nat /\ accepted \in Nat /\ peer \in [Conns -> {"none", "open", "closed", "reset"}]
            /\ DOMAIN conns \subseteq Conns
        BY <1>0 DEF ConnsKnown, PeersCounted, Conns
      <4>4. QED
        BY <4>1, <4>2, <4>3
    <3>2. ASSUME NEW c \in Conns, PeerSends(c) PROVE UNCHANGED <<peer, knocked>>
      BY <3>2 DEF PeerSends
    <3>3. ASSUME NEW c \in Conns, NEW how \in Endings, PeerEnds(c, how)
          PROVE  knocked' = knocked /\ \A id \in DOMAIN conns : peer[id] # "open" => peer'[id] # "open"
      <4>1. peer' = [peer EXCEPT ![c] = how] /\ how # "open" /\ knocked' = knocked
        BY <3>3 DEF PeerEnds
      <4>2. peer \in [Conns -> {"none", "open", "closed", "reset"}]
        BY <1>0 DEF PeersCounted
      <4>3. QED
        BY <4>1, <4>2
    <3>4. QED
      BY <1>9, <3>1, <3>2, <3>3 DEF Network
  <2>3. QED
    BY <2>1, <2>2, EventsStay
<1>10. CASE MainSteps
  <2>1. UNCHANGED <<ctx, events, conns, accepted, peer, knocked>>
    BY <1>10, MainKeeps DEF ctxVars, acceptVars, netVars
  <2>2. QED
    BY <2>1, EventsStay
<1>11. QED
  BY <1>1, <1>2, <1>3, <1>4, <1>5, <1>6, <1>7, <1>8, <1>9, <1>10, NextSteps DEF ContextSteps

-----------------------------------------------------------------------------
(* Why connections are closed. *)

\* A line that is down stays down.
LEMMA DownStays ==
    ASSUME Before, EventsFit, MainFits, ToldInTurn, Next, NEW id \in Conns, Line(id) = "down"
    PROVE  Line(id)' = "down"
<1>1. CASE UNCHANGED Lifeline
  <2>1. Lifeline'[id] = Line(id)' /\ Lifeline[id] = Line(id)
    BY DEF Lifeline
  <2>2. QED
    BY <1>1, <2>1
<1>2. ASSUME NEW c \in Conns, Promise!Up(c) \/ Promise!Read(c) \/ Promise!Down(c)
      PROVE  Line(id)' = "down"
  <2>1. /\ [d \in Conns |-> Line(d)][c] = Line(c) /\ [d \in Conns |-> Line(d)][id] = Line(id)
        /\ [d \in Conns |-> Line(d)]'[id] = Line(id)'
    OBVIOUS
  <2>2. \/ Line(c) = "none" /\ [d \in Conns |-> Line(d)]' = [[d \in Conns |-> Line(d)] EXCEPT ![c] = "up"]
        \/ UNCHANGED [d \in Conns |-> Line(d)]
        \/ Line(c) = "up" /\ [d \in Conns |-> Line(d)]' = [[d \in Conns |-> Line(d)] EXCEPT ![c] = "down"]
    BY <1>2, <2>1 DEF Promise!Up, Promise!Read, Promise!Down
  <2>3. c # id \/ UNCHANGED [d \in Conns |-> Line(d)]
    BY <2>2
  <2>4. QED
    BY <2>1, <2>2, <2>3
<1>3. ASSUME NEW c \in Conns, NEW k \in Promise!Kinds, Promise!Tell(k, c)
      PROVE  UNCHANGED Lifeline
  BY <1>3 DEF Promise!Tell, Lifeline
<1>4. QED
  BY <1>1, <1>2, <1>3, StepTold

\* The connection whose end is told next is down.
LEMMA EndIsDown ==
    ASSUME Before, ToldInTurn, OnDisconnection
    PROVE  Head(tcpEvents).id \in Conns /\ Line(Head(tcpEvents).id) = "down"
<1>1. NextTcpEvent("disconnection")
  BY DEF OnDisconnection
<1>2. PICK c \in Conns : /\ c = Head(tcpEvents).id /\ 1 \in DOMAIN tcpEvents
                         /\ tcpEvents[1] = Promise!Notice("disconnection", c)
  BY <1>1, FirstTold
<1>3. [d \in Conns |-> Line(d)][c] = "down"
  BY <1>2 DEF ToldInTurn, Promise!Ordered, Promise!Notice
<1>4. QED
  BY <1>2, <1>3

\* What is asked for is asked for until the connection is down.
LEMMA AskedStays ==
    ASSUME Before, MainFits, ToldInTurn, Next, NEW id \in asked
    PROVE  id \in asked' \/ (OnDisconnection /\ Line(id) = "down")
<1>1. CASE OnDisconnection
  BY <1>1, EndIsDown DEF OnDisconnection
<1>2. ASSUME NEW c \in Conns, AskDisconnect(c) PROVE id \in asked'
  BY <1>2 DEF AskDisconnect
<1>3. ASSUME \/ Network \/ ContextSteps \/ Start
             \/ OnConnection \/ FindConnection \/ EnterConnection \/ Peek \/ OnPacket \/ Consume
             \/ (\E c \in Conns : SendTcp(c))
             \/ HostTcp \/ StopContext \/ Joined
      PROVE  UNCHANGED asked
  <2>1. CASE Network
    BY <2>1 DEF Network, Knock, PeerSends, PeerEnds, mainVars
  <2>2. CASE ContextSteps
    BY <2>2 DEF ContextSteps, Poll, LeaveLoop, Accept, AcceptFails, Refuse, Insert, SkipEvent,
                ReadData, ReadEnd, ReadFails, Flush, CloseOnError, EventsDone, DrainDisconnects,
                DrainSends, LockToErase, Erase, Announce, mainVars
  <2>3. CASE Start \/ HostTcp \/ StopContext \/ Joined
    BY <2>3 DEF Start, HostTcp, StopContext, Joined
  <2>4. CASE OnConnection \/ FindConnection \/ EnterConnection \/ Peek \/ OnPacket \/ Consume
             \/ (\E c \in Conns : SendTcp(c))
    BY <2>4 DEF OnConnection, FindConnection, EnterConnection, Peek, OnPacket, Consume, SendTcp
  <2>5. QED
    BY <1>3, <2>1, <2>2, <2>3, <2>4
<1>4. QED
  BY <1>1, <1>2, <1>3, NextSteps DEF MainSteps, HandleEvents

LEMMA AskedOrDown ==
    ASSUME Before, EventsFit, MainFits, ToldInTurn, Next, NEW id \in Conns,
           id \in asked \/ Line(id) = "down"
    PROVE  id \in asked' \/ Line(id)' = "down"
BY DownStays, AskedStays

\* What waits to be disconnected is asked for, or down.
LEMMA DisconnectsStep ==
    ASSUME Before, EventsFit, MainFits, ToldInTurn, DropsHaveReasons, Next
    PROVE  (\A j \in DOMAIN disconnects : disconnects[j] \in asked \/ Line(disconnects[j]) = "down")'
<1> DEFINE S == Conns
           n == Len(disconnects)
<1>1. disconnects \in Seq(S)
  BY DEF MainFits
<1>2. \A j \in DOMAIN disconnects : /\ disconnects[j] \in S
                                    /\ disconnects[j] \in asked \/ Line(disconnects[j]) = "down"
  BY <1>1 DEF DropsHaveReasons
<1>3. \A j \in DOMAIN disconnects' : \/ \E k \in DOMAIN disconnects : disconnects'[j] = disconnects[k]
                                     \/ disconnects'[j] \in asked'
  <2> HIDE DEF S
  <2>1. n \in Nat /\ DOMAIN disconnects = 1 .. n
    BY <1>1
  <2>2. CASE UNCHANGED disconnects
    BY <2>2
  <2>3. CASE disconnects # <<>> /\ disconnects' = Tail(disconnects)
    <3>1. DOMAIN disconnects' = 1 .. n - 1 /\ \A j \in 1 .. n - 1 : disconnects'[j] = disconnects[j + 1]
      BY <1>1, <2>3
    <3>2. \A j \in 1 .. n - 1 : j + 1 \in 1 .. n
      BY <2>1
    <3>3. QED
      BY <2>1, <3>1, <3>2
  <2>4. ASSUME NEW id \in S, AskDisconnect(id)
        PROVE  \A j \in DOMAIN disconnects' : \/ \E k \in DOMAIN disconnects : disconnects'[j] = disconnects[k]
                                              \/ disconnects'[j] \in asked'
    <3>1. disconnects' = Append(disconnects, id) /\ id \in asked'
      BY <2>4 DEF AskDisconnect
    <3>2. id \in S
      OBVIOUS
    <3>3. DOMAIN disconnects' = 1 .. n + 1 /\ disconnects'[n + 1] = id
          /\ \A j \in 1 .. n : disconnects'[j] = disconnects[j]
      BY <1>1, <3>1, <3>2
    <3>4. \A j \in 1 .. n + 1 : j \in 1 .. n \/ j = n + 1
      BY <2>1
    <3>5. QED
      BY <2>1, <3>1, <3>3, <3>4
  <2>5. CASE Network \/ Start
    BY <2>2, <2>5 DEF Network, Knock, PeerSends, PeerEnds, Start, sharedVars
  <2>6. CASE ContextSteps
    <3>1. UNCHANGED disconnects \/ (disconnects # <<>> /\ disconnects' = Tail(disconnects))
      BY <2>6 DEF ContextSteps, Poll, LeaveLoop, Accept, AcceptFails, Refuse, Insert, SkipEvent,
                  ReadData, ReadEnd, ReadFails, Flush, CloseOnError, EventsDone, DrainDisconnects,
                  DrainSends, LockToErase, Erase, Announce, sharedVars
    <3>2. QED
      BY <2>2, <2>3, <3>1
  <2>7. CASE MainSteps
    <3>1. UNCHANGED disconnects \/ \E id \in S : AskDisconnect(id)
      BY <2>7 DEF MainSteps, HandleEvents, OnConnection, OnDisconnection, FindConnection,
                  EnterConnection, Peek, OnPacket, Consume, SendTcp, HostTcp, StopContext, Joined,
                  sharedVars, S
    <3>2. QED
      BY <2>2, <2>4, <3>1
  <2>8. QED
    BY <2>5, <2>6, <2>7, NextSteps
<1>4. ASSUME NEW id \in S, id \in asked \/ Line(id) = "down"
      PROVE  id \in asked' \/ Line(id)' = "down"
  BY <1>4, AskedOrDown
<1>5. \A j \in DOMAIN disconnects', id \in S :
          disconnects'[j] = id => id \in asked' \/ Line(id)' = "down"
  BY <1>2, <1>3, <1>4
<1>6. \A j \in DOMAIN disconnects' : disconnects'[j] \in S
  BY QueuesStep DEF Before
<1>7. QED
  BY <1>5, <1>6 DEF Line

\* Why a connection may be closed.
Reason(id, reader) ==
    \/ peer[id] # "open"
    \/ id \in asked
    \/ reader /\ Unread(id) > 0 /\ buffer[id].filled = Capacity

\* A close begins with a reason.
LEMMA CloseHasReason ==
    ASSUME Before, EventsFit, MainFits, DropsHaveReasons, NEW id \in DOMAIN conns, NEW reader \in BOOLEAN,
           \/ ReadEnd(id) /\ reader
           \/ Flush(id) /\ ctx' = "close"
           \/ CloseOnError(id)
           \/ DrainDisconnects /\ ctx' = "close" /\ Head(disconnects) = id
    PROVE  Reason(id, reader)'
<1>0. id \in Conns /\ There(id)
  BY DEF Before, ConnsKnown, PeersCounted, Conns, There
<1>1. CASE ReadEnd(id) /\ reader
  <2>1. UNCHANGED peer /\ buffer' = [buffer EXCEPT ![id] = Compacted(buffer[id])]
        /\ (Compacted(buffer[id]).filled = Capacity \/ peer[id] = "closed")
    BY <1>1 DEF ReadEnd, netVars
  <2>2. buffer \in [Conns -> Buffers] /\ buffer[id].pos <= buffer[id].filled
    BY <1>0 DEF MainFits, Buffers
  <2>3. CASE Compacted(buffer[id]).filled = Capacity
    <3>1. buffer[id] \in Buffers
      BY <1>0, <2>2
    <3>2. buffer[id].filled \in Nat /\ buffer[id].pos \in Nat
      BY <2>2, <3>1, CompactedFits
    <3>3. buffer[id].pos # buffer[id].filled /\ Compacted(buffer[id]) = buffer[id]
      BY <2>3 DEF Compacted, EmptyBuffer
    <3>4. buffer'[id] = buffer[id]
      BY <1>0, <2>1, <2>2, <3>3
    <3>5. Unread(id)' > 0
      BY <2>2, <3>2, <3>3, <3>4 DEF Unread
    <3>6. QED
      BY <1>1, <2>3, <3>3, <3>4, <3>5 DEF Reason
  <2>4. CASE peer[id] = "closed"
    BY <2>1, <2>4 DEF Reason
  <2>5. QED
    BY <2>1, <2>3, <2>4
<1>2. CASE Flush(id) /\ ctx' = "close"
  <2>1. UNCHANGED peer /\ ctx = "events"
    BY <1>2 DEF Flush, netVars, NextEvent
  <2>2. peer[id] # "open"
    BY <1>2, <2>1 DEF Flush
  <2>3. QED
    BY <2>1, <2>2 DEF Reason
<1>3. CASE CloseOnError(id)
  <2> DEFINE E == PollEvents
  <2>1. /\ UNCHANGED peer /\ events # <<>> /\ Head(events).type = "error" /\ conns[id] = Head(events).fd
    BY <1>3 DEF CloseOnError, netVars, NextEvent, Holders
  <2>2. events \in Seq(E)
    BY DEF EventsFit
  <2> HIDE DEF E
  <2>3. 1 \in DOMAIN events /\ Head(events) = events[1]
    BY <2>1, <2>2
  <2>4. peer[id] # "open"
    BY <2>1, <2>3, EventsFitParts
  <2>5. QED
    BY <2>1, <2>4 DEF Reason
<1>4. CASE DrainDisconnects /\ ctx' = "close" /\ Head(disconnects) = id
  <2> DEFINE S == Conns
  <2>1. ctx = "drain" /\ UNCHANGED asked
    BY <1>4 DEF DrainDisconnects, mainVars
  <2>2. disconnects # <<>> /\ disconnects \in Seq(S)
    BY <1>4 DEF DrainDisconnects, MainFits
  <2> HIDE DEF S
  <2>3. 1 \in DOMAIN disconnects /\ disconnects[1] = id
    BY <1>4, <2>2
  <2>4. id \in asked \/ Line(id) = "down"
    BY <2>3 DEF DropsHaveReasons
  <2>5. Line(id) # "down"
    BY <1>0, LineIs DEF Before
  <2>6. QED
    BY <2>1, <2>4, <2>5 DEF Reason
<1>5. QED
  BY <1>1, <1>2, <1>3, <1>4

\* It keeps its reason until it is over: the buffer is not touched while the
\* context thread holds its mutex.
LEMMA ReasonStays ==
    ASSUME Before, MainFits, ToldInTurn, Next, ctx \in {"close", "erase"}, ctx' \in {"close", "erase"},
           Reason(job.id, job.reader)
    PROVE  job' = job /\ Reason(job.id, job.reader)'
<1>0. PICK id, reader : id = job.id /\ reader = job.reader
  OBVIOUS
<1>1. id \in DOMAIN conns /\ id \in Conns /\ There(id) /\ id \in Nat /\ id <= knocked /\ knocked \in Nat
  <2>1. id \in DOMAIN conns
    BY <1>0 DEF Before, JobFits
  <2>2. id \in 1 .. accepted /\ accepted \in 0 .. knocked /\ knocked \in 0 .. MaxConns
    BY <2>1 DEF Before, ConnsKnown, PeersCounted
  <2>3. QED
    BY <2>1, <2>2 DEF Conns, There
<1>2. Line(id) # "down"
  BY <1>1, LineIs DEF Before
<1>3. id \in asked => id \in asked'
  BY <1>2, AskedStays
<1>4. Network \/ LockToErase \/ MainSteps
  <2>1. ASSUME ContextSteps PROVE LockToErase
    BY <2>1 DEF ContextSteps, Poll, LeaveLoop, Accept, AcceptFails, Refuse, Insert, SkipEvent,
                ReadData, ReadEnd, ReadFails, Flush, CloseOnError, ReadableEvent, NextEvent, EventsDone,
                DrainDisconnects, DrainSends, LockToErase, Erase, Announce
  <2>2. ~Start
    BY OffWhenIdle DEF Start, Before
  <2>3. QED
    BY <2>1, <2>2, NextSteps
<1>5. UNCHANGED job
  BY <1>4, MainKeeps DEF Network, Knock, PeerSends, PeerEnds, LockToErase, ctxVars
<1>6. peer[id] # "open" => peer'[id] # "open"
  <2>1. peer \in [Conns -> {"none", "open", "closed", "reset"}]
    BY DEF Before, PeersCounted
  <2>2. CASE Knock
    <3>1. peer' = [peer EXCEPT ![knocked + 1] = "open"] /\ id # knocked + 1
      BY <1>1, <2>2 DEF Knock
    <3>2. QED
      BY <1>1, <2>1, <3>1
  <2>3. ASSUME NEW c \in Conns, NEW how \in Endings, PeerEnds(c, how)
        PROVE  peer[id] # "open" => peer'[id] # "open"
    <3>1. peer' = [peer EXCEPT ![c] = how] /\ how # "open"
      BY <2>3 DEF PeerEnds
    <3>2. QED
      BY <1>1, <2>1, <3>1
  <2>4. ASSUME (\E c \in Conns : PeerSends(c)) \/ LockToErase \/ MainSteps
        PROVE  UNCHANGED peer
    BY <2>4, MainKeeps DEF PeerSends, LockToErase, netVars
  <2>5. QED
    BY <1>4, <2>2, <2>3, <2>4 DEF Network
<1>7. reader => buffer'[id] = buffer[id]
  <2>1. CASE Consume
    <3>1. ~ReaderHeld(reading)
      BY <2>1 DEF Consume
    <3>2. reader => reading # id
      BY <1>0, <3>1 DEF ReaderHeld
    <3>3. PICK b : buffer' = [buffer EXCEPT ![reading] = b]
      BY <2>1 DEF Consume
    <3>4. buffer \in [Conns -> [pos : 0 .. Capacity, filled : 0 .. Capacity]]
      BY DEF MainFits
    <3>5. QED
      BY <1>1, <3>2, <3>3, <3>4
  <2>2. ASSUME Network \/ LockToErase PROVE UNCHANGED buffer
    BY <2>2 DEF Network, Knock, PeerSends, PeerEnds, LockToErase, sharedVars
  <2>3. ASSUME MainSteps PROVE Consume \/ UNCHANGED buffer
    BY <2>3 DEF MainSteps, HandleEvents, OnConnection, OnDisconnection, FindConnection,
                EnterConnection, Peek, OnPacket, AskDisconnect, SendTcp, HostTcp, StopContext, Joined,
                sharedVars
  <2>4. QED
    BY <1>4, <2>1, <2>2, <2>3
<1>8. Reason(id, reader)'
  BY <1>0, <1>3, <1>6, <1>7 DEF Reason, Unread
<1>9. QED
  BY <1>0, <1>5, <1>8 DEF Reason, Unread

LEMMA DropsStep ==
    ASSUME Before, EventsFit, MainFits, ToldInTurn, DropsHaveReasons, Next
    PROVE  DropsHaveReasons'
<1>1. ctx' \in {"close", "erase"} => Reason(job.id, job.reader)'
  <2> SUFFICES ASSUME ctx' \in {"close", "erase"} PROVE Reason(job.id, job.reader)'
    OBVIOUS
  <2>1. CASE ctx \in {"close", "erase"}
    <3>1. Reason(job.id, job.reader)
      BY <2>1 DEF DropsHaveReasons, Reason
    <3>2. QED
      BY <2>1, <3>1, ReasonStays
  <2>2. CASE ctx \notin {"close", "erase"}
    <3>1. \/ \E id \in DOMAIN conns : ReadEnd(id) \/ Flush(id) \/ CloseOnError(id)
          \/ DrainDisconnects
      <4>1. ASSUME \/ Poll \/ LeaveLoop \/ Accept \/ AcceptFails \/ Refuse \/ Insert \/ SkipEvent
                   \/ (\E id \in DOMAIN conns : ReadData(id) \/ ReadFails(id))
                   \/ EventsDone \/ DrainSends \/ LockToErase \/ Erase \/ Announce
            PROVE  FALSE
        BY <2>2, <4>1
           DEF Poll, LeaveLoop, Accept, AcceptFails, Refuse, Insert, SkipEvent, ReadData, ReadFails,
               EventsDone, DrainSends, LockToErase, Erase, Announce, Before, JobFits
      <4>2. ~Network /\ ~Start
        BY <2>2 DEF Network, Knock, PeerSends, PeerEnds, Start, ctxVars
      <4>3. ~MainSteps
        BY <2>2, MainKeeps DEF ctxVars
      <4>4. QED
        BY <4>1, <4>2, <4>3, NextSteps DEF ContextSteps
    <3>2. PICK id \in DOMAIN conns, reader \in BOOLEAN :
              /\ job'.id = id /\ job'.reader = reader
              /\ \/ ReadEnd(id) /\ reader
                 \/ Flush(id) /\ ctx' = "close"
                 \/ CloseOnError(id)
                 \/ DrainDisconnects /\ ctx' = "close" /\ Head(disconnects) = id
      <4>1. ASSUME NEW id \in DOMAIN conns, ReadEnd(id)
            PROVE  job'.id = id /\ job'.reader = TRUE
        BY <4>1 DEF ReadEnd, BeginClose
      <4>2. ASSUME NEW id \in DOMAIN conns, Flush(id)
            PROVE  job'.id = id /\ job'.reader = FALSE /\ ctx' = "close"
        BY <2>2, <4>2 DEF Flush, BeginClose
      <4>3. ASSUME NEW id \in DOMAIN conns, CloseOnError(id)
            PROVE  job'.id = id /\ job'.reader = FALSE
        BY <4>3 DEF CloseOnError, BeginClose
      <4>4. ASSUME DrainDisconnects
            PROVE  /\ ctx' = "close" /\ Head(disconnects) \in DOMAIN conns
                   /\ job'.id = Head(disconnects) /\ job'.reader = FALSE
        BY <2>2, <4>4 DEF DrainDisconnects, BeginClose
      <4>5. TRUE \in BOOLEAN /\ FALSE \in BOOLEAN
        OBVIOUS
      <4>6. QED
        BY <3>1, <4>1, <4>2, <4>3, <4>4, <4>5
    <3>3. Reason(id, reader)'
      BY <3>2, CloseHasReason
    <3>4. QED
      BY <3>2, <3>3 DEF Reason, Unread
  <2>3. QED
    BY <2>1, <2>2
<1>2. (\A j \in DOMAIN disconnects : disconnects[j] \in asked \/ Line(disconnects[j]) = "down")'
  BY DisconnectsStep
<1>3. QED
  BY <1>1, <1>2 DEF DropsHaveReasons, Reason

-----------------------------------------------------------------------------
LEMMA NextInv == ServerInv /\ [Next]_vars => ServerInv'
<1> SUFFICES ASSUME ServerInv, [Next]_vars PROVE ServerInv'
  OBVIOUS
<1>1. CASE Next
  <2>1. /\ PeersCounted /\ ConnsKnown /\ JobFits /\ PollKept /\ EventsFit
        /\ MainFits /\ ToldInTurn /\ DropsHaveReasons
    BY DEF ServerInv
  <2>2. PeersCounted' /\ ConnsKnown' /\ JobFits'
    BY <1>1, <2>1, PeersStep, ConnsStep, JobStep
  <2>3. Before
    BY <2>1, <2>2 DEF Before
  <2>4. PollKept'
    BY <1>1, <2>1, <2>3, PollStep
  <2>5. EventsFit'
    BY <1>1, <2>1, <2>3, <2>4, EventsStep
  <2>6. MainFits' /\ ToldInTurn' /\ DropsHaveReasons'
    BY <1>1, <2>1, <2>3, MainStep, ToldStep, DropsStep
  <2>7. QED
    BY <2>2, <2>4, <2>5, <2>6 DEF ServerInv
<1>2. CASE UNCHANGED vars
  <2>1. /\ UNCHANGED <<knocked, peer, wire, sent, ctx, job, accepted, refused, since, polled, events,
                       conns, out>>
        /\ UNCHANGED <<buffer, connLock, tcpEvents, disconnects, sends, running>>
        /\ UNCHANGED <<hosted, starts, main, reading, clients, asked, written, taken>>
    BY <1>2 DEF vars, netVars, ctxVars, acceptVars, sharedVars, mainVars, setupVars
  <2>2. /\ PeersCounted /\ ConnsKnown /\ JobFits /\ PollKept /\ EventsFit /\ MainFits
    BY DEF ServerInv
  <2>3. Before /\ MainFits'
    <3>1. PeersCounted'
      BY <2>1, <2>2 DEF PeersCounted
    <3>2. ConnsKnown'
      BY <2>1, <2>2 DEF ConnsKnown
    <3>3. JobFits'
      BY <2>1, <2>2 DEF JobFits
    <3>4. MainFits'
      BY <2>1, <2>2 DEF MainFits
    <3>5. QED
      BY <2>2, <3>1, <3>2, <3>3, <3>4 DEF Before
  <2>4. PollKept' /\ EventsFit'
    <3>1. Open' = Open /\ Coming' = Coming
      BY <2>1 DEF Open, Coming, LowestFreeFd
    <3>2. PollKept'
      BY <2>1, <2>2, <2>3, <3>1, PollUnmoved
    <3>3. EventsFit'
      BY <2>1, <2>2, EventsStay
    <3>4. QED
      BY <3>2, <3>3
  <2>5. UNCHANGED <<Lifeline, tcpEvents>>
    BY <2>1 DEF Lifeline, Line
  <2>6. ToldInTurn'
    BY <2>1, <2>5, PromiseSteps DEF ServerInv, ToldInTurn, ClientsFollowConnections
  <2>7. DropsHaveReasons'
    BY <2>1 DEF ServerInv, DropsHaveReasons, Unread, Line
  <2>8. QED
    BY <2>3, <2>4, <2>6, <2>7 DEF ServerInv, Before
<1>3. QED
  BY <1>1, <1>2

\* The inductive invariant: over any number of connections, starts of the
\* context, bytes and packets, and whatever calls fail, the poll, the events of
\* a round, the connection that is being closed, the queues and what the main
\* thread has fit each other.
THEOREM ServerInvariant == Spec => []ServerInv
BY InitInv, NextInv, PTL DEF Spec

\* What the variables hold: a reader never holds more than its capacity, and no
\* writer more than what it takes.
THEOREM ServerIsTyped == Spec => []TypeOK
<1>1. ServerInv => TypeOK
  <2> SUFFICES ASSUME ServerInv PROVE TypeOK
    OBVIOUS
  <2>1. /\ PeersCounted /\ ConnsKnown /\ JobFits /\ PollKept /\ EventsFit
        /\ MainFits /\ ToldInTurn
    BY DEF ServerInv
  <2>2. polled \in Seq([fd : Fds \cup {Listener}, events : SUBSET {In, Out}])
    <3>1. polled \in Seq(Entry(Descriptors))
      BY <2>1 DEF PollKept, OneEach
    <3>2. Entry(Descriptors) \subseteq [fd : Fds \cup {Listener}, events : SUBSET {In, Out}]
      BY DEF Entry, Descriptors
    <3> HIDE DEF ServerInv
    <3>3. QED
      BY <3>1, <3>2, SeqGrows
  <2>3. events \in Seq([fd : Fds \cup {Listener}, type : {"read", "write", "error"}, id : Conns \cup {0}])
    BY <2>1 DEF EventsFit, PollEvents, Descriptors
  <2>4. tcpEvents \in Seq([kind : {"connection", "read", "disconnection"}, id : Conns])
    <3>1. Promise!Kinds = {"connection", "read", "disconnection"}
      BY DEF Promise!Kinds
    <3>2. QED
      BY <2>1, <3>1 DEF ToldInTurn, Promise!Ordered
  <2>5. clients \subseteq 1 .. accepted
    <3> SUFFICES ASSUME NEW c \in clients PROVE c \in 1 .. accepted
      OBVIOUS
    <3>1. c \in Conns /\ Line(c) # "none"
      BY <2>1 DEF ToldInTurn, ClientsFollowConnections, Promise!Known, Promise!Told
    <3>2. ~Unborn(c)
      BY <2>1, <3>1, LineIs
    <3>3. QED
      BY <2>1, <3>1, <3>2 DEF Unborn, Conns, ConnsKnown, PeersCounted
  <2>6. wire \in [Conns -> 0 .. MaxBytes]
    <3>1. \A id \in Conns : sent[id] \in 0 .. MaxBytes /\ wire[id] \in Nat /\ wire[id] <= sent[id]
      BY <2>1 DEF PeersCounted
    <3>2. \A id \in Conns : wire[id] \in 0 .. MaxBytes
      BY <3>1
    <3>3. QED
      BY <2>1, <3>2 DEF PeersCounted
  <2>7. {running, hosted} \subseteq BOOLEAN
    <3>1. running \in BOOLEAN /\ hosted \in BOOLEAN
      BY <2>1 DEF JobFits, MainFits
    <3>2. QED
      BY <3>1, Zenon
  <2>8. /\ knocked \in 0 .. MaxConns
        /\ peer \in [Conns -> {"none", "open", "closed", "reset"}]
        /\ sent \in [Conns -> 0 .. MaxBytes]
        /\ ctx \in {"top", "events", "insert", "drain", "send", "close", "erase", "announce", "off"}
        /\ job \in [id : Conns \cup {0}, reader : BOOLEAN, back : {"events", "drain"}]
    BY <2>1 DEF PeersCounted, JobFits
  <2>9. /\ accepted \in 0 .. knocked /\ refused \subseteq 1 .. accepted /\ since \in 0 .. accepted
        /\ DOMAIN conns \subseteq (1 .. accepted) \ refused
        /\ conns \in [DOMAIN conns -> Fds]
        /\ out \in [Conns -> 0 .. OutCapacity]
    BY <2>1 DEF ConnsKnown
  <2>10. /\ buffer \in [Conns -> [pos : 0 .. Capacity, filled : 0 .. Capacity]]
         /\ \A id \in Conns : buffer[id].pos <= buffer[id].filled
         /\ connLock \in {"free", "context", "main"}
         /\ disconnects \in Seq(Conns) /\ sends \in Seq(Conns)
         /\ starts \in 0 .. MaxStarts
         /\ main \in {"idle", "found", "peek", "packet", "consume", "thrown", "joining"}
         /\ reading \in Conns \cup {0}
         /\ asked \subseteq Conns /\ written \in 0 .. MaxSends /\ taken \in [Conns -> Nat]
    BY <2>1 DEF MainFits
  <2>11. QED
    BY <2>2, <2>3, <2>4, <2>5, <2>6, <2>7, <2>8, <2>9, <2>10 DEF TypeOK
<1>2. QED
  BY <1>1, ServerInvariant, PTL

\* The clients of net::Server are the connections it was told of and not yet
\* told the end of.
THEOREM ClientsAlwaysFollow == Spec => []ClientsFollowConnections
<1>1. ServerInv => ClientsFollowConnections
  BY DEF ServerInv, ToldInTurn
<1>2. QED
  BY <1>1, ServerInvariant, PTL

\* The poll has the listener and the connections of this run, each once and
\* waited for data, and nothing else but what could not be set up or is older.
THEOREM PollSetAlwaysMatches == Spec => []PollSetMatchesConnections
<1>1. ServerInv => PollSetMatchesConnections
  BY DEF ServerInv, PollKept
<1>2. QED
  BY <1>1, ServerInvariant, PTL

\* An event that waits for its turn is never taken for another connection that
\* got the descriptor.
THEOREM EventsStayTheirs == Spec => []EventsKeepTheirConnection
<1>1. ServerInv => EventsKeepTheirConnection
  BY DEF ServerInv, EventsFit
<1>2. QED
  BY <1>1, ServerInvariant, PTL

\* No connection is dropped without a reason: only the context thread's erase
\* takes one out, and what began it held until then.
THEOREM DropsHaveAReason == Spec => DropsAreJustified
<1>1. ServerInv /\ [Next]_vars =>
          [\A id \in DOMAIN conns \ DOMAIN conns' :
              \/ peer[id] # "open"
              \/ id \in asked
              \/ Unread(id) > 0 /\ buffer[id].filled = Capacity]_vars
  <2> SUFFICES ASSUME ServerInv, Next, NEW id \in DOMAIN conns \ DOMAIN conns'
               PROVE  \/ peer[id] # "open"
                      \/ id \in asked
                      \/ Unread(id) > 0 /\ buffer[id].filled = Capacity
    OBVIOUS
  <2>1. Erase
    <3>1. ASSUME Network \/ Start PROVE UNCHANGED conns
      BY <3>1 DEF Network, Knock, PeerSends, PeerEnds, Start, ctxVars
    <3>2. ASSUME MainSteps PROVE UNCHANGED conns
      BY <3>2, MainKeeps DEF ctxVars
    <3>3. ASSUME ContextSteps PROVE Erase \/ DOMAIN conns \subseteq DOMAIN conns'
      BY <3>3 DEF ContextSteps, Poll, LeaveLoop, Accept, AcceptFails, Refuse, Insert, SkipEvent,
                  ReadData, ReadEnd, ReadFails, Flush, CloseOnError, EventsDone, DrainDisconnects,
                  DrainSends, LockToErase, Announce
    <3>4. QED
      BY <3>1, <3>2, <3>3, NextSteps
  <2>2. id = job.id /\ ctx = "erase"
    BY <2>1 DEF Erase
  <2>3. QED
    BY <2>2 DEF ServerInv, DropsHaveReasons
<1>2. QED
  BY <1>1, ServerInvariant, PTL DEF Spec, DropsAreJustified

\* The server keeps its promise for each connection it accepts: every step is
\* one of Notices or changes nothing it talks of, whoever ends a connection and
\* whatever the two threads do in between.
THEOREM ServerKeepsPromise == Spec => KeepsPromise
<1>1. Init => Promise!Init
  <2> SUFFICES ASSUME Init PROVE Promise!Init
    OBVIOUS
  <2>1. \A id \in Conns : Line(id) = "none"
    BY DEF Init, Conns, Line
  <2>2. QED
    BY <2>1 DEF Init, Promise!Init
<1>2. ServerInv /\ ServerInv' /\ [Next]_vars => [Promise!Next]_(Promise!vars)
  <2> SUFFICES ASSUME ServerInv, ServerInv', [Next]_vars PROVE Promise!Next \/ UNCHANGED Promise!vars
    OBVIOUS
  <2>1. Before /\ EventsFit /\ MainFits /\ ToldInTurn
    BY DEF ServerInv, Before
  <2>2. CASE Next
    <3>1. \/ UNCHANGED <<Lifeline, tcpEvents>>
          \/ \E c \in Conns : Promise!Up(c) \/ Promise!Read(c) \/ Promise!Down(c)
          \/ \E c \in Conns, k \in Promise!Kinds : Promise!Tell(k, c)
      BY <2>1, <2>2, StepTold
    <3>2. QED
      BY <3>1 DEF Lifeline, Promise!Next, Promise!vars
  <2>3. CASE UNCHANGED vars
    <3>1. UNCHANGED <<Lifeline, tcpEvents>>
      BY <2>3 DEF Lifeline, Line, vars, netVars, ctxVars, acceptVars, sharedVars
    <3>2. QED
      BY <3>1 DEF Lifeline, Promise!vars
  <2>4. QED
    BY <2>2, <2>3
<1>3. QED
  BY <1>1, <1>2, ServerInvariant, PTL DEF Spec, KeepsPromise, Promise!Spec

-----------------------------------------------------------------------------
(* Packets in read buffers. *)

\* Main is at a connection only while it looks it up or holds its mutex, what
\* it looks up is a client or over, and what is no connection has an empty
\* buffer.
ReadingFits ==
    /\ main \in {"idle", "joining"} => reading = 0
    /\ main \in {"peek", "packet", "consume"} => connLock = "main" /\ reading \in DOMAIN conns
    /\ ctx = "erase" => connLock = "context"
    /\ ctx \notin {"insert", "close", "erase", "announce"} => job.id = 0
    /\ main = "found" => reading \in clients \/ Line(reading) = "down"
    /\ \A id \in Conns \ DOMAIN conns : Unread(id) = 0

LEMMA InitReading == Init => ReadingFits
BY DEF Init, ReadingFits, NoJob, EmptyBuffer, Unread

\* What the steps of the main thread make of it.
LEMMA MainReading ==
    ASSUME Before, MainFits, ToldInTurn, ReadingFits, MainSteps
    PROVE  /\ main' \in {"idle", "joining"} => reading' = 0
           /\ main' \in {"peek", "packet", "consume"} => connLock' = "main" /\ reading' \in DOMAIN conns
           /\ ctx = "erase" => connLock' = "context"
<1>1. CASE \/ OnConnection \/ OnDisconnection \/ HostTcp \/ StopContext \/ Joined
           \/ (\E id \in Conns : AskDisconnect(id) \/ SendTcp(id))
  BY <1>1 DEF OnConnection, OnDisconnection, NextTcpEvent, HostTcp, StopContext, Joined, AskDisconnect,
              SendTcp, sharedVars, ReadingFits
<1>2. CASE FindConnection
  BY <1>2 DEF FindConnection, NextTcpEvent, ReadingFits
<1>3. CASE EnterConnection
  BY <1>3 DEF EnterConnection, ReadingFits
<1>4. CASE Peek \/ Consume
  BY <1>4 DEF Peek, Consume, PacketOrReturn, ReadingFits
<1>5. CASE OnPacket
  BY <1>5 DEF OnPacket, sharedVars, ReadingFits
<1>6. QED
  BY <1>1, <1>2, <1>3, <1>4, <1>5 DEF MainSteps, HandleEvents

\* The rest does not touch what main has.
LEMMA MainUntouched ==
    ASSUME Network \/ ContextSteps
    PROVE  UNCHANGED <<main, reading, clients>>
BY DEF Network, Knock, PeerSends, PeerEnds, ContextSteps, Poll, LeaveLoop, Accept, AcceptFails, Refuse,
       Insert, SkipEvent, ReadData, ReadEnd, ReadFails, Flush, CloseOnError, EventsDone, DrainDisconnects,
       DrainSends, LockToErase, Erase, Announce, mainVars

\* The steps that change where the connections are.
LEMMA LockStep ==
    ASSUME Before, MainFits, ToldInTurn, ReadingFits, Next
    PROVE  /\ (main \in {"idle", "joining"} => reading = 0)'
           /\ (main \in {"peek", "packet", "consume"} => connLock = "main" /\ reading \in DOMAIN conns)'
           /\ (ctx = "erase" => connLock = "context")'
<1>1. CASE MainSteps
  BY <1>1, MainReading, MainKeeps DEF ctxVars
<1>2. CASE Start
  BY <1>2 DEF Start, ReadingFits
<1>3. CASE Network
  BY <1>3 DEF Network, Knock, PeerSends, PeerEnds, ctxVars, sharedVars, mainVars, ReadingFits
<1>4. CASE ContextSteps
  <2>1. UNCHANGED <<main, reading>>
    BY <1>4, MainUntouched
  <2>2. CASE LockToErase
    BY <2>1, <2>2 DEF LockToErase, ReadingFits
  <2>3. CASE Erase
    BY <2>1, <2>3 DEF Erase, ReadingFits
  <2>4. CASE Insert
    BY <2>1, <2>4 DEF Insert, ReadingFits
  <2>5. CASE \/ Poll \/ LeaveLoop \/ Accept \/ AcceptFails \/ Refuse \/ SkipEvent
             \/ (\E id \in DOMAIN conns :
                    ReadData(id) \/ ReadEnd(id) \/ ReadFails(id) \/ Flush(id) \/ CloseOnError(id))
             \/ EventsDone \/ DrainDisconnects \/ DrainSends \/ Announce
    <3>1. UNCHANGED <<conns, connLock>>
      BY <2>5 DEF Poll, LeaveLoop, Accept, AcceptFails, Refuse, SkipEvent, ReadData, ReadEnd, ReadFails,
                  Flush, CloseOnError, EventsDone, DrainDisconnects, DrainSends, Announce, sharedVars
    <3>2. ctx' # "erase"
      BY <2>5 DEF Poll, LeaveLoop, Accept, AcceptFails, Refuse, SkipEvent, ReadData, ReadEnd, ReadFails,
                  ReadableEvent, NextEvent, Flush, CloseOnError, EventsDone, DrainDisconnects, DrainSends,
                  Announce, BeginClose, Before, JobFits
    <3>3. QED
      BY <2>1, <3>1, <3>2 DEF ReadingFits
  <2>6. QED
    BY <1>4, <2>2, <2>3, <2>4, <2>5 DEF ContextSteps
<1>5. QED
  BY <1>1, <1>2, <1>3, <1>4, NextSteps

\* A context thread that is at no connection has none.
LEMMA NoJobStep ==
    ASSUME Before, MainFits, ReadingFits, Next
    PROVE  (ctx \notin {"insert", "close", "erase", "announce"} => job.id = 0)'
<1>1. CASE MainSteps
  BY <1>1, MainKeeps DEF ctxVars, ReadingFits
<1>2. CASE Start
  BY <1>2, OffWhenIdle DEF Start, Before, ReadingFits
<1>3. CASE Network
  BY <1>3 DEF Network, Knock, PeerSends, PeerEnds, ctxVars, ReadingFits
<1>4. CASE Insert \/ Announce
  BY <1>4 DEF Insert, Announce, NoJob
<1>5. CASE Accept \/ LockToErase \/ Erase
  BY <1>5 DEF Accept, LockToErase, Erase
<1>6. CASE \/ Poll \/ LeaveLoop \/ AcceptFails \/ Refuse \/ SkipEvent
           \/ (\E id \in DOMAIN conns : ReadData(id) \/ ReadFails(id))
           \/ EventsDone \/ DrainSends
  <2>1. UNCHANGED job /\ ctx \notin {"insert", "close", "erase", "announce"}
    BY <1>6 DEF Poll, LeaveLoop, AcceptFails, Refuse, SkipEvent, ReadData, ReadFails, ReadableEvent,
                NextEvent, EventsDone, DrainSends
  <2>2. QED
    BY <2>1 DEF ReadingFits
<1>7. ASSUME NEW id \in DOMAIN conns, ReadEnd(id) \/ Flush(id) \/ CloseOnError(id)
      PROVE  ctx' = "close" \/ (UNCHANGED job /\ ctx = "events")
  BY <1>7 DEF ReadEnd, ReadableEvent, NextEvent, Flush, CloseOnError, BeginClose
<1>8. ASSUME DrainDisconnects
      PROVE  ctx' = "close" \/ (UNCHANGED job /\ ctx = "drain")
  BY <1>8 DEF DrainDisconnects, BeginClose
<1>9. QED
  BY <1>1, <1>2, <1>3, <1>4, <1>5, <1>6, <1>7, <1>8, NextSteps DEF ContextSteps, ReadingFits

\* What main looks up is a client, or is over: it was told of it before.
LEMMA FoundStep ==
    ASSUME Before, EventsFit, MainFits, ToldInTurn, ReadingFits, Next
    PROVE  (main = "found" => reading \in clients \/ Line(reading) = "down")'
<1> SUFFICES ASSUME main' = "found"
             PROVE  reading' \in clients' \/ Line(reading)' = "down"
  OBVIOUS
<1>1. CASE FindConnection /\ main = "idle"
  <2>1. NextTcpEvent("read") /\ UNCHANGED clients /\ reading' = Head(tcpEvents).id
    BY <1>1 DEF FindConnection
  <2>2. PICK c \in Conns : /\ c = Head(tcpEvents).id /\ 1 \in DOMAIN tcpEvents
                           /\ tcpEvents[1] = Promise!Notice("read", c)
    BY <2>1, FirstTold
  <2>3. [d \in Conns |-> Line(d)][c] = Line(c)
    OBVIOUS
  <2>4. Line(c) # "none"
    BY <2>2, <2>3 DEF ToldInTurn, Promise!Ordered, Promise!Notice
  <2>5. Line(c) \in {"none", "up", "down"}
    BY LineIs DEF Before
  <2>6. CASE Line(c) = "down"
    BY <1>1, <2>1, <2>2, <2>6, DownStays
  <2>7. CASE Line(c) = "up"
    <3>1. \A i \in DOMAIN tcpEvents : tcpEvents[i] # Promise!Notice("connection", c)
      <4> SUFFICES ASSUME NEW i \in DOMAIN tcpEvents, tcpEvents[i] = Promise!Notice("connection", c)
                   PROVE  FALSE
        OBVIOUS
      <4>1. i \in Nat /\ i >= 1
        <5>1. PICK E : tcpEvents \in Seq(E)
          BY DEF ToldInTurn, Promise!Ordered
        <5>2. QED
          BY <5>1
      <4>2. i # 1
        BY <2>2 DEF Promise!Notice
      <4>3. 1 < i
        BY <4>1, <4>2
      <4>4. QED
        BY <2>2, <4>3 DEF ToldInTurn, Promise!Ordered, Promise!Notice
    <3>2. c \in Promise!Known
      BY <2>3, <2>7, <3>1 DEF Promise!Known, Promise!Told, Promise!Over
    <3>3. QED
      BY <2>1, <2>2, <3>2 DEF ToldInTurn, ClientsFollowConnections
  <2>8. QED
    BY <2>4, <2>5, <2>6, <2>7
<1>2. ASSUME ~FindConnection
      PROVE  /\ main = "found" /\ reading' = reading /\ reading \in Conns
             /\ \A c \in clients : c \in clients'
  <2>1. CASE Network \/ ContextSteps
    BY <2>1, MainUntouched DEF MainFits
  <2>2. CASE Start
    BY <2>2 DEF Start
  <2>3. CASE MainSteps
    BY <1>2, <2>3 DEF MainSteps, HandleEvents, OnConnection, OnDisconnection, NextTcpEvent, EnterConnection,
                      Peek, OnPacket, Consume, PacketOrReturn, AskDisconnect, SendTcp, HostTcp, StopContext,
                      Joined, MainFits
  <2>4. QED
    BY <2>1, <2>2, <2>3, NextSteps
<1>3. CASE ~FindConnection
  <2>1. Line(reading) = "down" => Line(reading)' = "down"
    <3>1. PICK c \in Conns : c = reading
      BY <1>2, <1>3
    <3>2. Line(c) = "down" => Line(c)' = "down"
      BY DownStays
    <3>3. QED
      BY <1>2, <1>3, <3>1, <3>2
  <2>2. QED
    BY <1>2, <1>3, <2>1 DEF ReadingFits
<1>4. QED
  BY <1>1, <1>3 DEF FindConnection, NextTcpEvent

\* The connections are known by their uuids.
LEMMA ConnIds ==
    ASSUME PeersCounted, ConnsKnown
    PROVE  DOMAIN conns \subseteq Conns
<1>1. knocked \in Nat /\ knocked <= MaxConns /\ MaxConns \in Nat
  BY DEF PeersCounted
<1>2. accepted \in Nat /\ accepted <= knocked
  BY <1>1 DEF ConnsKnown
<1>3. 1 .. accepted \subseteq Conns
  BY <1>1, <1>2 DEF Conns
<1>4. DOMAIN conns \subseteq 1 .. accepted
  BY DEF ConnsKnown
<1>5. QED
  BY <1>3, <1>4

LEMMA ConnIdsNext ==
    ASSUME PeersCounted', ConnsKnown'
    PROVE  (DOMAIN conns)' \subseteq Conns
<1>1. knocked' \in Nat /\ knocked' <= MaxConns /\ MaxConns \in Nat
  BY DEF PeersCounted
<1>2. accepted' \in Nat /\ accepted' <= knocked'
  BY <1>1 DEF ConnsKnown
<1>3. 1 .. accepted' \subseteq Conns
  BY <1>1, <1>2 DEF Conns
<1>4. DOMAIN conns' \subseteq 1 .. accepted'
  BY DEF ConnsKnown
<1>5. QED
  BY <1>3, <1>4

\* One buffer at a time changes: which, and how the unread bytes of the others
\* are the same.
LEMMA BufferMoves ==
    ASSUME Before, MainFits, ReadingFits, Next
    PROVE  \/ UNCHANGED buffer
           \/ \E id \in DOMAIN conns :
                  /\ \A c \in Conns \ {id} : Unread(c)' = Unread(c)
                  /\ \/ ReadData(id)
                     \/ ReadEnd(id)
                     \/ ReadFails(id) /\ Unread(id)' = Unread(id)
                     \/ Erase /\ id = job.id /\ Unread(id)' = 0
                     \/ Consume /\ id = reading
<1>0. /\ buffer \in [Conns -> Buffers] /\ \A id \in Conns : buffer[id].pos <= buffer[id].filled
      /\ \A id \in DOMAIN conns : id \in Conns
  <2>1. buffer \in [Conns -> Buffers] /\ \A id \in Conns : buffer[id].pos <= buffer[id].filled
    BY DEF MainFits, Buffers
  <2>2. QED
    BY <2>1, ConnIds DEF Before
<1> DEFINE Only1(id) == \A c \in Conns \ {id} : Unread(c)' = Unread(c)
<1>1. ASSUME NEW id \in Conns, NEW b, buffer' = [buffer EXCEPT ![id] = b]
      PROVE  Only1(id) /\ Unread(id)' = b.filled - b.pos
  BY <1>0, <1>1 DEF Unread
<1>2. ASSUME NEW id \in DOMAIN conns, ReadData(id) PROVE Only1(id)
  BY <1>0, <1>1, <1>2 DEF ReadData
<1>3. ASSUME NEW id \in DOMAIN conns, ReadEnd(id) PROVE Only1(id)
  BY <1>0, <1>1, <1>3 DEF ReadEnd
<1>4. ASSUME NEW id \in DOMAIN conns, ReadFails(id) PROVE Only1(id) /\ Unread(id)' = Unread(id)
  <2> DEFINE b == Compacted(buffer[id])
  <2>1. buffer' = [buffer EXCEPT ![id] = b]
    BY <1>4 DEF ReadFails
  <2>2. b.filled - b.pos = Unread(id)
    <3>1. b = buffer[id] \/ (b = EmptyBuffer /\ buffer[id].pos = buffer[id].filled)
      BY <1>0, CompactedFits
    <3>2. buffer[id].pos \in Nat /\ buffer[id].filled \in Nat
      BY <1>0, CompactedFits
    <3> HIDE DEF b
    <3>3. QED
      BY <3>1, <3>2 DEF EmptyBuffer, Unread
  <2> HIDE DEF b
  <2>3. QED
    BY <1>0, <1>1, <2>1, <2>2
<1>5. ASSUME Erase PROVE job.id \in DOMAIN conns /\ Only1(job.id) /\ Unread(job.id)' = 0
  <2>1. job.id \in DOMAIN conns
    BY <1>5 DEF Erase, Before, JobFits
  <2>2. PICK id \in DOMAIN conns : id = job.id
    BY <2>1
  <2>3. buffer' = [buffer EXCEPT ![id] = EmptyBuffer]
    BY <1>5, <2>2 DEF Erase
  <2>4. Only1(id) /\ Unread(id)' = EmptyBuffer.filled - EmptyBuffer.pos
    BY <1>0, <1>1, <2>3
  <2>5. Unread(id)' = 0
    BY <2>4 DEF EmptyBuffer
  <2>6. job'.id = id
    BY <1>5, <2>2 DEF Erase
  <2>7. QED
    BY <2>2, <2>4, <2>5, <2>6 DEF Unread
<1>6. ASSUME Consume PROVE reading \in DOMAIN conns /\ Only1(reading)
  <2>1. PICK id \in DOMAIN conns : id = reading
    BY <1>6 DEF Consume, ReadingFits
  <2>2. PICK b : buffer' = [buffer EXCEPT ![id] = b]
    BY <1>6, <2>1 DEF Consume
  <2>3. Only1(id)
    BY <1>0, <1>1, <2>2
  <2>4. QED
    BY <2>1, <2>3
<1>7. \/ UNCHANGED buffer
      \/ (\E id \in DOMAIN conns : ReadData(id) \/ ReadEnd(id) \/ ReadFails(id))
      \/ Erase \/ Consume
  <2>1. ASSUME \/ Network
               \/ Poll \/ LeaveLoop \/ Accept \/ AcceptFails \/ Refuse \/ Insert \/ SkipEvent
               \/ (\E id \in DOMAIN conns : Flush(id) \/ CloseOnError(id))
               \/ EventsDone \/ DrainDisconnects \/ DrainSends \/ LockToErase \/ Announce
               \/ Start
        PROVE  UNCHANGED buffer
    BY <2>1 DEF Network, Knock, PeerSends, PeerEnds, Poll, LeaveLoop, Accept, AcceptFails, Refuse,
                Insert, SkipEvent, Flush, CloseOnError, EventsDone, DrainDisconnects, DrainSends,
                LockToErase, Announce, Start, sharedVars
  <2>2. ASSUME MainSteps PROVE Consume \/ UNCHANGED buffer
    BY <2>2 DEF MainSteps, HandleEvents, OnConnection, OnDisconnection, FindConnection,
                EnterConnection, Peek, OnPacket, AskDisconnect, SendTcp, HostTcp, StopContext, Joined,
                sharedVars
  <2>3. QED
    BY <2>1, <2>2, NextSteps DEF ContextSteps
<1> HIDE DEF Only1
<1>8. CASE UNCHANGED buffer
  BY <1>8
<1>9. CASE Erase
  <2>1. PICK id \in DOMAIN conns : id = job.id
    BY <1>5, <1>9
  <2>2. Only1(id) /\ Unread(id)' = 0
    <3>1. Only1(job.id) /\ Unread(job.id)' = 0 /\ job' = job
      BY <1>5, <1>9 DEF Erase
    <3>2. job'.id = id
      BY <2>1, <3>1
    <3>3. Only1(id)
      BY <2>1, <3>1 DEF Only1
    <3>4. Unread(id)' = 0
      BY <3>1, <3>2 DEF Unread
    <3>5. QED
      BY <3>3, <3>4
  <2>3. QED
    BY <1>9, <2>1, <2>2 DEF Only1
<1>10. CASE Consume
  BY <1>6, <1>10 DEF Only1
<1>11. ASSUME NEW id \in DOMAIN conns, ReadData(id) \/ ReadEnd(id) \/ ReadFails(id)
       PROVE  /\ \A c \in Conns \ {id} : Unread(c)' = Unread(c)
              /\ ReadFails(id) => Unread(id)' = Unread(id)
  BY <1>2, <1>3, <1>4, <1>11 DEF Only1
<1>12. QED
  BY <1>7, <1>8, <1>9, <1>10, <1>11

\* How the connections change: an insertion, or an erasure under the mutex.
LEMMA ConnsMove ==
    ASSUME Next
    PROVE  \/ UNCHANGED conns
           \/ Insert /\ DOMAIN conns' = DOMAIN conns \cup {job.id}
           \/ Erase /\ DOMAIN conns' = DOMAIN conns \ {job.id}
<1>1. ASSUME Network \/ Start PROVE UNCHANGED conns
  BY <1>1 DEF Network, Knock, PeerSends, PeerEnds, Start, ctxVars
<1>2. ASSUME MainSteps PROVE UNCHANGED conns
  BY <1>2, MainKeeps DEF ctxVars
<1>3. ASSUME Insert PROVE DOMAIN conns' = DOMAIN conns \cup {job.id}
  BY <1>3 DEF Insert
<1>4. ASSUME Erase PROVE DOMAIN conns' = DOMAIN conns \ {job.id}
  BY <1>4 DEF Erase
<1>5. ASSUME ContextSteps PROVE Insert \/ Erase \/ UNCHANGED conns
  BY <1>5 DEF ContextSteps, Poll, LeaveLoop, Accept, AcceptFails, Refuse, SkipEvent,
              ReadData, ReadEnd, ReadFails, Flush, CloseOnError, EventsDone, DrainDisconnects,
              DrainSends, LockToErase, Announce
<1>6. QED
  BY <1>1, <1>2, <1>3, <1>4, <1>5, NextSteps

LEMMA EmptyStep ==
    ASSUME Before, MainFits, ReadingFits, Next
    PROVE  (\A id \in Conns \ DOMAIN conns : Unread(id) = 0)'
<1> SUFFICES ASSUME NEW id \in Conns, id \notin DOMAIN conns' PROVE Unread(id)' = 0
  OBVIOUS
<1>1. CASE Erase /\ id = job.id
  <2>1. buffer' = [buffer EXCEPT ![id] = EmptyBuffer]
    BY <1>1 DEF Erase
  <2>2. buffer \in [Conns -> Buffers]
    BY DEF MainFits, Buffers
  <2>3. buffer'[id] = EmptyBuffer
    BY <2>1, <2>2
  <2>4. QED
    BY <2>3 DEF Unread, EmptyBuffer
<1>2. CASE ~(Erase /\ id = job.id)
  <2>1. id \notin DOMAIN conns
    BY <1>2, ConnsMove
  <2>2. Unread(id) = 0
    BY <2>1 DEF ReadingFits
  <2>3. UNCHANGED buffer => Unread(id)' = Unread(id)
    BY DEF Unread
  <2>4. QED
    BY <2>1, <2>2, <2>3, BufferMoves
<1>3. QED
  BY <1>1, <1>2

LEMMA ReadingStep ==
    ASSUME ServerInv, ServerInv', ReadingFits, [Next]_vars
    PROVE  ReadingFits'
<1>1. CASE Next
  <2>1. Before /\ EventsFit /\ MainFits /\ ToldInTurn
    BY DEF ServerInv, Before
  <2>2. QED
    BY <1>1, <2>1, LockStep, NoJobStep, FoundStep, EmptyStep DEF ReadingFits
<1>2. CASE UNCHANGED vars
  BY <1>2 DEF vars, netVars, ctxVars, acceptVars, sharedVars, mainVars, setupVars, ReadingFits,
              Unread, Line
<1>3. QED
  BY <1>1, <1>2

LEMMA ReadingInvariant == Spec => []ReadingFits
BY InitReading, ReadingStep, ServerInvariant, PTL DEF Spec

\* A connection with a complete packet that is not being closed was one before.
LEMMA LiveBefore ==
    ASSUME Before, MainFits, ReadingFits, Next,
           NEW id \in DOMAIN conns', id # job'.id, Unread(id)' >= PacketLen
    PROVE  id \in DOMAIN conns /\ id # job.id /\ id \in Conns
<1>1. id \in Conns
  <2>1. (DOMAIN conns)' \subseteq Conns
    BY ConnIdsNext DEF Before
  <2>2. QED
    BY <2>1
<1>2. id # 0
  BY <1>1 DEF Conns
<1>3. CASE Insert
  <2>1. UNCHANGED buffer /\ job.id \notin DOMAIN conns /\ DOMAIN conns' = DOMAIN conns \cup {job.id}
    BY <1>3 DEF Insert, Before, JobFits
  <2>2. Unread(id)' = Unread(id)
    BY <2>1 DEF Unread
  <2>3. id \notin DOMAIN conns => Unread(id) = 0
    BY <1>1 DEF ReadingFits
  <2>4. id \in DOMAIN conns
    <3>1. ~(0 >= PacketLen)
      OBVIOUS
    <3>2. QED
      BY <2>2, <2>3, <3>1
  <2>5. QED
    BY <1>1, <2>1, <2>4
<1>4. CASE ~Insert
  <2>1. id \in DOMAIN conns
    BY <1>4, ConnsMove
  <2>2. CASE Announce
    BY <1>1, <2>1, <2>2 DEF Announce, Before, JobFits
  <2>3. CASE ~Announce
    <3>1. job' = job \/ job.id = 0
      <4>1. CASE ctx \notin {"insert", "close", "erase", "announce"}
        BY <4>1 DEF ReadingFits
      <4>2. CASE ctx \in {"insert", "close", "erase", "announce"}
        <5>1. ASSUME Network \/ MainSteps PROVE UNCHANGED job
          BY <5>1, MainKeeps DEF Network, Knock, PeerSends, PeerEnds, ctxVars
        <5>2. ASSUME Start PROVE UNCHANGED job
          BY <5>2 DEF Start
        <5>3. ASSUME ContextSteps PROVE UNCHANGED job
          BY <1>4, <2>3, <4>2, <5>3
          DEF ContextSteps, Poll, LeaveLoop, Accept, AcceptFails, Refuse, SkipEvent, ReadData,
              ReadEnd, ReadFails, ReadableEvent, NextEvent, Flush, CloseOnError, EventsDone,
              DrainDisconnects, DrainSends, LockToErase, Erase
        <5>4. QED
          BY <5>1, <5>2, <5>3, NextSteps
      <4>3. QED
        BY <4>1, <4>2
    <3>2. QED
      BY <1>1, <1>2, <2>1, <3>1
  <2>4. QED
    BY <2>2, <2>3
<1>5. QED
  BY <1>3, <1>4

Announced(id) == \E j \in DOMAIN tcpEvents : tcpEvents[j] = Event("read", id)

\* An event stays in the queue until the main thread is at its connection.
LEMMA AnnouncedStays ==
    ASSUME Before, ToldInTurn, MainFits, ReadingFits, Next,
           NEW id \in DOMAIN conns, id # job.id, Announced(id), ~LookupMisses(id)
    PROVE  Announced(id)' \/ reading' = id
<1>1. PICK j \in DOMAIN tcpEvents : tcpEvents[j] = Event("read", id)
  BY DEF Announced
<1>2. PICK E : tcpEvents \in Seq(E)
  BY DEF ToldInTurn, Promise!Ordered
<1>3. ASSUME NEW e, tcpEvents' = Append(tcpEvents, e) PROVE Announced(id)'
  <2>1. j \in DOMAIN tcpEvents' /\ tcpEvents'[j] = tcpEvents[j]
    BY <1>1, <1>2, <1>3
  <2>2. QED
    BY <1>1, <2>1 DEF Announced, Event
<1>4. ASSUME UNCHANGED tcpEvents PROVE Announced(id)'
  BY <1>4 DEF Announced, Event
<1>5. ASSUME NEW kind, NextTcpEvent(kind), j # 1 PROVE Announced(id)'
  <2>1. tcpEvents # <<>> /\ tcpEvents' = Tail(tcpEvents)
    BY <1>5 DEF NextTcpEvent
  <2>2. j - 1 \in DOMAIN tcpEvents' /\ tcpEvents'[j - 1] = tcpEvents[j]
    BY <1>1, <1>2, <1>5, <2>1
  <2>3. QED
    BY <1>1, <2>2 DEF Announced, Event
<1>6. ASSUME NEW kind, NextTcpEvent(kind), j = 1
      PROVE  kind = "read" /\ Head(tcpEvents).id = id
  <2>1. Head(tcpEvents) = Event("read", id)
    BY <1>1, <1>6, FirstTold
  <2>2. QED
    BY <1>6, <2>1 DEF Event, NextTcpEvent
<1>7. CASE OnConnection \/ OnDisconnection
  BY <1>5, <1>6, <1>7 DEF OnConnection, OnDisconnection
<1>8. CASE FindConnection
  <2>1. NextTcpEvent("read")
    BY <1>8 DEF FindConnection
  <2>2. CASE j # 1
    BY <1>5, <2>1, <2>2
  <2>3. CASE j = 1
    <3>1. Head(tcpEvents).id = id
      BY <1>6, <2>1, <2>3
    <3>2. reading' = id \/ UNCHANGED reading
      BY <1>8, <3>1 DEF FindConnection
    <3>3. reading = 0
      BY <2>1 DEF NextTcpEvent, ReadingFits
    <3>4. ~Rehashing => reading' = id
      BY <1>8, <3>1 DEF FindConnection
    <3>5. QED
      BY <1>8, <3>1, <3>2, <3>3, <3>4 DEF LookupMisses
  <2>4. QED
    BY <2>2, <2>3
<1>9. CASE Insert \/ Announce \/ (\E c \in DOMAIN conns : ReadData(c))
  BY <1>3, <1>9 DEF Insert, Announce, ReadData
<1>10. ASSUME ~(OnConnection \/ OnDisconnection \/ FindConnection \/ Insert \/ Announce),
              ~(\E c \in DOMAIN conns : ReadData(c))
       PROVE  UNCHANGED tcpEvents
  <2>1. ASSUME Network \/ Start PROVE UNCHANGED tcpEvents
    BY <2>1 DEF Network, Knock, PeerSends, PeerEnds, Start, sharedVars
  <2>2. ASSUME ContextSteps PROVE UNCHANGED tcpEvents
    BY <1>10, <2>2 DEF ContextSteps, Poll, LeaveLoop, Accept, AcceptFails, Refuse, SkipEvent,
       ReadEnd, ReadFails, Flush, CloseOnError, EventsDone, DrainDisconnects, DrainSends,
       LockToErase, Erase, sharedVars
  <2>3. ASSUME MainSteps PROVE UNCHANGED tcpEvents
    BY <1>10, <2>3 DEF MainSteps, HandleEvents, EnterConnection, Peek, OnPacket, Consume,
       AskDisconnect, SendTcp, HostTcp, StopContext, Joined, sharedVars
  <2>4. QED
    BY <2>1, <2>2, <2>3, NextSteps
<1>11. QED
  BY <1>4, <1>7, <1>8, <1>9, <1>10

\* The main thread stays at a connection as long as there is a packet to take.
LEMMA ReadingStays ==
    ASSUME Before, MainFits, ReadingFits, Next,
           NEW id \in Conns, id \in DOMAIN conns, reading = id, Unread(id)' >= PacketLen
    PROVE  reading' = id
<1>1. reading # 0
  BY DEF Conns
<1>2. buffer[id] \in Buffers /\ buffer[id].pos \in Nat /\ buffer[id].filled \in Nat
      /\ Unread(id) \in Nat
  BY DEF MainFits, Buffers, Unread
<1>3. CASE EnterConnection
  <2>1. There(id) /\ Line(id) = "up"
    BY LineIs DEF There, Before
  <2>2. main = "found"
    BY <1>3 DEF EnterConnection
  <2>3. reading \in clients
    BY <2>1, <2>2 DEF ReadingFits
  <2>4. QED
    BY <1>3, <2>3 DEF EnterConnection
<1>4. CASE Peek
  <2>1. Unread(id)' = Unread(id)
    BY <1>4 DEF Peek, Unread
  <2>2. QED
    BY <1>4, <2>1 DEF Peek, PacketOrReturn
<1>5. CASE Consume
  <2> DEFINE consumed == Min({PacketLen, Unread(reading)})
  <2>1. PICK b : /\ b = [buffer[id] EXCEPT !.pos = @ + consumed]
                 /\ buffer' = [buffer EXCEPT ![id] = b]
    BY <1>5 DEF Consume
  <2>2. consumed \in Nat
    <3>1. {PacketLen, Unread(reading)} \subseteq Nat
      BY <1>2
    <3>2. consumed \in {PacketLen, Unread(reading)}
      BY <3>1, SmallestOne
    <3>3. QED
      BY <3>1, <3>2
  <2>3. PacketOrReturn(Unread(reading) - consumed)
    BY <1>5 DEF Consume
  <2> HIDE DEF consumed
  <2>4. b.pos = buffer[id].pos + consumed /\ b.filled = buffer[id].filled
    BY <1>2, <2>1 DEF Buffers
  <2>5. buffer'[id] = b
    BY <2>1 DEF MainFits
  <2>6. Unread(id)' = Unread(id) - consumed
    BY <1>2, <2>2, <2>4, <2>5 DEF Unread
  <2>7. QED
    BY <2>3, <2>6 DEF PacketOrReturn
<1>6. CASE Network \/ ContextSteps \/ Start
  BY <1>6, MainUntouched DEF Start
<1>7. ASSUME MainSteps, ~(EnterConnection \/ Peek \/ Consume)
      PROVE  UNCHANGED reading
  BY <1>1, <1>7 DEF MainSteps, HandleEvents, OnConnection, OnDisconnection, FindConnection, NextTcpEvent,
                    OnPacket, AskDisconnect, SendTcp, HostTcp, StopContext, Joined, ReadingFits
<1>8. QED
  BY <1>3, <1>4, <1>5, <1>6, <1>7, NextSteps

LEMMA BufferedStep ==
    ASSUME Before, ToldInTurn, MainFits, ReadingFits, Next,
           NEW id \in Conns, HasEvent(id), ~LookupMisses(id)
    PROVE  HasEvent(id)'
<1> SUFFICES ASSUME id \in DOMAIN conns', id # job'.id, Unread(id)' >= PacketLen
             PROVE  Announced(id)' \/ reading' = id
  BY DEF HasEvent, Announced, Event
<1>1. id \in DOMAIN conns /\ id # job.id
  BY LiveBefore
<1>2. CASE ReadData(id)
  <2>1. PICK E : tcpEvents \in Seq(E)
    BY DEF ToldInTurn, Promise!Ordered
  <2>2. tcpEvents' = Append(tcpEvents, Event("read", id))
    BY <1>2 DEF ReadData
  <2>3. Len(tcpEvents) + 1 \in DOMAIN tcpEvents' /\ tcpEvents'[Len(tcpEvents) + 1] = Event("read", id)
    BY <2>1, <2>2
  <2>4. QED
    BY <2>3 DEF Announced, Event
<1>3. CASE reading = id
  BY <1>1, <1>3, ReadingStays
<1>4. CASE ~ReadData(id) /\ reading # id
  <2>1. ~ReadEnd(id)
    BY DEF ReadEnd, BeginClose
  <2>2. Unread(id)' = Unread(id)
    <3>1. CASE UNCHANGED buffer
      BY <3>1 DEF Unread
    <3>2. CASE ~UNCHANGED buffer
      BY <1>1, <1>4, <2>1, <3>2, BufferMoves
    <3>3. QED
      BY <3>1, <3>2
  <2>3. Announced(id)
    BY <1>1, <1>4, <2>2 DEF HasEvent, Announced
  <2>4. QED
    BY <1>1, <2>3, AnnouncedStays
<1>5. QED
  BY <1>2, <1>3, <1>4

\* A complete packet loses its event to one step only: the look-up in
\* tcp_connections, outside the mutex, of its connection, which is there, while
\* the context thread is inside emplace or erase of another.
THEOREM EventsAreLostToLookups == Spec => OnlyLookupsLoseEvents
<1>1. ASSUME ServerInv, ServerInv', ReadingFits, [Next]_vars
      PROVE  [\A id \in Conns : HasEvent(id) => HasEvent(id)' \/ LookupMisses(id)]_vars
  <2>1. Before /\ ToldInTurn /\ MainFits
    BY <1>1 DEF ServerInv, Before
  <2>2. QED
    BY <1>1, <2>1, BufferedStep
<1>2. QED
  BY <1>1, ServerInvariant, ReadingInvariant, PTL DEF Spec, OnlyLookupsLoseEvents

\* With one connection there is no other to insert or erase, and a complete
\* packet always keeps its event.
THEOREM BufferedPacketsKeepTheirEvent ==
    ASSUME MaxConns = 1
    PROVE  Spec => []BufferedPacketsHaveAnEvent
<1>1. Init => BufferedPacketsHaveAnEvent
  BY DEF Init, BufferedPacketsHaveAnEvent, HasEvent
<1>2. ASSUME ServerInv, ServerInv', ReadingFits, BufferedPacketsHaveAnEvent, [Next]_vars
      PROVE  BufferedPacketsHaveAnEvent'
  <2>1. Before /\ ToldInTurn /\ MainFits
    BY <1>2 DEF ServerInv, Before
  <2>2. CASE Next
    <3>1. ASSUME NEW id PROVE ~LookupMisses(id)
      <4>1. DOMAIN conns \subseteq {1}
        BY <2>1 DEF Before, ConnsKnown, PeersCounted
      <4>2. Rehashing => job.id = 1
        <5>1. accepted \in Nat /\ since \in Nat /\ accepted <= 1
          BY <2>1 DEF Before, ConnsKnown, PeersCounted
        <5>2. ctx = "insert" => job.id = 1
          BY <2>1, <5>1 DEF Before, JobFits
        <5>3. ctx = "erase" => job.id = 1
          BY <2>1, <4>1 DEF Before, JobFits
        <5>4. QED
          BY <5>2, <5>3 DEF Rehashing
      <4>3. QED
        BY <4>1, <4>2 DEF LookupMisses
    <3>2. QED
      BY <1>2, <2>1, <2>2, <3>1, BufferedStep DEF BufferedPacketsHaveAnEvent
  <2>3. CASE UNCHANGED vars
    BY <1>2, <2>3 DEF vars, netVars, ctxVars, acceptVars, sharedVars, mainVars, setupVars,
                      BufferedPacketsHaveAnEvent, HasEvent, Unread, Event
  <2>4. QED
    BY <1>2, <2>2, <2>3
<1>3. QED
  BY <1>1, <1>2, ServerInvariant, ReadingInvariant, PTL DEF Spec

=============================================================================
