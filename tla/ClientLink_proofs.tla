-------------------------- MODULE ClientLink_proofs --------------------------
(***************************************************************************)
(* A BaseServer in client mode keeps its promise to the class above it and *)
(* its own sockets in order, for any number of links, starts of the        *)
(* context, packets and datagrams, and whatever calls fail.                *)
(***************************************************************************)
EXTENDS ClientLink, PollSet_proofs

NoticeProofs == INSTANCE Notices_proofs WITH
    Lines <- Links,
    line <- [id \in Links |-> Line(id)],
    queue <- tcpEvents

USE ClientLinkAssumption

-----------------------------------------------------------------------------
(* The inductive invariant. *)

Both == {"udp", "tcp"}

\* The link and what is on its way over it.
LinkCounted ==
    /\ drawn \in 0 .. MaxLinks /\ link \in 0 .. drawn
    /\ peer \in {"none", "open", "closed", "reset"}
    /\ link = 0 <=> peer = "none"
    /\ wire \in Nat /\ buffer \in 0 .. Capacity /\ taken \in Nat
    /\ sent \in 0 .. MaxPackets
    /\ wire + buffer + taken <= sent
    /\ link = 0 => wire = 0 /\ buffer = 0

\* What the main thread reads of it is there as long as the link is.
ReadingWhatIsThere ==
    /\ main \in {"idle", "joining", "lookup", "reading", "wild", "gone"}
    /\ reading \in 0 .. drawn
    /\ ahead \in 0 .. Capacity
    /\ main \in {"lookup", "reading"} => reading # 0
    /\ main = "reading" /\ reading = link => ahead <= buffer

\* No datagram is made up.
DatagramsCounted ==
    /\ inbox \in {<<>>, <<"data">>, <<"bare">>}
    /\ received \in Nat /\ seen \in Nat /\ came \in 0 .. MaxDatagrams
    /\ received + seen + (IF inbox = <<"data">> THEN 1 ELSE 0) <= came
    /\ sends \in Nat /\ asked \in 0 .. MaxDatagrams /\ sends <= asked

\* The context thread waits for the sockets there are, an event of a round is
\* of one of them and has what it is about, and the sockets change only while
\* the thread is not there.
WatchingWhatIsThere ==
    /\ ctx \in {"off", "top", "events", "drop"}
    /\ running \in BOOLEAN /\ starts \in 0 .. MaxStarts
    /\ ~running /\ ctx # "off" => main = "joining"
    /\ OneEach(watched, Both)
    /\ events \in Seq(Events(Both)) /\ InTurn(events)
    /\ ctx = "drop" => link # 0
    /\ ctx # "off" =>
           /\ "udp" \in FdsOf(watched) => udpFd # NoFd
           /\ "tcp" \in FdsOf(watched) => link # 0 /\ ctx # "drop"
    /\ ctx \in {"events", "drop"} => \A e \in Members(events) :
           /\ e.fd = "tcp" => link # 0 /\ ctx # "drop"
           /\ e.fd = "udp" /\ e.type = "read" => inbox # <<>>
           /\ e.fd = "udp" /\ e.type = "write" => sends > 0

\* No two sockets are one.
SocketsApart ==
    /\ SocketsAreOwned
    /\ {linkFd, udpFd} \subseteq {NoFd, 1, 2}
    /\ linkFd = udpFd => linkFd = NoFd
    /\ main # "gone" /\ link = 0 => linkFd = NoFd

ToldInTurn ==
    /\ Promise!Ordered
    /\ ClientsFollowLink

LinkInv ==
    /\ LinkCounted /\ ReadingWhatIsThere /\ DatagramsCounted
    /\ WatchingWhatIsThere /\ SocketsApart /\ ToldInTurn

-----------------------------------------------------------------------------
(* Sockets. *)

\* Of two numbers socket(2) takes one that is not open.
LEMMA LowestFreeOfTwo ==
    ASSUME NEW taken2, NEW fd \in {NoFd, 1, 2}, taken2 = {fd} \ {NoFd}
    PROVE  LowestFree(taken2) \in {1, 2} \ taken2
<1>1. CASE fd = NoFd
  <2>1. taken2 = {} /\ Cardinality({}) = 0
    BY <1>1, FS_EmptySet DEF NoFd
  <2>2. (1 .. Cardinality(taken2) + 1) \ taken2 = {1}
    BY <2>1
  <2>3. QED
    BY <2>1, <2>2 DEF LowestFree, Min
<1>2. CASE fd # NoFd
  <2>1. taken2 = {fd} /\ Cardinality(taken2) = 1 /\ fd \in {1, 2}
    BY <1>2, FS_Singleton
  <2>2. (1 .. Cardinality(taken2) + 1) \ taken2 = {1, 2} \ {fd}
    BY <2>1
  <2>3. \E x : {1, 2} \ {fd} = {x} /\ x \in {1, 2} /\ x # fd
    BY <2>1
  <2>4. QED
    BY <2>1, <2>2, <2>3 DEF LowestFree, Min
<1>3. QED
  BY <1>1, <1>2

\* A call that makes a socket makes one, or leaves what is open as it was.
LEMMA OneSocketOrNone ==
    ASSUME NEW now, NEW fd \in {NoFd, 1, 2}, now = {fd} \ {NoFd},
           NEW o \in ConnectedStream(now) \cup CreatedBound(now) \cup AnyUdp(now)
    PROVE  \/ o.fd = NoFd /\ o.open = now
           \/ o.fd \in {1, 2} \ now /\ o.open = now \cup {o.fd}
<1> DEFINE new == LowestFree(now)
           made == Created(now)
<1>1. new \in {1, 2} \ now /\ NoFd \notin now
  BY LowestFreeOfTwo
<1>2. made = {[open |-> now, fd |-> NoFd], [open |-> now \cup {new}, fd |-> new]}
  BY DEF Created, Failure, Outcome
<1>3. o \in made \cup {[open |-> p.open \ {p.fd}, fd |-> NoFd] : p \in made}
  BY DEF ConnectedStream, CreatedBound, AnyUdp, OrClosed, Failure, Outcome, Closed
<1> HIDE DEF new, made
<1>4. CASE o \in made
  BY <1>1, <1>2, <1>4
<1>5. ASSUME NEW p \in made, o = [open |-> p.open \ {p.fd}, fd |-> NoFd]
      PROVE  o.fd = NoFd /\ o.open = now
  <2>1. CASE p = [open |-> now, fd |-> NoFd]
    BY <1>1, <1>5, <2>1
  <2>2. CASE p = [open |-> now \cup {new}, fd |-> new]
    <3>1. (now \cup {new}) \ {new} = now
      BY <1>1
    <3>2. QED
      BY <1>5, <2>2, <3>1
  <2>3. QED
    BY <1>2, <2>1, <2>2
<1>6. QED
  BY <1>3, <1>4, <1>5

-----------------------------------------------------------------------------
(* The beginning. *)

LEMMA InitInv == Init => LinkInv
<1> SUFFICES ASSUME Init PROVE LinkInv
  OBVIOUS
<1> USE DEF Init
<1>1. LinkCounted /\ ReadingWhatIsThere /\ DatagramsCounted
  BY DEF LinkCounted, ReadingWhatIsThere, DatagramsCounted
<1>2. OneEach(<<>>, Both) /\ FdsOf(<<>>) = {}
  BY DEF OneEach, FdsOf
<1>3. WatchingWhatIsThere
  <2>1. <<>> \in Seq(Events(Both)) /\ InTurn(<<>>)
    BY NothingMembers
  <2>2. OneEach(watched, Both) /\ events \in Seq(Events(Both)) /\ InTurn(events)
    BY <1>2, <2>1
  <2>3. ctx = "off" /\ starts \in 0 .. MaxStarts
    OBVIOUS
  <2>4. running \in BOOLEAN
    OBVIOUS
  <2>5. QED
    BY <2>2, <2>3, <2>4 DEF WatchingWhatIsThere
<1>4. SocketsApart
  BY DEF SocketsApart, SocketsAreOwned, NoFd
<1>5. \A id \in Links : Line(id) = "none"
  BY DEF Links, Line
<1>6. Promise!Ordered
  BY <1>5 DEF Promise!Ordered
<1>7. Promise!Known = {}
  BY <1>5 DEF Promise!Known, Promise!Told
<1>8. QED
  BY <1>1, <1>3, <1>4, <1>6, <1>7 DEF LinkInv, ToldInTurn, ClientsFollowLink

-----------------------------------------------------------------------------
(* What a step leaves alone, a part of the invariant that looks at nothing   *)
(* else keeps.                                                               *)

linkVars == <<drawn, link, peer, wire, buffer, taken, sent>>
readVars == <<main, reading, ahead>>
datagramVars == <<inbox, received, seen, came, sends, asked>>
watchVars == <<ctx, running, starts, watched, events>>
socketVars == <<open, linkFd, udpFd>>

\* An event of a round has what it is about, and what comes after it of the
\* same socket comes later in turn.
LEMMA EventTaken ==
    ASSUME WatchingWhatIsThere, NEW socket \in Both, NEW type \in {"read", "write", "error"},
           NextEvent(socket, type)
    PROVE  /\ socket = "tcp" => link # 0
           /\ socket = "udp" /\ type = "read" => inbox # <<>>
           /\ socket = "udp" /\ type = "write" => sends > 0
           /\ events' \in Seq(Events(Both)) /\ InTurn(events')
           /\ Members(events') \subseteq Members(events)
           /\ \A e \in Members(events') : e.fd = socket => Rank(type) < Rank(e.type)
<1> DEFINE head == [fd |-> socket, type |-> type]
<1>1. /\ ctx = "events" /\ events # <<>> /\ Head(events) = head /\ events' = Tail(events)
      /\ head.fd = socket /\ head.type = type
  BY DEF NextEvent
<1> HIDE DEF head
<1>2. events \in Seq(Events(Both)) /\ InTurn(events)
  BY DEF WatchingWhatIsThere
<1>3. /\ head \in Members(events)
      /\ events' \in Seq(Events(Both)) /\ InTurn(events')
      /\ Members(events') \subseteq Members(events)
      /\ \A e \in Members(events') : e.fd = socket => Rank(type) < Rank(e.type)
  BY <1>1, <1>2, FirstOfTurn
<1>4. /\ head.fd = "tcp" => link # 0
      /\ head.fd = "udp" /\ head.type = "read" => inbox # <<>>
      /\ head.fd = "udp" /\ head.type = "write" => sends > 0
  BY <1>1, <1>3 DEF WatchingWhatIsThere
<1>5. QED
  BY <1>1, <1>3, <1>4

LEMMA Ranks == Rank("read") = 1 /\ Rank("write") = 2 /\ Rank("error") = 3
BY DEF Rank

\* What the main thread is told of next is a connection there was.
LEMMA FirstTold ==
    ASSUME Promise!Ordered, NEW kind, NextTcp(kind)
    PROVE  LET id == Head(tcpEvents).id IN
           /\ id \in Links /\ kind \in Promise!Kinds
           /\ Head(tcpEvents) = Promise!Notice(kind, id)
<1> DEFINE E == [kind : Promise!Kinds, id : Links]
<1>1. tcpEvents \in Seq(E) /\ tcpEvents # <<>>
  BY DEF Promise!Ordered, NextTcp
<1>2. Head(tcpEvents) \in E
  <2> HIDE DEF E
  <2>1. QED
    BY <1>1
<1>3. QED
  BY <1>2 DEF NextTcp, Promise!Notice

-----------------------------------------------------------------------------
(* The link and what is read of it. *)

LEMMA LinkStep ==
    ASSUME LinkCounted, ReadingWhatIsThere, WatchingWhatIsThere, ToldInTurn, Next
    PROVE  LinkCounted' /\ ReadingWhatIsThere'
<1> USE DEF LinkCounted, ReadingWhatIsThere
<1>1. CASE PeerSends
  BY <1>1 DEF PeerSends, setupVars, ctxVars, sharedVars, mainVars
<1>2. ASSUME NEW how \in {"closed", "reset"}, PeerEnds(how)
      PROVE  LinkCounted' /\ ReadingWhatIsThere'
  BY <1>2 DEF PeerEnds, setupVars, ctxVars, sharedVars, mainVars
<1>3. CASE ConnectTcp
  <2>1. PICK o \in ConnectedStream(open) :
            IF o.fd = NoFd THEN UNCHANGED <<drawn, link, linkFd, peer, sent, taken, tcpEvents>>
            ELSE LinkUp(o.fd)
    BY <1>3 DEF ConnectTcp
  <2>2. QED
    BY <1>3, <2>1 DEF ConnectTcp, LinkUp, ctxVars
<1>4. CASE Stop \/ Joined \/ Destroy
  BY <1>4 DEF Stop, Joined, Destroy, netVars, setupVars, ctxVars, sharedVars
<1>5. CASE ReadTcp
  <2>1. PICK n \in Receivable : wire' = wire - n /\ buffer' = buffer + n
    BY <1>5 DEF ReadTcp
  <2>2. n \in Nat /\ n <= wire /\ n <= Capacity - buffer
    BY DEF Receivable
  <2>3. link # 0
    BY <1>5, EventTaken DEF ReadTcp, Both
  <2>4. UNCHANGED <<peer, sent, drawn, link, taken, main, reading, ahead>>
    BY <1>5 DEF ReadTcp, setupVars, mainVars
  <2>5. LinkCounted'
    BY <2>1, <2>2, <2>3, <2>4
  <2>6. ReadingWhatIsThere'
    BY <2>1, <2>2, <2>4
  <2>7. QED
    BY <2>5, <2>6
<1>6. CASE Drop
  BY <1>6 DEF Drop, mainVars
<1>7. CASE OnRead \/ Look \/ ReadDone \/ ReadGone
  <2>1. UNCHANGED linkVars
    BY <1>7 DEF OnRead, Look, ReadDone, ReadGone, netVars, setupVars, ctxVars, sharedVars, linkVars
  <2>2. CASE OnRead
    <3>1. main = "idle" /\ Head(tcpEvents).id \in Links
      BY <2>2, FirstTold DEF OnRead, NextTcp, ToldInTurn
    <3>2. QED
      BY <2>1, <2>2, <3>1 DEF OnRead, Links, linkVars
  <2>3. CASE Look
    BY <2>1, <2>3 DEF Look, linkVars
  <2>4. CASE ReadDone \/ ReadGone
    BY <2>1, <2>4 DEF ReadDone, ReadGone, linkVars
  <2>5. QED
    BY <1>7, <2>2, <2>3, <2>4
<1>8. CASE ReadPacket
  BY <1>8 DEF ReadPacket, netVars, setupVars, ctxVars
<1>9. CASE UNCHANGED <<linkVars, readVars>>
  BY <1>9 DEF linkVars, readVars
<1>10. Next => \/ PeerSends \/ (\E how \in {"closed", "reset"} : PeerEnds(how))
               \/ ConnectTcp \/ Stop \/ Joined \/ Destroy \/ ReadTcp \/ Drop
               \/ OnRead \/ Look \/ ReadDone \/ ReadGone \/ ReadPacket
               \/ UNCHANGED <<linkVars, readVars>>
  <2>1. ASSUME \/ \E kind \in {"data", "bare"} : DatagramComes(kind)
               \/ ConnectUdp \/ HostUdp \/ Start \/ SendUdp
               \/ Poll \/ LeaveLoop \/ FailTcp \/ ReadUdp \/ WriteUdp \/ RoundDone
               \/ OnConnection \/ OnDisconnection \/ OnUdp
        PROVE  UNCHANGED <<linkVars, readVars>>
    BY <2>1 DEF DatagramComes, ConnectUdp, HostUdp, Start, SendUdp, Poll, LeaveLoop, FailTcp,
                ReadUdp, WriteUdp, RoundDone, OnConnection, OnDisconnection, OnUdp,
                netVars, setupVars, ctxVars, sharedVars, mainVars, linkVars, readVars
  <2>2. QED
    BY <2>1 DEF Next, Network, Program, Context, HandleEvents
<1>11. QED
  BY <1>1, <1>2, <1>3, <1>4, <1>5, <1>6, <1>7, <1>8, <1>9, <1>10

-----------------------------------------------------------------------------
(* Datagrams. *)

LEMMA DatagramStep ==
    ASSUME DatagramsCounted, WatchingWhatIsThere, Next
    PROVE  DatagramsCounted'
<1> USE DEF DatagramsCounted
<1>1. ASSUME NEW kind \in {"data", "bare"}, DatagramComes(kind) PROVE DatagramsCounted'
  BY <1>1 DEF DatagramComes, sharedVars, mainVars
<1>2. CASE SendUdp
  BY <1>2 DEF SendUdp, netVars
<1>3. CASE ReadUdp
  <2>1. inbox # <<>>
    BY <1>3, EventTaken DEF ReadUdp, Both
  <2>2. inbox = <<"data">> \/ inbox = <<"bare">>
    BY <2>1
  <2>3. inbox' = <<>> /\ <<>> # <<"data">>
    BY <1>3 DEF ReadUdp
  <2>4. received' = IF inbox = <<"data">> THEN received + 1 ELSE received
    BY <1>3, <2>2 DEF ReadUdp
  <2>5. QED
    BY <1>3, <2>3, <2>4 DEF ReadUdp, mainVars
<1>4. CASE WriteUdp
  <2>1. sends > 0
    BY <1>4, EventTaken DEF WriteUdp, Both
  <2>2. QED
    BY <1>4, <2>1 DEF WriteUdp, netVars, mainVars
<1>5. CASE OnUdp
  BY <1>5 DEF OnUdp, netVars
<1>6. CASE UNCHANGED datagramVars
  BY <1>6 DEF datagramVars
<1>7. ASSUME \/ PeerSends \/ (\E how \in {"closed", "reset"} : PeerEnds(how))
             \/ ConnectTcp \/ ConnectUdp \/ HostUdp \/ Start \/ Stop \/ Destroy
             \/ Poll \/ LeaveLoop \/ ReadTcp \/ FailTcp \/ Drop \/ RoundDone
             \/ OnConnection \/ OnDisconnection \/ OnRead \/ Look \/ ReadPacket
             \/ ReadDone \/ ReadGone \/ Joined
      PROVE  UNCHANGED datagramVars
  BY <1>7 DEF PeerSends, PeerEnds, ConnectTcp, ConnectUdp, HostUdp, Start, Stop, Destroy,
              Poll, LeaveLoop, ReadTcp, FailTcp, Drop, RoundDone, OnConnection,
              OnDisconnection, OnRead, Look, ReadPacket, ReadDone, ReadGone, Joined,
              netVars, setupVars, ctxVars, sharedVars, mainVars, datagramVars
<1>8. QED
  BY <1>1, <1>2, <1>3, <1>4, <1>5, <1>6, <1>7 DEF Next, Network, Program, Context, HandleEvents

-----------------------------------------------------------------------------
(* What the context thread waits for and gets. *)

\* Of the part about the context thread, what holds outside of it.
LEMMA WatchOff ==
    ASSUME WatchingWhatIsThere, ctx' = "off", UNCHANGED <<running, starts, watched, events>>
    PROVE  WatchingWhatIsThere'
BY DEF WatchingWhatIsThere

\* Poll::add of a socket there is.
LEMMA AddedBoth ==
    ASSUME NEW fds, OneEach(fds, Both), NEW fd \in Both, NEW interest \in {In, Out}
    PROVE  /\ OneEach(AskedFor(fds, fd, interest), Both)
           /\ FdsOf(AskedFor(fds, fd, interest)) = FdsOf(fds) \cup {fd}
BY AskedForOneEach

LEMMA StartWatches ==
    ASSUME WatchingWhatIsThere, Start
    PROVE  WatchingWhatIsThere'
<1> DEFINE first == IF udpFd = NoFd THEN <<>> ELSE Added(<<>>, "udp")
           both == IF link = 0 THEN first ELSE Added(first, "tcp")
<1>1. watched' = both
  BY DEF Start
<1>2. OneEach(<<>>, Both) /\ FdsOf(<<>>) = {}
  BY DEF OneEach, FdsOf
<1>3. OneEach(first, Both) /\ FdsOf(first) = IF udpFd = NoFd THEN {} ELSE {"udp"}
  <2>1. "udp" \in Both /\ In \in {In, Out}
    BY DEF Both
  <2> DEFINE u == Added(<<>>, "udp")
  <2>2. OneEach(u, Both) /\ FdsOf(u) = {"udp"}
    BY <1>2, <2>1, AddedBoth DEF Added
  <2> HIDE DEF u
  <2>3. QED
    BY <1>2, <2>2 DEF u
<1> HIDE DEF first
<1>4. OneEach(both, Both)
      /\ FdsOf(both) = FdsOf(first) \cup IF link = 0 THEN {} ELSE {"tcp"}
  <2>1. "tcp" \in Both /\ In \in {In, Out}
    BY DEF Both
  <2>2. QED
    BY <1>3, <2>1, AddedBoth DEF Added
<1> HIDE DEF both
<1>5. /\ "udp" \in FdsOf(watched') => udpFd # NoFd
      /\ "tcp" \in FdsOf(watched') => link # 0
  BY <1>1, <1>3, <1>4
<1>6. /\ UNCHANGED <<link, udpFd, inbox, sends, events, main>>
      /\ ctx' = "top" /\ running' = TRUE /\ starts' \in 0 .. MaxStarts
  <2>1. starts \in 0 .. MaxStarts
    BY DEF WatchingWhatIsThere
  <2>2. QED
    BY <2>1 DEF Start, netVars, sharedVars, mainVars
<1>7. running' \in BOOLEAN
  BY <1>6
<1>8. QED
  BY <1>1, <1>4, <1>5, <1>6, <1>7 DEF WatchingWhatIsThere

\* The poll is prepared for the sockets it has, and for what they have.
LEMMA PreparedPoll ==
    ASSUME WatchingWhatIsThere, ctx = "top"
    PROVE  LET p == Prepared(Quiet) IN
           /\ OneEach(p, Both)
           /\ "udp" \in FdsOf(p) => udpFd # NoFd
           /\ "tcp" \in FdsOf(p) => link # 0
           /\ "udp" \in Asking(p, Out) => sends > 0 \/ udpFd = NoFd
<1> DEFINE p == Prepared(Quiet)
<1>1. /\ OneEach(watched, Both)
      /\ "udp" \in FdsOf(watched) => udpFd # NoFd
      /\ "tcp" \in FdsOf(watched) => link # 0
  BY DEF WatchingWhatIsThere
<1>2. OneEach(Quiet, Both) /\ FdsOf(Quiet) \subseteq FdsOf(watched)
  <2>1. CASE link = 0
    BY <1>1, <2>1 DEF Quiet
  <2>2. CASE link # 0
    BY <1>1, <2>2, WriteRemovedOneEach, FdsAsk DEF Quiet
  <2>3. QED
    BY <2>1, <2>2
<1> HIDE DEF p
<1>3. CASE udpFd = NoFd
  <2>1. p = Quiet
    BY <1>3 DEF p, Prepared
  <2>2. QED
    BY <1>1, <1>2, <1>3, <2>1 DEF p
<1>4. CASE udpFd # NoFd /\ sends > 0
  <2>1. p = AskedFor(Quiet, "udp", Out)
    BY <1>4 DEF p, Prepared, WriteAdded
  <2>2. "udp" \in Both /\ Out \in {In, Out}
    BY DEF Both
  <2>3. OneEach(p, Both) /\ FdsOf(p) = FdsOf(Quiet) \cup {"udp"}
    BY <1>2, <2>1, <2>2, AddedBoth
  <2>4. QED
    BY <1>1, <1>2, <1>4, <2>3 DEF p
<1>5. CASE udpFd # NoFd /\ ~(sends > 0)
  <2>1. p = WriteRemoved(Quiet, "udp")
    BY <1>5 DEF p, Prepared
  <2>2. /\ OneEach(p, Both)
        /\ FdsOf(p) = Asking(Quiet, In) \cup (Asking(Quiet, Out) \ {"udp"})
        /\ Asking(p, Out) = Asking(Quiet, Out) \ {"udp"}
    BY <1>2, <2>1, WriteRemovedOneEach
  <2>3. FdsOf(Quiet) = Asking(Quiet, In) \cup Asking(Quiet, Out)
    BY <1>2, FdsAsk
  <2>4. QED
    BY <1>1, <1>2, <1>5, <2>2, <2>3 DEF p
<1>6. QED
  BY <1>3, <1>4, <1>5

LEMMA PollWatches ==
    ASSUME WatchingWhatIsThere, LinkCounted, Poll
    PROVE  WatchingWhatIsThere'
<1> DEFINE readable == (IF inbox # <<>> THEN {"udp"} ELSE {})
                       \cup (IF wire > 0 \/ peer # "open" THEN {"tcp"} ELSE {})
           failing == IF peer = "reset" THEN {"tcp"} ELSE {}
           writable == {"udp"}
           p == Prepared(Quiet)
           q == Waited(p, readable, writable, failing)
<1>1. watched' = p
  BY DEF Poll
<1>2. ctx = "top" /\ ctx' = "events" /\ events' = q
      /\ UNCHANGED <<link, udpFd, inbox, sends, running, starts, main>>
  BY <1>1 DEF Poll, netVars, setupVars, sharedVars, mainVars
<1>3. /\ OneEach(p, Both)
      /\ "udp" \in FdsOf(p) => udpFd # NoFd
      /\ "tcp" \in FdsOf(p) => link # 0
      /\ "udp" \in Asking(p, Out) => sends > 0 \/ udpFd = NoFd
  BY <1>2, PreparedPoll
<1> HIDE DEF p
<1>4. /\ "udp" \in readable => inbox # <<>>
      /\ "udp" \notin failing
  OBVIOUS
<1> HIDE DEF readable, failing, writable
<1>5. /\ q \in Seq(Events(Both)) /\ InTurn(q)
      /\ \A a : a \in Members(q) <=>
             /\ a \in Events(Both)
             /\ \E i \in DOMAIN p :
                    a.fd = p[i].fd /\ Happens(p[i], a.type, readable, writable, failing)
  BY <1>3, EventsComeInTurn
<1> HIDE DEF q
<1>6. ASSUME NEW e \in Members(q)
      PROVE  /\ e.fd = "tcp" => link # 0
             /\ e.fd = "udp" /\ e.type = "read" => inbox # <<>>
             /\ e.fd = "udp" /\ e.type = "write" => sends > 0
  <2>1. PICK i \in DOMAIN p : e.fd = p[i].fd /\ Happens(p[i], e.type, readable, writable, failing)
    BY <1>5
  <2>2. e.fd \in FdsOf(p)
    BY <2>1 DEF FdsOf
  <2>3. e.type = "write" => e.fd \in Asking(p, Out)
    BY <2>1 DEF Happens, Asking
  <2>4. e.type = "read" => e.fd \in readable
    BY <2>1 DEF Happens
  <2>5. QED
    BY <1>3, <1>4, <2>2, <2>3, <2>4
<1>7. ~running' /\ ctx' # "off" => main' = "joining"
  BY <1>2 DEF WatchingWhatIsThere
<1>8. QED
  BY <1>1, <1>2, <1>3, <1>5, <1>6, <1>7 DEF WatchingWhatIsThere

\* An event that is taken leaves those that have what they are about.
LEMMA EventLeaves ==
    ASSUME WatchingWhatIsThere, NEW socket \in Both, NEW type \in {"read", "write", "error"},
           NextEvent(socket, type), UNCHANGED <<running, starts, main, link, udpFd>>,
           \/ ctx' = "events" /\ watched' = watched
           \/ /\ ctx' = "drop" /\ socket = "tcp" /\ type = "error"
              /\ watched' = Removed(watched, "tcp"),
           inbox' = inbox \/ (socket = "udp" /\ type = "read"),
           sends' = sends \/ (socket = "udp" /\ type = "write")
    PROVE  WatchingWhatIsThere'
<1>1. /\ socket = "tcp" => link # 0
      /\ events' \in Seq(Events(Both)) /\ InTurn(events')
      /\ Members(events') \subseteq Members(events)
      /\ \A e \in Members(events') : e.fd = socket => Rank(type) < Rank(e.type)
  BY EventTaken
<1>2. ctx = "events"
  BY DEF NextEvent
<1>3. ASSUME NEW e \in Members(events')
      PROVE  /\ e.fd = "tcp" => link # 0 /\ ctx' # "drop"
             /\ e.fd = "udp" /\ e.type = "read" => inbox' # <<>>
             /\ e.fd = "udp" /\ e.type = "write" => sends' > 0
  <2>1. e \in Members(events) /\ e \in Events(Both)
    <3>1. \A i \in DOMAIN events' : events'[i] \in Events(Both)
      BY <1>1
    <3>2. QED
      BY <1>1, <3>1 DEF Members
  <2>2. /\ e.fd = "tcp" => link # 0
        /\ e.fd = "udp" /\ e.type = "read" => inbox # <<>>
        /\ e.fd = "udp" /\ e.type = "write" => sends > 0
    BY <1>2, <2>1 DEF WatchingWhatIsThere
  <2>3. e.type = "read" \/ e.type = "write" \/ e.type = "error"
    BY <2>1 DEF Events
  <2>4. e.fd = socket => Rank(type) < Rank(e.type)
    BY <1>1
  <2>5. e.fd = socket => ~(type = "error") /\ e.type # type
    BY <2>3, <2>4, Ranks
  <2>6. QED
    BY <2>2, <2>4, <2>5, Ranks
<1>4. /\ OneEach(watched', Both) /\ FdsOf(watched') \subseteq FdsOf(watched)
      /\ ctx' = "drop" => "tcp" \notin FdsOf(watched')
  <2>1. OneEach(watched, Both)
    BY DEF WatchingWhatIsThere
  <2>2. CASE watched' = watched /\ ctx' = "events"
    BY <2>1, <2>2
  <2>3. CASE watched' = Removed(watched, "tcp")
    BY <2>1, <2>3, RemovedOneEach
  <2>4. QED
    BY <2>2, <2>3
<1>5. /\ running' \in BOOLEAN /\ starts' \in 0 .. MaxStarts
      /\ ~running' /\ ctx' # "off" => main' = "joining"
      /\ "udp" \in FdsOf(watched') => udpFd' # NoFd
      /\ "tcp" \in FdsOf(watched') => link' # 0
  BY <1>2, <1>4 DEF WatchingWhatIsThere
<1>6. QED
  BY <1>1, <1>3, <1>4, <1>5 DEF WatchingWhatIsThere

LEMMA WatchStep ==
    ASSUME LinkCounted, DatagramsCounted, WatchingWhatIsThere, Next
    PROVE  WatchingWhatIsThere'
<1>1. CASE ConnectTcp \/ ConnectUdp \/ HostUdp \/ Destroy
  <2>1. ctx = "off"
    BY <1>1 DEF ConnectTcp, ConnectUdp, HostUdp, Destroy, WatchingWhatIsThere
  <2>2. QED
    BY <1>1, <2>1, WatchOff DEF ConnectTcp, ConnectUdp, HostUdp, Destroy, ctxVars
<1>2. CASE Joined \/ LeaveLoop
  BY <1>2, WatchOff DEF Joined, LeaveLoop, setupVars, ctxVars
<1>3. CASE Start
  BY <1>3, StartWatches
<1>4. CASE Stop
  <2>1. running' \in BOOLEAN
    BY <1>4 DEF Stop
  <2>2. QED
    BY <1>4, <2>1 DEF Stop, netVars, ctxVars, sharedVars, WatchingWhatIsThere
<1>5. ASSUME NEW kind \in {"data", "bare"}, DatagramComes(kind) PROVE WatchingWhatIsThere'
  BY <1>5 DEF DatagramComes, setupVars, ctxVars, sharedVars, mainVars, WatchingWhatIsThere
<1>6. CASE SendUdp
  <2>1. sends \in Nat
    BY DEF DatagramsCounted
  <2>2. QED
    BY <1>6, <2>1 DEF SendUdp, netVars, setupVars, ctxVars, WatchingWhatIsThere
<1>7. CASE Poll
  BY <1>7, PollWatches
<1>8. CASE ReadTcp \/ ReadUdp \/ WriteUdp \/ FailTcp
  <2>1. "tcp" \in Both /\ "udp" \in Both
    BY DEF Both
  <2>2. QED
    BY <1>8, <2>1, EventLeaves
       DEF ReadTcp, ReadUdp, WriteUdp, FailTcp, NextEvent, netVars, setupVars, sharedVars, mainVars
<1>9. CASE Drop
  BY <1>9 DEF Drop, mainVars, WatchingWhatIsThere
<1>10. CASE RoundDone
  BY <1>10 DEF RoundDone, netVars, setupVars, sharedVars, mainVars, WatchingWhatIsThere
<1>11. CASE UNCHANGED <<watchVars, link, udpFd, inbox, sends>> /\ (main' = main \/ main # "joining")
  BY <1>11 DEF watchVars, WatchingWhatIsThere
<1>12. ASSUME \/ PeerSends \/ (\E how \in {"closed", "reset"} : PeerEnds(how))
              \/ OnConnection \/ OnDisconnection \/ OnRead \/ Look \/ ReadPacket
              \/ ReadDone \/ ReadGone \/ OnUdp
       PROVE  UNCHANGED <<watchVars, link, udpFd, inbox, sends>> /\ (main' = main \/ main # "joining")
  BY <1>12 DEF PeerSends, PeerEnds, OnConnection, OnDisconnection, OnRead, NextTcp, Look,
               ReadPacket, ReadDone, ReadGone, OnUdp,
               netVars, setupVars, ctxVars, sharedVars, mainVars, watchVars
<1>13. QED
  BY <1>1, <1>2, <1>3, <1>4, <1>5, <1>6, <1>7, <1>8, <1>9, <1>10, <1>11, <1>12
     DEF Next, Network, Program, Context, HandleEvents

-----------------------------------------------------------------------------
(* Sockets. *)

LEMMA SocketStep ==
    ASSUME LinkCounted, WatchingWhatIsThere, SocketsApart, Next
    PROVE  SocketsApart'
<1> USE DEF SocketsApart, SocketsAreOwned, NoFd
<1>1. CASE ConnectTcp
  <2>1. ctx = "off" /\ link = 0 /\ linkFd = NoFd
    BY <1>1 DEF ConnectTcp, WatchingWhatIsThere
  <2>2. open = {udpFd} \ {NoFd} /\ udpFd \in {NoFd, 1, 2}
    BY <2>1
  <2>3. PICK o \in ConnectedStream(open) :
            /\ open' = o.open
            /\ IF o.fd = NoFd THEN UNCHANGED <<drawn, link, linkFd, peer, sent, taken, tcpEvents>>
               ELSE LinkUp(o.fd)
    BY <1>1 DEF ConnectTcp
  <2>4. \/ o.fd = NoFd /\ open' = open
        \/ o.fd \in {1, 2} \ open /\ open' = open \cup {o.fd}
    BY <2>2, <2>3, OneSocketOrNone
  <2>5. UNCHANGED <<udpFd, ctx, main>>
    BY <1>1 DEF ConnectTcp, ctxVars
  <2>6. CASE o.fd = NoFd /\ open' = open
    BY <2>1, <2>2, <2>3, <2>5, <2>6
  <2>7. CASE o.fd \in {1, 2} \ open /\ open' = open \cup {o.fd}
    <3>1. linkFd' = o.fd /\ link' = drawn + 1
      BY <2>3, <2>7 DEF LinkUp
    <3>2. drawn + 1 # 0
      BY DEF LinkCounted
    <3>3. open' = {udpFd, o.fd} \ {NoFd} /\ udpFd # o.fd
      BY <2>2, <2>7
    <3>4. QED
      BY <2>1, <2>2, <2>5, <2>7, <3>1, <3>2, <3>3
  <2>8. QED
    BY <2>4, <2>6, <2>7
<1>2. CASE ConnectUdp \/ HostUdp
  <2>1. ctx = "off" /\ udpFd = NoFd
    BY <1>2 DEF ConnectUdp, HostUdp, WatchingWhatIsThere
  <2>2. open = {linkFd} \ {NoFd} /\ linkFd \in {NoFd, 1, 2}
    BY <2>1
  <2>3. PICK o \in AnyUdp(open) \cup CreatedBound(open) : open' = o.open /\ udpFd' = o.fd
    BY <1>2 DEF ConnectUdp, HostUdp
  <2>4. \/ o.fd = NoFd /\ open' = open
        \/ o.fd \in {1, 2} \ open /\ open' = open \cup {o.fd}
    BY <2>2, <2>3, OneSocketOrNone
  <2>5. UNCHANGED <<link, linkFd, ctx, main>>
    BY <1>2 DEF ConnectUdp, HostUdp, ctxVars, mainVars
  <2>6. CASE o.fd = NoFd /\ open' = open
    BY <2>1, <2>2, <2>3, <2>5, <2>6
  <2>7. CASE o.fd \in {1, 2} \ open /\ open' = open \cup {o.fd}
    <3>1. open' = {o.fd, linkFd} \ {NoFd} /\ linkFd # o.fd
      BY <2>2, <2>7
    <3>2. QED
      BY <2>1, <2>2, <2>3, <2>5, <2>7, <3>1
  <2>8. QED
    BY <2>4, <2>6, <2>7
<1>3. CASE Destroy
  <2>1. ctx = "off" /\ open = {udpFd, linkFd} \ {NoFd}
    BY <1>3 DEF Destroy, WatchingWhatIsThere
  <2>2. open' = {}
    BY <1>3, <2>1 DEF Destroy, Closed
  <2>3. QED
    BY <1>3, <2>2 DEF Destroy
<1>4. CASE FailTcp
  <2>1. ctx = "events" /\ open = {udpFd, linkFd} \ {NoFd}
    BY <1>4 DEF FailTcp, NextEvent
  <2>2. open' = {udpFd} \ {NoFd}
    BY <1>4, <2>1 DEF FailTcp, Closed
  <2>3. QED
    BY <1>4, <2>2 DEF FailTcp, setupVars, mainVars
<1>5. CASE Drop
  <2>1. open = {udpFd} \ {NoFd}
    BY <1>5 DEF Drop
  <2>2. open' = {udpFd} \ {NoFd}
    BY <1>5, <2>1 DEF Drop, Closed
  <2>3. QED
    BY <1>5, <2>2 DEF Drop, mainVars
<1>6. CASE UNCHANGED <<socketVars, link>> /\ ctx # "drop" /\ ctx' # "drop"
  BY <1>6 DEF Next, socketVars
<1>7. CASE UNCHANGED <<socketVars, link, ctx>>
  BY <1>7 DEF Next, socketVars
<1>8. ASSUME Start \/ Poll \/ LeaveLoop \/ RoundDone
      PROVE  UNCHANGED <<socketVars, link>> /\ ctx # "drop" /\ ctx' # "drop"
  <2>1. CASE Start
    BY <2>1 DEF Start, netVars, WatchingWhatIsThere, socketVars
  <2>2. CASE Poll \/ LeaveLoop \/ RoundDone
    BY <2>2 DEF Poll, LeaveLoop, RoundDone, netVars, setupVars, socketVars
  <2>3. QED
    BY <1>8, <2>1, <2>2
<1>9. ASSUME \/ PeerSends \/ (\E how \in {"closed", "reset"} : PeerEnds(how))
             \/ (\E kind \in {"data", "bare"} : DatagramComes(kind))
             \/ Stop \/ SendUdp \/ ReadTcp \/ ReadUdp \/ WriteUdp \/ HandleEvents
      PROVE  UNCHANGED <<socketVars, link, ctx>>
  BY <1>9 DEF PeerSends, PeerEnds, DatagramComes, Stop, SendUdp, ReadTcp, ReadUdp, WriteUdp,
              HandleEvents, OnConnection, OnDisconnection, OnRead, Look, ReadPacket,
              ReadDone, ReadGone, OnUdp, Joined, netVars, setupVars, ctxVars, socketVars
<1>10. QED
  BY <1>1, <1>2, <1>3, <1>4, <1>5, <1>6, <1>7, <1>8, <1>9 DEF Next, Network, Program, Context

-----------------------------------------------------------------------------
(* What the main thread is told. *)

Lifeline == [id \in Links |-> Line(id)]

\* Promise and NoticeProofs are two instances of the same operators.
LEMMA SamePromise ==
    /\ Promise!Ordered <=> NoticeProofs!Ordered
    /\ Promise!Known = NoticeProofs!Known
    /\ \A c \in Links :
           /\ Promise!Up(c) <=> NoticeProofs!Up(c)
           /\ Promise!Read(c) <=> NoticeProofs!Read(c)
           /\ Promise!Down(c) <=> NoticeProofs!Down(c)
           /\ \A k : Promise!Tell(k, c) <=> NoticeProofs!Tell(k, c)
BY DEF Promise!Ordered, NoticeProofs!Ordered, Promise!Known, NoticeProofs!Known,
       Promise!Told, NoticeProofs!Told, Promise!Over, NoticeProofs!Over,
       Promise!Up, NoticeProofs!Up, Promise!Read, NoticeProofs!Read,
       Promise!Down, NoticeProofs!Down, Promise!Tell, NoticeProofs!Tell,
       Promise!Notice, NoticeProofs!Notice, Promise!Kinds, NoticeProofs!Kinds

LEMMA SamePromiseNext ==
    /\ Promise!Ordered' <=> NoticeProofs!Ordered'
    /\ Promise!Known' = NoticeProofs!Known'
BY DEF Promise!Ordered, NoticeProofs!Ordered, Promise!Known, NoticeProofs!Known,
       Promise!Told, NoticeProofs!Told, Promise!Over, NoticeProofs!Over,
       Promise!Notice, NoticeProofs!Notice, Promise!Kinds, NoticeProofs!Kinds

\* What Notices_proofs says of a step.
LEMMA PromiseSteps ==
    ASSUME Promise!Ordered
    PROVE  /\ UNCHANGED <<Lifeline, tcpEvents>> => Promise!Ordered' /\ Promise!Known' = Promise!Known
           /\ \A c \in Links : Promise!Up(c) \/ Promise!Read(c) \/ Promise!Down(c) =>
                  Promise!Ordered' /\ Promise!Known' = Promise!Known
           /\ \A c \in Links, k \in Promise!Kinds : Promise!Tell(k, c) =>
                  /\ Promise!Ordered'
                  /\ k = "connection" => Promise!Known' = Promise!Known \cup {c}
                  /\ k = "disconnection" => Promise!Known' = Promise!Known \ {c}
                  /\ k = "read" => Promise!Known' = Promise!Known
<1>1. ASSUME UNCHANGED <<Lifeline, tcpEvents>>
      PROVE  Promise!Ordered' /\ Promise!Known' = Promise!Known
  BY <1>1 DEF Lifeline, Promise!Ordered, Promise!Known, Promise!Told, Promise!Over
<1>2. NoticeProofs!Ordered /\ Promise!Kinds = NoticeProofs!Kinds
  BY SamePromise DEF Promise!Kinds, NoticeProofs!Kinds
<1>3. ASSUME NEW c \in Links, Promise!Up(c) \/ Promise!Read(c) \/ Promise!Down(c)
      PROVE  Promise!Ordered' /\ Promise!Known' = Promise!Known
  <2>1. NoticeProofs!Up(c) \/ NoticeProofs!Read(c) \/ NoticeProofs!Down(c)
    BY <1>3, SamePromise
  <2>2. NoticeProofs!Next
    BY <2>1 DEF NoticeProofs!Next
  <2>3. NoticeProofs!Ordered'
    BY <1>2, <2>2, NoticeProofs!NextOrdered
  <2>4. NoticeProofs!Known' = NoticeProofs!Known
    BY <1>2, <2>1, NoticeProofs!QueueKeepsKnown
  <2>5. QED
    BY <2>3, <2>4, SamePromise, SamePromiseNext
<1>4. ASSUME NEW c \in Links, NEW k \in Promise!Kinds, Promise!Tell(k, c)
      PROVE  /\ Promise!Ordered'
             /\ k = "connection" => Promise!Known' = Promise!Known \cup {c}
             /\ k = "disconnection" => Promise!Known' = Promise!Known \ {c}
             /\ k = "read" => Promise!Known' = Promise!Known
  <2>1. NoticeProofs!Tell(k, c) /\ k \in NoticeProofs!Kinds
    BY <1>2, <1>4, SamePromise
  <2>2. NoticeProofs!Ordered'
    BY <1>2, <2>1, NoticeProofs!TellOrdered
  <2>3. \/ k = "connection" /\ NoticeProofs!Known' = NoticeProofs!Known \cup {c}
        \/ k = "read" /\ NoticeProofs!Known' = NoticeProofs!Known
        \/ k = "disconnection" /\ NoticeProofs!Known' = NoticeProofs!Known \ {c}
    BY <1>2, <2>1, NoticeProofs!TellKnown
  <2>4. QED
    BY <2>2, <2>3, SamePromise, SamePromiseNext
<1>5. QED
  BY <1>1, <1>3, <1>4

\* The lifelines of the links, by what they are made of.
LEMMA LifelineKept ==
    ASSUME UNCHANGED <<drawn, link>>, ctx' = ctx \/ (ctx # "drop" /\ ctx' # "drop")
    PROVE  UNCHANGED Lifeline
<1>1. \A id : Line(id)' = Line(id)
  BY DEF Line
<1>2. QED
  BY <1>1 DEF Lifeline

\* connect_tcp begins a connection.
LEMMA ConnectTold ==
    ASSUME LinkCounted, WatchingWhatIsThere, ConnectTcp
    PROVE  \/ UNCHANGED <<Lifeline, tcpEvents>>
           \/ \E c \in Links : Promise!Up(c)
<1>1. ctx = "off" /\ ctx' = "off" /\ link = 0 /\ drawn < MaxLinks
  BY DEF ConnectTcp, WatchingWhatIsThere, ctxVars
<1>2. PICK o \in ConnectedStream(open) :
          IF o.fd = NoFd THEN UNCHANGED <<drawn, link, linkFd, peer, sent, taken, tcpEvents>>
          ELSE LinkUp(o.fd)
  BY DEF ConnectTcp
<1>3. CASE o.fd = NoFd
  BY <1>1, <1>2, <1>3, LifelineKept
<1>4. CASE o.fd # NoFd
  <2> DEFINE c == drawn + 1
  <2>1. drawn' = c /\ link' = c /\ tcpEvents' = Append(tcpEvents, Event("connection", c))
    BY <1>2, <1>4 DEF LinkUp
  <2>2. c \in Links /\ drawn \in Nat
    BY <1>1 DEF LinkCounted, Links
  <2>3. \A id \in Links : /\ Line(id) = IF id > drawn THEN "none" ELSE "down"
                          /\ Line(id)' = IF id > c THEN "none" ELSE IF id = c THEN "up" ELSE "down"
    <3>1. \A id \in Links : id \in Nat /\ id # 0
      BY DEF Links
    <3>2. QED
      BY <1>1, <2>1, <2>2, <3>1 DEF Line
  <2>4. \A id \in Links : (id > c <=> id > drawn /\ id # c)
    BY <2>2 DEF Links
  <2>5. Line(c) = "none"
    BY <2>2, <2>3
  <2>6. [id \in Links |-> Line(id)]' = [[id \in Links |-> Line(id)] EXCEPT ![c] = "up"]
    BY <2>2, <2>3, <2>4
  <2>7. Promise!Up(c)
    BY <2>1, <2>2, <2>5, <2>6 DEF Promise!Up, Promise!Notice, Event
  <2>8. QED
    BY <2>2, <2>7
<1>5. QED
  BY <1>3, <1>4

\* A read is of the connection there is ...
LEMMA ReadTold ==
    ASSUME LinkCounted, WatchingWhatIsThere, ReadTcp
    PROVE  \/ UNCHANGED <<Lifeline, tcpEvents>>
           \/ \E c \in Links : Promise!Read(c)
<1>1. link # 0 /\ ctx = "events"
  BY EventTaken DEF ReadTcp, NextEvent, Both
<1>2. UNCHANGED <<drawn, link, ctx>>
  BY DEF ReadTcp, setupVars
<1>3. UNCHANGED Lifeline
  BY <1>2, LifelineKept
<1>4. tcpEvents' = tcpEvents \/ tcpEvents' = Append(tcpEvents, Event("read", link))
  BY DEF ReadTcp
<1>5. link \in Links /\ Line(link) = "up"
  BY <1>1 DEF LinkCounted, Links, Line
<1>6. CASE tcpEvents' = Append(tcpEvents, Event("read", link))
  <2>1. Promise!Read(link)
    BY <1>3, <1>5, <1>6 DEF Promise!Read, Promise!Notice, Event, Lifeline
  <2>2. QED
    BY <1>5, <2>1
<1>7. QED
  BY <1>3, <1>4, <1>6

\* ... and an error ends it.
LEMMA FailTold ==
    ASSUME LinkCounted, WatchingWhatIsThere, FailTcp
    PROVE  \E c \in Links : Promise!Down(c)
<1>1. link # 0 /\ ctx = "events"
  BY EventTaken DEF FailTcp, NextEvent, Both
<1>2. /\ UNCHANGED <<drawn, link>> /\ ctx' = "drop"
      /\ tcpEvents' = Append(tcpEvents, Event("disconnection", link))
  BY DEF FailTcp, setupVars
<1>3. link \in Links /\ link <= drawn /\ drawn \in Nat
  BY <1>1 DEF LinkCounted, Links
<1>4. \A id \in Links : Line(id)' = IF id = link THEN "down" ELSE Line(id)
  <2> TAKE id \in Links
  <2>1. ctx # "drop" /\ ctx' = "drop" /\ drawn' = drawn /\ link' = link /\ id \in Nat
    BY <1>1, <1>2 DEF Links
  <2>2. Line(id)' = IF id > drawn THEN "none" ELSE "down"
    BY <2>1 DEF Line
  <2>3. id = link => ~(id > drawn)
    BY <1>3, <2>1
  <2>4. Line(id) = IF id > drawn THEN "none" ELSE IF id = link THEN "up" ELSE "down"
    BY <2>1, <2>3 DEF Line
  <2>5. QED
    BY <2>2, <2>3, <2>4
<1>5. Line(link) = "up"
  BY <1>1, <1>3 DEF Line
<1>6. [id \in Links |-> Line(id)]' = [[id \in Links |-> Line(id)] EXCEPT ![link] = "down"]
  BY <1>3, <1>4
<1>7. Promise!Down(link)
  BY <1>2, <1>3, <1>5, <1>6 DEF Promise!Down, Promise!Notice, Event
<1>8. QED
  BY <1>3, <1>7

\* The reset after it changes nothing: the line is down by then.
LEMMA DropTold ==
    ASSUME LinkCounted, WatchingWhatIsThere, Drop
    PROVE  UNCHANGED <<Lifeline, tcpEvents>>
<1>1. ctx = "drop" /\ ctx' = "events" /\ link' = 0 /\ UNCHANGED <<drawn, tcpEvents>>
  BY DEF Drop
<1>2. \A id \in Links : Line(id)' = Line(id)
  <2>1. \A id \in Links : id # 0
    BY DEF Links
  <2>2. QED
    BY <1>1, <2>1 DEF Line
<1>3. QED
  BY <1>1, <1>2 DEF Lifeline

\* Every step is one the promise allows, and _clients goes with it.
LEMMA StepTold ==
    ASSUME LinkCounted, WatchingWhatIsThere, Promise!Ordered, Next
    PROVE  \/ UNCHANGED <<Lifeline, tcpEvents>> /\ clients' = clients
           \/ \E c \in Links :
                  (Promise!Up(c) \/ Promise!Read(c) \/ Promise!Down(c)) /\ clients' = clients
           \/ \E c \in Links, k \in Promise!Kinds :
                  /\ Promise!Tell(k, c)
                  /\ clients' = CASE k = "connection" -> clients \cup {c}
                                  [] k = "disconnection" -> clients \ {c}
                                  [] k = "read" -> clients
<1>1. CASE ConnectTcp
  BY <1>1, ConnectTold DEF ConnectTcp
<1>2. CASE ReadTcp
  BY <1>2, ReadTold DEF ReadTcp, mainVars
<1>3. CASE FailTcp
  BY <1>3, FailTold DEF FailTcp, mainVars
<1>4. CASE Drop
  BY <1>4, DropTold DEF Drop, mainVars
<1>5. ASSUME NEW k \in {"connection", "disconnection", "read"}, NextTcp(k),
             UNCHANGED <<setupVars, ctxVars>>,
             clients' = CASE k = "connection" -> clients \cup {Head(tcpEvents).id}
                          [] k = "disconnection" -> clients \ {Head(tcpEvents).id}
                          [] k = "read" -> clients
      PROVE  \E c \in Links, l \in Promise!Kinds :
                  /\ Promise!Tell(l, c)
                  /\ clients' = CASE l = "connection" -> clients \cup {c}
                                  [] l = "disconnection" -> clients \ {c}
                                  [] l = "read" -> clients
  <2> DEFINE c == Head(tcpEvents).id
  <2>1. c \in Links /\ k \in Promise!Kinds /\ Head(tcpEvents) = Promise!Notice(k, c)
    BY <1>5, FirstTold
  <2>2. UNCHANGED Lifeline
    BY <1>5, LifelineKept DEF setupVars, ctxVars
  <2>3. tcpEvents # <<>> /\ tcpEvents' = Tail(tcpEvents)
    BY <1>5 DEF NextTcp
  <2>4. Promise!Tell(k, c)
    BY <2>1, <2>2, <2>3 DEF Promise!Tell, Lifeline
  <2>5. QED
    BY <1>5, <2>1, <2>4
<1>6. CASE OnConnection
  <2> DEFINE k == "connection"
  <2>1. k \in {"connection", "disconnection", "read"} /\ NextTcp(k)
        /\ UNCHANGED <<setupVars, ctxVars>>
        /\ clients' = clients \cup {Head(tcpEvents).id}
    BY <1>6 DEF OnConnection
  <2>2. QED
    BY <1>5, <2>1
<1>7. CASE OnDisconnection
  <2>1. NextTcp("disconnection") /\ UNCHANGED <<setupVars, ctxVars>>
        /\ clients' = clients \ {Head(tcpEvents).id}
    BY <1>7 DEF OnDisconnection
  <2>2. QED
    BY <1>5, <2>1
<1>8. CASE OnRead
  <2>1. NextTcp("read") /\ UNCHANGED <<setupVars, ctxVars>> /\ clients' = clients
    BY <1>8 DEF OnRead
  <2>2. QED
    BY <1>5, <2>1
<1>9. CASE /\ UNCHANGED <<drawn, link, tcpEvents, clients>>
           /\ ctx' = ctx \/ (ctx # "drop" /\ ctx' # "drop")
  BY <1>9, LifelineKept
<1>10. ASSUME \/ Network \/ ConnectUdp \/ HostUdp \/ Start \/ Stop \/ SendUdp \/ Destroy
              \/ Poll \/ LeaveLoop \/ ReadUdp \/ WriteUdp \/ RoundDone
              \/ Look \/ ReadPacket \/ ReadDone \/ ReadGone \/ OnUdp \/ Joined
       PROVE  /\ UNCHANGED <<drawn, link, tcpEvents, clients>>
              /\ ctx' = ctx \/ (ctx # "drop" /\ ctx' # "drop")
  <2>1. CASE Start
    BY <2>1 DEF Start, netVars, sharedVars, mainVars, WatchingWhatIsThere
  <2>2. CASE \/ Network \/ ConnectUdp \/ HostUdp \/ Stop \/ SendUdp \/ Destroy
             \/ Look \/ ReadPacket \/ ReadDone \/ ReadGone \/ OnUdp \/ Joined
    BY <2>2 DEF Network, PeerSends, PeerEnds, DatagramComes, ConnectUdp, HostUdp, Stop, SendUdp,
                Destroy, Look, ReadPacket, ReadDone, ReadGone, OnUdp, Joined,
                setupVars, ctxVars, sharedVars, mainVars
  <2>3. CASE Poll \/ LeaveLoop \/ ReadUdp \/ WriteUdp \/ RoundDone
    BY <2>3 DEF Poll, LeaveLoop, ReadUdp, WriteUdp, RoundDone, NextEvent,
                setupVars, sharedVars, mainVars
  <2>4. QED
    BY <1>10, <2>1, <2>2, <2>3
<1>11. QED
  BY <1>1, <1>2, <1>3, <1>4, <1>6, <1>7, <1>8, <1>9, <1>10
     DEF Next, Program, Context, HandleEvents

LEMMA ToldStep ==
    ASSUME LinkCounted, WatchingWhatIsThere, ToldInTurn, Next
    PROVE  ToldInTurn'
<1>1. Promise!Ordered /\ clients = Promise!Known
  BY DEF ToldInTurn, ClientsFollowLink
<1>2. CASE UNCHANGED <<Lifeline, tcpEvents>> /\ clients' = clients
  BY <1>1, <1>2, PromiseSteps DEF ToldInTurn, ClientsFollowLink
<1>3. ASSUME NEW c \in Links, Promise!Up(c) \/ Promise!Read(c) \/ Promise!Down(c), clients' = clients
      PROVE  ToldInTurn'
  BY <1>1, <1>3, PromiseSteps DEF ToldInTurn, ClientsFollowLink
<1>4. ASSUME NEW c \in Links, NEW k \in Promise!Kinds, Promise!Tell(k, c),
             clients' = CASE k = "connection" -> clients \cup {c}
                          [] k = "disconnection" -> clients \ {c}
                          [] k = "read" -> clients
      PROVE  ToldInTurn'
  <2>1. /\ Promise!Ordered'
        /\ k = "connection" => Promise!Known' = Promise!Known \cup {c}
        /\ k = "disconnection" => Promise!Known' = Promise!Known \ {c}
        /\ k = "read" => Promise!Known' = Promise!Known
    BY <1>1, <1>4, PromiseSteps
  <2>2. k = "connection" \/ k = "disconnection" \/ k = "read"
    BY DEF Promise!Kinds
  <2>3. clients' = Promise!Known'
    BY <1>1, <1>4, <2>1, <2>2
  <2>4. QED
    BY <2>1, <2>3 DEF ToldInTurn, ClientsFollowLink
<1>5. QED
  BY <1>1, <1>2, <1>3, <1>4, StepTold

-----------------------------------------------------------------------------
LEMMA NextInv == LinkInv /\ [Next]_vars => LinkInv'
<1> SUFFICES ASSUME LinkInv, [Next]_vars PROVE LinkInv'
  OBVIOUS
<1>1. CASE Next
  BY <1>1, LinkStep, DatagramStep, WatchStep, SocketStep, ToldStep DEF LinkInv
<1>2. CASE UNCHANGED vars
  <2>1. Promise!Ordered' /\ Promise!Known' = Promise!Known
    <3>1. UNCHANGED <<Lifeline, tcpEvents>>
      BY <1>2, LifelineKept DEF vars, setupVars, ctxVars, sharedVars
    <3>2. QED
      BY <3>1, PromiseSteps DEF LinkInv, ToldInTurn
  <2>2. ToldInTurn'
    BY <1>2, <2>1 DEF LinkInv, ToldInTurn, ClientsFollowLink, vars, mainVars
  <2>3. LinkCounted' /\ ReadingWhatIsThere' /\ DatagramsCounted'
    BY <1>2 DEF LinkInv, LinkCounted, ReadingWhatIsThere, DatagramsCounted,
                vars, netVars, setupVars, sharedVars, mainVars
  <2>4. WatchingWhatIsThere' /\ SocketsApart'
    BY <1>2 DEF LinkInv, WatchingWhatIsThere, SocketsApart, SocketsAreOwned,
                vars, netVars, setupVars, ctxVars, sharedVars, mainVars
  <2>5. QED
    BY <2>2, <2>3, <2>4 DEF LinkInv
<1>3. QED
  BY <1>1, <1>2

\* The inductive invariant: over any number of links, runs of the context,
\* packets and datagrams, and whatever calls fail, each part of the client is
\* where the others take it to be.
THEOREM ClientInvariant == Spec => []LinkInv
BY InitInv, NextInv, PTL DEF Spec

\* What the variables hold: no packet and no datagram is made up, and the
\* buffer never holds more than its capacity.
THEOREM ClientIsTyped == Spec => []TypeOK
<1>1. LinkInv => TypeOK
  <2> SUFFICES ASSUME LinkInv PROVE TypeOK
    OBVIOUS
  <2>1. watched \in Seq([fd : {"udp", "tcp"}, events : SUBSET {In, Out}])
    <3>1. watched \in Seq(Entry(Both)) /\ Entry(Both) \subseteq [fd : {"udp", "tcp"}, events : SUBSET {In, Out}]
      BY DEF LinkInv, WatchingWhatIsThere, OneEach, Entry, Both
    <3> HIDE DEF LinkInv
    <3>2. QED
      BY <3>1, SeqGrows
  <2>2. events \in Seq([fd : {"udp", "tcp"}, type : {"read", "write", "error"}])
    BY DEF LinkInv, WatchingWhatIsThere, Events, Both
  <2>3. tcpEvents \in Seq([kind : {"connection", "disconnection", "read"}, id : Links])
    <3>1. Promise!Kinds = {"connection", "disconnection", "read"}
      BY DEF Promise!Kinds
    <3>2. QED
      BY <3>1 DEF LinkInv, ToldInTurn, Promise!Ordered
  <2>4. clients \subseteq Links
    BY DEF LinkInv, ToldInTurn, ClientsFollowLink, Promise!Known
  <2>5. open \subseteq {1, 2} /\ {linkFd, udpFd} \subseteq {NoFd, 1, 2}
    BY DEF LinkInv, SocketsApart, SocketsAreOwned
  <2>6. running \in BOOLEAN
    BY DEF LinkInv, WatchingWhatIsThere
  <2>7. /\ ctx \in {"off", "top", "events", "drop"} /\ starts \in 0 .. MaxStarts
        /\ received + seen <= came /\ came \in 0 .. MaxDatagrams
        /\ inbox \in {<<>>, <<"data">>, <<"bare">>}
        /\ sends <= asked /\ asked \in 0 .. MaxDatagrams
    BY DEF LinkInv, WatchingWhatIsThere, DatagramsCounted
  <2>8. QED
    BY <2>1, <2>2, <2>3, <2>4, <2>5, <2>6, <2>7
       DEF LinkInv, LinkCounted, ReadingWhatIsThere, TypeOK
<1>2. QED
  BY <1>1, ClientInvariant, PTL

\* The server has exactly its own sockets open, whatever calls fail and however
\* often a link is reset, closed twice and made again.
THEOREM SocketsStayOwned == Spec => []SocketsAreOwned
<1>1. LinkInv => SocketsAreOwned
  BY DEF LinkInv, SocketsApart
<1>2. QED
  BY <1>1, ClientInvariant, PTL

\* _clients of net::Server is the connection it was told of and not yet told
\* the end of.
THEOREM ClientFollowsLink == Spec => []ClientsFollowLink
<1>1. LinkInv => ClientsFollowLink
  BY DEF LinkInv, ToldInTurn
<1>2. QED
  BY <1>1, ClientInvariant, PTL

\* The client keeps the promise of BaseServer for each connection it makes:
\* every step is one of Notices or changes nothing it talks of.
THEOREM ClientKeepsPromise == Spec => KeepsPromise
<1>1. Init => Promise!Init
  <2> SUFFICES ASSUME Init PROVE Promise!Init
    OBVIOUS
  <2>1. \A id \in Links : Line(id) = "none"
    BY DEF Init, Links, Line
  <2>2. QED
    BY <2>1 DEF Init, Promise!Init
<1>2. LinkInv /\ [Next]_vars => [Promise!Next]_(Promise!vars)
  <2> SUFFICES ASSUME LinkInv, [Next]_vars PROVE Promise!Next \/ UNCHANGED Promise!vars
    OBVIOUS
  <2>1. LinkCounted /\ WatchingWhatIsThere /\ Promise!Ordered
    BY DEF LinkInv, ToldInTurn
  <2>2. CASE Next
    <3>1. \/ UNCHANGED <<Lifeline, tcpEvents>>
          \/ \E c \in Links : Promise!Up(c) \/ Promise!Read(c) \/ Promise!Down(c)
          \/ \E c \in Links, k \in Promise!Kinds : Promise!Tell(k, c)
      BY <2>1, <2>2, StepTold
    <3>2. QED
      BY <3>1 DEF Lifeline, Promise!Next, Promise!vars
  <2>3. CASE UNCHANGED vars
    <3>1. UNCHANGED <<Lifeline, tcpEvents>>
      BY <2>3, LifelineKept DEF vars, setupVars, ctxVars, sharedVars
    <3>2. QED
      BY <3>1 DEF Lifeline, Promise!vars
  <2>4. QED
    BY <2>2, <2>3
<1>3. QED
  BY <1>1, <1>2, ClientInvariant, PTL DEF Spec, KeepsPromise, Promise!Spec
=============================================================================
