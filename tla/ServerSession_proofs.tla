------------------------ MODULE ServerSession_proofs ------------------------
(***************************************************************************)
(* What net::Server's linking of UDP addresses rests on, for any hosts and *)
(* any number of sessions: every address it links is that of the host that *)
(* was asked, its cache and its client list agree both ways, and the       *)
(* std::map it caches them in has one key for each address.                *)
(***************************************************************************)
EXTENDS ServerSession, TLAPS

TcpProofs == INSTANCE Notices_proofs WITH Lines <- Sessions

-----------------------------------------------------------------------------
(* Addresses: what std::map needs of them, for all of them.  Its order is a  *)
(* strict order which takes two addresses for one key only when they are the *)
(* same, and an address comes back unchanged from the kernel.                *)

\* The octets of an address are bytes.
LEMMA OctetsAreBytes ==
    ASSUME NEW ip \in [1 .. 4 -> Octets], NEW i \in 1 .. 4
    PROVE  ip[i] \in Int /\ 0 <= ip[i] /\ ip[i] <= 255
<1>1. ip[i] \in Octets
  OBVIOUS
<1>2. QED
  BY <1>1 DEF Octets

LEMMA FourOctets ==
    ASSUME NEW ip \in [1 .. 4 -> Octets]
    PROVE  /\ ip[1] \in Int /\ 0 <= ip[1] /\ ip[1] <= 255
           /\ ip[2] \in Int /\ 0 <= ip[2] /\ ip[2] <= 255
           /\ ip[3] \in Int /\ 0 <= ip[3] /\ ip[3] <= 255
           /\ ip[4] \in Int /\ 0 <= ip[4] /\ ip[4] <= 255
<1>1. 1 \in 1 .. 4 /\ 2 \in 1 .. 4 /\ 3 \in 1 .. 4 /\ 4 \in 1 .. 4
  OBVIOUS
<1>2. QED
  BY <1>1, OctetsAreBytes

\* Four bytes make different words unless they are the same.
LEMMA LastByte ==
    ASSUME NEW m \in Int, NEW n \in Int, NEW i \in Int, NEW j \in Int,
           0 <= i, i <= 255, 0 <= j, j <= 255,
           m * 256 + i = n * 256 + j
    PROVE  m = n /\ i = j
OBVIOUS

\* The 32 bits of an IPv4 address are a natural number ...
LEMMA WordIsNatural ==
    ASSUME NEW ip \in [1 .. 4 -> Octets]
    PROVE  Word(ip) \in Nat
BY FourOctets DEF Word, Number4

\* ... and determine its four octets.
LEMMA WordsDiffer ==
    ASSUME NEW ip \in [1 .. 4 -> Octets], NEW jp \in [1 .. 4 -> Octets],
           Word(ip) = Word(jp)
    PROVE  ip = jp
<1> USE FourOctets
<1> DEFINE Two(f) == f[1] * 256 + f[2]
           Three(f) == Two(f) * 256 + f[3]
<1>1. /\ Two(ip) \in Int /\ Two(jp) \in Int
      /\ Three(ip) \in Int /\ Three(jp) \in Int
  OBVIOUS
<1>2. Three(ip) * 256 + ip[4] = Three(jp) * 256 + jp[4]
  BY DEF Word, Number4
<1>3. Three(ip) = Three(jp) /\ ip[4] = jp[4]
  <2> HIDE DEF Three
  <2> QED
    BY <1>1, <1>2, LastByte
<1>4. Two(ip) = Two(jp) /\ ip[3] = jp[3]
  <2> HIDE DEF Two
  <2> QED
    BY <1>1, <1>3, LastByte
<1>5. ip[1] = jp[1] /\ ip[2] = jp[2]
  BY <1>1, <1>4, LastByte
<1>6. \A i \in 1 .. 4 : ip[i] = jp[i]
  <2> TAKE i \in 1 .. 4
  <2>1. i = 1 \/ i = 2 \/ i = 3 \/ i = 4
    OBVIOUS
  <2> QED
    BY <1>3, <1>4, <1>5, <2>1
<1>7. QED
  BY <1>6

\* A map of IPv4 addresses has one key for each address, so that two sockets
\* never share what is cached for them.
THEOREM OneKeyPerAddressV4 ==
    ASSUME NEW a \in SocketAddrV4, NEW b \in SocketAddrV4
    PROVE  SameKey(a, b) <=> a = b
<1>1. /\ a.family = 4 /\ a.ip \in [1 .. 4 -> Octets] /\ a.port \in Int
      /\ b.family = 4 /\ b.ip \in [1 .. 4 -> Octets] /\ b.port \in Int
  <2>1. Ports \subseteq Int
    BY DEF Ports
  <2>2. QED
    BY <2>1 DEF SocketAddrV4
<1>2. Word(a.ip) \in Int /\ Word(b.ip) \in Int
  BY <1>1, WordIsNatural
<1>3. SameKey(a, b) <=> Word(a.ip) = Word(b.ip) /\ a.port = b.port
  BY <1>1, <1>2 DEF SameKey, Less, V4Less
<1>4. Word(a.ip) = Word(b.ip) <=> a.ip = b.ip
  BY <1>1, WordsDiffer
<1>5. a.ip = b.ip /\ a.port = b.port <=> a = b
  BY DEF SocketAddrV4
<1>6. QED
  BY <1>3, <1>4, <1>5

\* The order of IPv4 addresses is a strict order: nothing precedes itself, and
\* what precedes what precedes an address precedes it.
THEOREM StrictOrderV4 ==
    ASSUME NEW a \in SocketAddrV4, NEW b \in SocketAddrV4, NEW c \in SocketAddrV4
    PROVE  ~Less(a, a) /\ (Less(a, b) /\ Less(b, c) => Less(a, c))
<1>1. \A x \in SocketAddrV4 : x.family = 4 /\ x.port \in Int /\ Word(x.ip) \in Int
  <2> TAKE x \in SocketAddrV4
  <2>1. x.family = 4 /\ x.port \in Ports /\ x.ip \in [1 .. 4 -> Octets]
    BY DEF SocketAddrV4
  <2>2. Ports \subseteq Int /\ Nat \subseteq Int
    BY DEF Ports
  <2>3. Word(x.ip) \in Nat
    BY <2>1, WordIsNatural
  <2>4. QED
    BY <2>1, <2>2, <2>3, Zenon
<1>2. QED
  BY <1>1 DEF Less, V4Less

-----------------------------------------------------------------------------
(* IPv6. *)

LEMMA PartsV6 ==
    ASSUME NEW a \in SocketAddrV6
    PROVE  /\ a.family = 6
           /\ a.ip \in [1 .. 8 -> Int]
           /\ a.port \in Int /\ a.flowinfo \in Int /\ a.scope \in Int
<1>1. Ports \subseteq Int /\ Segments \subseteq Int /\ Nat \subseteq Int
  BY DEF Ports, Segments
<1>2. QED
  BY <1>1 DEF SocketAddrV6

\* Segments that do not precede each other are the same: their first
\* difference would decide.
LEMMA SegmentsAreOrdered ==
    ASSUME NEW s \in [1 .. 8 -> Int], NEW t \in [1 .. 8 -> Int],
           ~SegmentsLess(s, t), ~SegmentsLess(t, s)
    PROVE  s = t
<1> DEFINE Same(i) == s[i] = t[i]
<1>1. \A i \in 1 .. 8 : (\A j \in 1 .. i - 1 : Same(j)) => Same(i)
  <2> SUFFICES ASSUME NEW i \in 1 .. 8, \A j \in 1 .. i - 1 : s[j] = t[j]
               PROVE  s[i] = t[i]
    OBVIOUS
  <2>1. ~(s[i] < t[i]) /\ ~(t[i] < s[i])
    BY DEF SegmentsLess
  <2>2. s[i] \in Int /\ t[i] \in Int
    OBVIOUS
  <2>3. QED
    BY <2>1, <2>2
<1> HIDE DEF Same
<1>2. Same(1) BY <1>1
<1>3. Same(2) BY <1>1, <1>2
<1>4. Same(3) BY <1>1, <1>2, <1>3
<1>5. Same(4) BY <1>1, <1>2, <1>3, <1>4
<1>6. Same(5) BY <1>1, <1>2, <1>3, <1>4, <1>5
<1>7. Same(6) BY <1>1, <1>2, <1>3, <1>4, <1>5, <1>6
<1>8. Same(7) BY <1>1, <1>2, <1>3, <1>4, <1>5, <1>6, <1>7
<1>9. Same(8) BY <1>1, <1>2, <1>3, <1>4, <1>5, <1>6, <1>7, <1>8
<1>10. \A i \in 1 .. 8 : Same(i)
  BY <1>2, <1>3, <1>4, <1>5, <1>6, <1>7, <1>8, <1>9
<1>11. QED
  BY <1>10 DEF Same

LEMMA SegmentsIrreflexive ==
    ASSUME NEW s \in [1 .. 8 -> Int]
    PROVE  ~SegmentsLess(s, s)
BY DEF SegmentsLess

LEMMA SegmentsTransitive ==
    ASSUME NEW s \in [1 .. 8 -> Int], NEW t \in [1 .. 8 -> Int], NEW u \in [1 .. 8 -> Int],
           SegmentsLess(s, t), SegmentsLess(t, u)
    PROVE  SegmentsLess(s, u)
<1>1. PICK i \in 1 .. 8 : s[i] < t[i] /\ \A j \in 1 .. i - 1 : s[j] = t[j]
  BY DEF SegmentsLess
<1>2. PICK k \in 1 .. 8 : t[k] < u[k] /\ \A j \in 1 .. k - 1 : t[j] = u[j]
  BY DEF SegmentsLess
<1>3. \A j \in 1 .. 8 : s[j] \in Int /\ t[j] \in Int /\ u[j] \in Int
  OBVIOUS
<1>4. CASE i < k
  <2>1. i \in 1 .. k - 1 /\ t[i] = u[i]
    BY <1>2, <1>4
  <2>2. \A j \in 1 .. i - 1 : j \in 1 .. k - 1
    BY <1>4
  <2>3. QED
    BY <1>1, <1>2, <2>1, <2>2 DEF SegmentsLess
<1>5. CASE i = k
  <2>1. s[i] < u[i]
    BY <1>1, <1>2, <1>3, <1>5
  <2>2. QED
    BY <1>1, <1>2, <1>5, <2>1 DEF SegmentsLess
<1>6. CASE k < i
  <2>1. k \in 1 .. i - 1 /\ s[k] = t[k]
    BY <1>1, <1>6
  <2>2. \A j \in 1 .. k - 1 : j \in 1 .. i - 1
    BY <1>6
  <2>3. QED
    BY <1>1, <1>2, <2>1, <2>2 DEF SegmentsLess
<1>7. QED
  BY <1>4, <1>5, <1>6

\* A map of IPv6 addresses, too, has one key for each address, its flowinfo
\* and its scope included.
THEOREM OneKeyPerAddressV6 ==
    ASSUME NEW a \in SocketAddrV6, NEW b \in SocketAddrV6
    PROVE  SameKey(a, b) <=> a = b
<1>1. SameKey(a, b) <=> ~V6Less(a, b) /\ ~V6Less(b, a)
  BY PartsV6 DEF SameKey, Less
<1>2. ASSUME SameKey(a, b) PROVE a = b
  <2>1. a.ip = b.ip
    BY <1>1, <1>2, PartsV6, SegmentsAreOrdered DEF V6Less
  <2>2. a.port = b.port
    BY <1>1, <1>2, <2>1, PartsV6 DEF V6Less
  <2>3. a.flowinfo = b.flowinfo
    BY <1>1, <1>2, <2>1, <2>2, PartsV6 DEF V6Less
  <2>4. a.scope = b.scope
    BY <1>1, <1>2, <2>1, <2>2, <2>3, PartsV6 DEF V6Less
  <2>5. QED
    BY <2>1, <2>2, <2>3, <2>4 DEF SocketAddrV6
<1>3. ASSUME a = b PROVE SameKey(a, b)
  BY <1>1, <1>3, PartsV6, SegmentsIrreflexive DEF V6Less
<1>4. QED
  BY <1>2, <1>3

\* The order of IPv6 addresses is a strict order.
THEOREM StrictOrderV6 ==
    ASSUME NEW a \in SocketAddrV6, NEW b \in SocketAddrV6, NEW c \in SocketAddrV6
    PROVE  ~Less(a, a) /\ (Less(a, b) /\ Less(b, c) => Less(a, c))
<1>1. \A x, y \in SocketAddrV6 : Less(x, y) <=> V6Less(x, y)
  BY PartsV6 DEF Less
<1>2. ~V6Less(a, a)
  BY PartsV6, SegmentsIrreflexive DEF V6Less
<1>3. ASSUME V6Less(a, b), V6Less(b, c) PROVE V6Less(a, c)
  <2>1. CASE SegmentsLess(a.ip, b.ip) /\ SegmentsLess(b.ip, c.ip)
    BY <2>1, PartsV6, SegmentsTransitive DEF V6Less
  <2>2. CASE SegmentsLess(a.ip, b.ip) /\ b.ip = c.ip
    BY <2>2 DEF V6Less
  <2>3. CASE a.ip = b.ip /\ SegmentsLess(b.ip, c.ip)
    BY <2>3 DEF V6Less
  <2>4. CASE ~SegmentsLess(a.ip, b.ip) /\ ~SegmentsLess(b.ip, c.ip)
    BY <1>3, <2>4, PartsV6 DEF V6Less
  <2>5. QED
    BY <1>3, <2>1, <2>2, <2>3, <2>4 DEF V6Less
<1>4. QED
  BY <1>1, <1>2, <1>3

-----------------------------------------------------------------------------
(* To the kernel and back. *)

LEMMA BytesAreBytes ==
    ASSUME NEW n \in Nat
    PROVE  n = 256 * (n \div 256) + (n % 256) /\ n % 256 \in 0 .. 255
OBVIOUS

\* The bytes of a number are those it was made of.
LEMMA BytesOfTwo ==
    ASSUME NEW i \in Octets, NEW j \in Octets
    PROVE  LowByte(Number2(i, j)) = j /\ SecondByte(Number2(i, j)) = i
BY DEF LowByte, SecondByte, ByteAt, Number2, Octets

LEMMA BytesOfFour ==
    ASSUME NEW i \in Octets, NEW j \in Octets, NEW k \in Octets, NEW l \in Octets
    PROVE  /\ LowByte(Number4(i, j, k, l)) = l /\ SecondByte(Number4(i, j, k, l)) = k
           /\ ThirdByte(Number4(i, j, k, l)) = j /\ HighByte(Number4(i, j, k, l)) = i
<1> DEFINE n == ((i * 256 + j) * 256 + k) * 256 + l
<1>1. LowByte(n) = l
  BY SMTT(30) DEF LowByte, ByteAt, Octets
<1>2. SecondByte(n) = k
  <2>1. n \div 256 = (i * 256 + j) * 256 + k
    BY SMTT(30) DEF Octets
  <2>2. QED
    BY <2>1, SMTT(30) DEF SecondByte, ByteAt, Octets
<1>3. ThirdByte(n) = j
  <2>1. n \div 65536 = i * 256 + j
    BY SMTT(30) DEF Octets
  <2>2. QED
    BY <2>1, SMTT(30) DEF ThirdByte, ByteAt, Octets
<1>4. HighByte(n) = i
  <2>1. n \div 16777216 = i
    BY SMTT(30) DEF Octets
  <2>2. QED
    BY <2>1, SMTT(30) DEF HighByte, ByteAt, Octets
<1>5. QED
  BY <1>1, <1>2, <1>3, <1>4 DEF Number4

\* htonl and htons turn the bytes around, and Ipv4Addr(uint32_t) takes the low
\* one first.
LEMMA HtonsOfTwo ==
    ASSUME NEW i \in Octets, NEW j \in Octets
    PROVE  Htons(Number2(i, j)) = Number2(j, i)
BY BytesOfTwo DEF Htons

LEMMA HtonlOfFour ==
    ASSUME NEW i \in Octets, NEW j \in Octets, NEW k \in Octets, NEW l \in Octets
    PROVE  Htonl(Number4(i, j, k, l)) = Number4(l, k, j, i)
<1>1. /\ LowByte(Number4(i, j, k, l)) = l /\ SecondByte(Number4(i, j, k, l)) = k
      /\ ThirdByte(Number4(i, j, k, l)) = j /\ HighByte(Number4(i, j, k, l)) = i
  BY BytesOfFour
<1>2. QED
  BY <1>1 DEF Htonl

LEMMA FromWordOfFour ==
    ASSUME NEW i \in Octets, NEW j \in Octets, NEW k \in Octets, NEW l \in Octets
    PROVE  FromWord(Number4(l, k, j, i)) = <<i, j, k, l>>
<1>1. /\ LowByte(Number4(l, k, j, i)) = i /\ SecondByte(Number4(l, k, j, i)) = j
      /\ ThirdByte(Number4(l, k, j, i)) = k /\ HighByte(Number4(l, k, j, i)) = l
  BY BytesOfFour
<1>2. QED
  BY <1>1 DEF FromWord

\* htons is undone by ntohs.
LEMMA PortComesBack ==
    ASSUME NEW p \in Ports
    PROVE  Htons(Htons(p)) = p
<1>1. p \div 256 \in Octets /\ p % 256 \in Octets
  <2>1. p \in Nat /\ p <= 65535
    BY DEF Ports
  <2>2. p \div 256 \in Int /\ 0 <= p \div 256 /\ p \div 256 <= 255
    BY <2>1
  <2>3. QED
    BY <2>1, <2>2, BytesAreBytes DEF Octets
<1>2. p = (p \div 256) * 256 + (p % 256)
  BY BytesAreBytes DEF Ports
<1>3. PICK i \in Octets, j \in Octets : p = Number2(i, j)
  BY <1>1, <1>2, Zenon DEF Number2
<1>4. QED
  BY <1>3, HtonsOfTwo

\* So is what to_uint32_t and htonl make of an IPv4 address.
LEMMA WordComesBack ==
    ASSUME NEW ip \in [1 .. 4 -> Octets]
    PROVE  FromWord(Htonl(Word(ip))) = ip
<1>1. ip[1] \in Octets /\ ip[2] \in Octets /\ ip[3] \in Octets /\ ip[4] \in Octets
  OBVIOUS
<1>2. Htonl(Word(ip)) = Number4(ip[4], ip[3], ip[2], ip[1])
  BY <1>1, HtonlOfFour DEF Word
<1>3. FromWord(Number4(ip[4], ip[3], ip[2], ip[1])) = <<ip[1], ip[2], ip[3], ip[4]>>
  BY <1>1, FromWordOfFour
<1>4. <<ip[1], ip[2], ip[3], ip[4]>> = ip
  OBVIOUS
<1>5. QED
  BY <1>2, <1>3, <1>4

\* A datagram comes from the address its sender is reached under: an IPv4
\* address is the same after initialize_address and address_from_sockaddr,
\* octet by octet and with its port.
THEOREM AddressesComeBackV4 ==
    ASSUME NEW a \in SocketAddrV4
    PROVE  FromSockaddr(ToSockaddr(a)) = a
<1>1. a.family = 4 /\ a.ip \in [1 .. 4 -> Octets] /\ a.port \in Ports
  BY DEF SocketAddrV4
<1>2. FromSockaddr(ToSockaddr(a)) =
          V4(FromWord(Htonl(Word(a.ip))), Htons(Htons(a.port)))
  BY <1>1 DEF FromSockaddr, ToSockaddr
<1>3. FromSockaddr(ToSockaddr(a)) = V4(a.ip, a.port)
  BY <1>1, <1>2, PortComesBack, WordComesBack
<1>4. a = V4(a.ip, a.port)
  BY DEF SocketAddrV4, V4
<1>5. QED
  BY <1>3, <1>4

\* connect_tcp and connect_udp connect to the address the name stands for: the
\* word getaddrinfo found, of whatever four bytes, comes back in the sockaddr
\* from the octets parse_ascii took it apart into.
THEOREM ResolvedAddressIsReached ==
    ASSUME NEW i \in Octets, NEW j \in Octets, NEW k \in Octets, NEW l \in Octets,
           NEW more \in Seq(Nat), NEW port \in Ports
    PROVE  LET found == <<Number4(l, k, j, i)>> \o more
           IN ToSockaddr(V4(ParseAscii(found), port)).addr = Head(found)
<1> DEFINE n == Number4(l, k, j, i)
           found == <<n>> \o more
<1>1. n \in Nat
  BY DEF Number4, Octets
<1>2. FromWord(n) = <<i, j, k, l>>
  BY FromWordOfFour
<1> HIDE DEF n
<1>3. Head(found) = n /\ found # <<>>
  BY <1>1
<1>4. ParseAscii(found) = <<i, j, k, l>>
  <2> HIDE DEF found
  <2> QED
    BY <1>2, <1>3 DEF ParseAscii
<1>5. Htonl(Word(<<i, j, k, l>>)) = n
  BY HtonlOfFour DEF Word, n
<1>6. QED
  BY <1>3, <1>4, <1>5 DEF ToSockaddr, V4, n

\* Of an IPv6 address, flowinfo and scope are lost.
THEOREM AddressesComeBackV6 ==
    ASSUME NEW a \in SocketAddrV6
    PROVE  FromSockaddr(ToSockaddr(a)) = V6(a.ip, a.port)
<1>1. a.family = 6 /\ a.port \in Ports
  BY DEF SocketAddrV6
<1>2. QED
  BY <1>1, PortComesBack DEF FromSockaddr, ToSockaddr

-----------------------------------------------------------------------------
(* The hosts of a session. *)

USE ServerSessionAssumption

LEMMA NoAddrIsNoHost ==
    NoAddr \in SocketAddrV4 /\ NoAddr \notin Hosts
<1>1. <<0, 0, 0, 0>> \in [1 .. 4 -> Octets] /\ 0 \in Ports
  BY DEF Octets, Ports
<1>2. QED
  BY <1>1 DEF NoAddr, DefaultAddr, V4, SocketAddrV4

\* A host's datagrams come from its address.
LEMMA HeardAsSent == Heard = [h \in Hosts |-> h] /\ Range(Heard) = Hosts
<1>1. \A h \in Hosts : FromSockaddr(ToSockaddr(h)) = h
  BY AddressesComeBackV4
<1>2. Heard = [h \in Hosts |-> h]
  BY <1>1 DEF Heard
<1>3. QED
  BY <1>2 DEF Range

\* The cache finds an address under itself and under nothing else.
LEMMA FindsItself ==
    /\ \A h \in Hosts : Find(h) = {h} \cap DOMAIN cache
    /\ DOMAIN cache \subseteq Hosts => Find(NoAddr) = {}
<1>1. \A a \in Hosts \cup {NoAddr} : Likes[a] = {key \in Hosts : key = a}
  BY HeardAsSent, NoAddrIsNoHost, OneKeyPerAddressV4 DEF Likes
<1>2. QED
  BY <1>1, NoAddrIsNoHost DEF Find

\* What is sent to a host reaches it and no other.
LEMMA SentToItself == \A h \in Hosts : SentTo(h) = {h}
<1>1. \A h, g \in Hosts : ToSockaddr(h) = ToSockaddr(g) => h = g
  BY HeardAsSent, AddressesComeBackV4
<1>2. QED
  BY <1>1 DEF SentTo

-----------------------------------------------------------------------------
(* The inductive invariant. *)

\* Sessions are opened in their order, each by the host that is in it.
OpenedInTurn ==
    /\ \A s \in Sessions : line[s] = "none" <=> s > opened
    /\ \A s \in Sessions : hostOf[s] = NoAddr <=> s > opened
    /\ \A h \in Hosts : current[h] # 0 => hostOf[current[h]] = h

\* A client's number goes to the host of its session alone, and no answer is
\* another's.
AskedInPrivate ==
    /\ \A s \in clients : number[s] = s
    /\ \A s \in Sessions : \A i \in DOMAIN stream[s] : stream[s][i] = Ask(s)
    /\ \A d \in upwards : d.type = ASKUDP_RESPONSE =>
           d.session \in Sessions /\ hostOf[d.session] = d.from

\* Only a session the server was told of has an address, its host's; what is
\* cached and which clients have an address is the same.
LinkedOnce ==
    /\ \A s \in Sessions : udpAddr[s] # NoAddr => udpAddr[s] = hostOf[s] /\ Tcp!Told(s)
    /\ DOMAIN cache \subseteq Hosts
    /\ \A h \in DOMAIN cache : cache[h] \in clients /\ udpAddr[cache[h]] = h
    /\ \A s \in clients : udpAddr[s] # NoAddr =>
           udpAddr[s] \in DOMAIN cache /\ cache[udpAddr[s]] = s

SessionInv == TypeOK /\ Tcp!Ordered /\ OpenedInTurn /\ AskedInPrivate /\ LinkedOnce

-----------------------------------------------------------------------------
(* The notices, as Notices_proofs has them. *)

LEMMA SameNotices ==
    /\ Tcp!Ordered <=> TcpProofs!Ordered
    /\ Tcp!Known = TcpProofs!Known
    /\ \A s \in Sessions :
           /\ Tcp!Up(s) <=> TcpProofs!Up(s)
           /\ Tcp!Down(s) <=> TcpProofs!Down(s)
           /\ \A k : Tcp!Tell(k, s) <=> TcpProofs!Tell(k, s)
BY DEF Tcp!Ordered, TcpProofs!Ordered, Tcp!Known, TcpProofs!Known, Tcp!Told, TcpProofs!Told,
       Tcp!Over, TcpProofs!Over, Tcp!Up, TcpProofs!Up, Tcp!Down, TcpProofs!Down,
       Tcp!Tell, TcpProofs!Tell, Tcp!Notice, TcpProofs!Notice, Tcp!Kinds, TcpProofs!Kinds

LEMMA SameNoticesNext ==
    /\ Tcp!Ordered' <=> TcpProofs!Ordered'
    /\ Tcp!Known' = TcpProofs!Known'
BY DEF Tcp!Ordered, TcpProofs!Ordered, Tcp!Known, TcpProofs!Known, Tcp!Told, TcpProofs!Told,
       Tcp!Over, TcpProofs!Over, Tcp!Notice, TcpProofs!Notice, Tcp!Kinds, TcpProofs!Kinds

\* What is queued changes nothing the server should know, and what is told does
\* as it should.
LEMMA NoticeSteps ==
    ASSUME Tcp!Ordered, NEW s \in Sessions
    PROVE  /\ Tcp!Up(s) \/ Tcp!Down(s) => Tcp!Ordered' /\ Tcp!Known' = Tcp!Known
           /\ Tcp!Tell("connection", s) =>
                  Tcp!Ordered' /\ s \notin Tcp!Known /\ Tcp!Known' = Tcp!Known \cup {s}
           /\ Tcp!Tell("disconnection", s) =>
                  Tcp!Ordered' /\ s \in Tcp!Known /\ Tcp!Known' = Tcp!Known \ {s}
<1>1. TcpProofs!Ordered
  BY SameNotices
<1>2. "connection" \in TcpProofs!Kinds /\ "disconnection" \in TcpProofs!Kinds
  BY DEF TcpProofs!Kinds
<1>3. ASSUME Tcp!Up(s) \/ Tcp!Down(s) PROVE Tcp!Ordered' /\ Tcp!Known' = Tcp!Known
  <2>1. TcpProofs!Up(s) \/ TcpProofs!Down(s)
    BY <1>3, SameNotices
  <2>2. TcpProofs!Next
    BY <2>1 DEF TcpProofs!Next
  <2>3. TcpProofs!Ordered'
    BY <1>1, <2>2, TcpProofs!NextOrdered
  <2>4. TcpProofs!Known' = TcpProofs!Known
    BY <1>1, <2>1, TcpProofs!QueueKeepsKnown
  <2>5. QED
    BY <2>3, <2>4, SameNotices, SameNoticesNext
<1>4. ASSUME NEW k \in TcpProofs!Kinds, Tcp!Tell(k, s)
      PROVE  /\ Tcp!Ordered'
             /\ \/ k = "connection" /\ s \notin Tcp!Known /\ Tcp!Known' = Tcp!Known \cup {s}
                \/ k = "read" /\ s \in Tcp!Known /\ Tcp!Known' = Tcp!Known
                \/ k = "disconnection" /\ s \in Tcp!Known /\ Tcp!Known' = Tcp!Known \ {s}
  <2>1. TcpProofs!Tell(k, s)
    BY <1>4, SameNotices
  <2>2. TcpProofs!Ordered'
    BY <1>1, <2>1, TcpProofs!TellOrdered
  <2>3. \/ k = "connection" /\ s \notin TcpProofs!Known
              /\ TcpProofs!Known' = TcpProofs!Known \cup {s}
        \/ k = "read" /\ s \in TcpProofs!Known /\ TcpProofs!Known' = TcpProofs!Known
        \/ k = "disconnection" /\ s \in TcpProofs!Known
              /\ TcpProofs!Known' = TcpProofs!Known \ {s}
    BY <1>1, <2>1, TcpProofs!TellKnown
  <2>4. QED
    BY <2>2, <2>3, SameNotices, SameNoticesNext
<1>5. QED
  BY <1>2, <1>3, <1>4

\* A notice and its end are told in turn: once told of, always told of.
LEMMA ToldSteps ==
    ASSUME Tcp!Ordered, NEW s \in Sessions, NEW t \in Sessions,
           \/ Tcp!Up(s) \/ Tcp!Down(s)
           \/ Tcp!Tell("connection", s) \/ Tcp!Tell("disconnection", s)
    PROVE  Tcp!Told(t) => Tcp!Told(t)'
<1>1. queue \in Seq(TcpProofs!Queued) /\ line \in [Sessions -> {"none", "up", "down"}]
  BY DEF Tcp!Ordered, TcpProofs!Queued, TcpProofs!Kinds, Tcp!Kinds
<1>2. \A k, c, l, d : Tcp!Notice(k, c) = Tcp!Notice(l, d) <=> k = l /\ c = d
  BY DEF Tcp!Notice
<1>3. Tcp!Told(t) <=> line[t] # "none" /\ ~TcpProofs!Has(queue, Tcp!Notice("connection", t))
  BY DEF Tcp!Told, TcpProofs!Has
<1>4. (Tcp!Told(t))' <=>
          line'[t] # "none" /\ ~TcpProofs!Has(queue', Tcp!Notice("connection", t))
  BY DEF Tcp!Told, TcpProofs!Has
<1>5. CASE Tcp!Up(s) \/ Tcp!Down(s)
  <2>1. PICK k \in TcpProofs!Kinds :
            /\ queue' = Append(queue, Tcp!Notice(k, s))
            /\ k = "connection" => line[s] = "none"
    BY <1>5 DEF Tcp!Up, Tcp!Down, TcpProofs!Kinds
  <2>2. Tcp!Notice(k, s) \in TcpProofs!Queued
    BY DEF Tcp!Notice, TcpProofs!Queued
  <2>3. \A n : TcpProofs!Has(queue', n) <=> TcpProofs!Has(queue, n) \/ n = Tcp!Notice(k, s)
    BY <1>1, <2>1, <2>2, TcpProofs!HasAppended
  <2>4. line[t] # "none" => line'[t] # "none"
    BY <1>1, <1>5 DEF Tcp!Up, Tcp!Down
  <2>5. QED
    BY <1>2, <1>3, <1>4, <2>1, <2>3, <2>4
<1>6. CASE Tcp!Tell("connection", s) \/ Tcp!Tell("disconnection", s)
  <2>1. queue # <<>> /\ queue' = Tail(queue) /\ line' = line
    BY <1>6 DEF Tcp!Tell
  <2>2. \A n : TcpProofs!Has(queue, n) <=> n = Head(queue) \/ TcpProofs!Has(queue', n)
    BY <1>1, <2>1, TcpProofs!HasBefore
  <2>3. QED
    BY <1>3, <1>4, <2>1, <2>2
<1>7. QED
  BY <1>5, <1>6

\* A client was told of; one that is told of now was not before.
LEMMA ToldFirst ==
    ASSUME Tcp!Ordered, NEW s \in Sessions
    PROVE  /\ s \in Tcp!Known => Tcp!Told(s)
           /\ Tcp!Tell("connection", s) => ~Tcp!Told(s)
<1>1. queue \in Seq(TcpProofs!Queued)
  BY DEF Tcp!Ordered, TcpProofs!Queued, TcpProofs!Kinds, Tcp!Kinds
<1>2. queue # <<>> => 1 \in DOMAIN queue /\ Head(queue) = queue[1]
  BY <1>1
<1>3. QED
  BY <1>2 DEF Tcp!Known, Tcp!Told, Tcp!Tell

-----------------------------------------------------------------------------
(* The steps of the hosts and of the network. *)

\* What the parts of the invariant and the variables hold.
LEMMA Parts ==
    ASSUME SessionInv
    PROVE  /\ opened \in Nat /\ opened <= MaxSessions
           /\ hostOf \in [Sessions -> Hosts \cup {NoAddr}]
           /\ current \in [Hosts -> 0 .. opened]
           /\ DOMAIN stream = Sessions
           /\ udpAddr \in [Sessions -> Hosts \cup {NoAddr}]
           /\ number \in [Sessions -> 0 .. MaxSessions]
           /\ cache \in [DOMAIN cache -> Sessions]
           /\ clients = Tcp!Known /\ clients \subseteq Sessions
           /\ Tcp!Ordered
           /\ \A s \in Sessions : s \in Nat
<1>1. clients = Tcp!Known /\ Tcp!Known \subseteq Sessions
  BY DEF SessionInv, TypeOK, Tcp!Known
<1>2. QED
  BY <1>1 DEF SessionInv, TypeOK, Sessions

LEMMA InitInv == Init => SessionInv
<1> SUFFICES ASSUME Init PROVE SessionInv
  OBVIOUS
<1>1. Tcp!Ordered
  BY DEF Init, Tcp!Init, Tcp!Ordered
<1>2. clients = Tcp!Known
  BY DEF Init, Tcp!Init, Tcp!Known, Tcp!Told
<1>3. TypeOK
  BY <1>1, <1>2 DEF Init, Tcp!Init, TypeOK, Sessions
<1>4. OpenedInTurn
  BY DEF Init, Tcp!Init, OpenedInTurn, Sessions
<1>5. AskedInPrivate /\ LinkedOnce
  BY DEF Init, AskedInPrivate, LinkedOnce
<1>6. QED
  BY <1>1, <1>3, <1>4, <1>5 DEF SessionInv

LEMMA SeqGrows ==
    ASSUME NEW S, NEW T, S \subseteq T, NEW q \in Seq(S)
    PROVE  q \in Seq(T)
OBVIOUS

\* A session is the next one, and its host is in no other.
LEMMA ConnectInv ==
    ASSUME SessionInv, NEW h \in Hosts, Connect(h)
    PROVE  SessionInv'
<1> DEFINE s == opened + 1
<1>1. /\ s \in Sessions /\ s \in Nat /\ opened < s /\ opened' = s
      /\ Tcp!Up(s) /\ line[s] = "none" /\ line' = [line EXCEPT ![s] = "up"]
      /\ queue' = Append(queue, Tcp!Notice("connection", s))
      /\ hostOf[s] = NoAddr
      /\ hostOf' = [hostOf EXCEPT ![s] = h] /\ current' = [current EXCEPT ![h] = s]
      /\ UNCHANGED <<stream, upwards, downwards, wasted, clients, number, udpAddr, cache>>
  BY Parts DEF Connect, Tcp!Up, SessionInv, OpenedInTurn, Sessions, netVars, serverVars
<1> HIDE DEF s
<1>2. /\ Tcp!Ordered' /\ Tcp!Known' = Tcp!Known
      /\ \A t \in Sessions : Tcp!Told(t) => Tcp!Told(t)'
  BY <1>1, NoticeSteps, ToldSteps, Parts
<1>3. TypeOK'
  <2>1. queue' \in Seq([kind : {"connection", "disconnection"}, id : 1 .. s])
    <3>1. queue \in Seq([kind : {"connection", "disconnection"}, id : 1 .. opened])
      BY DEF SessionInv, TypeOK
    <3>2. [kind : {"connection", "disconnection"}, id : 1 .. opened] \subseteq
              [kind : {"connection", "disconnection"}, id : 1 .. s]
      BY <1>1, Parts
    <3>3. queue \in Seq([kind : {"connection", "disconnection"}, id : 1 .. s])
      BY <3>1, <3>2, SeqGrows
    <3>4. Tcp!Notice("connection", s) \in
              [kind : {"connection", "disconnection"}, id : 1 .. s]
      BY <1>1 DEF Tcp!Notice, Sessions
    <3>5. QED
      BY <1>1, <3>3, <3>4
  <2>2. hostOf' \in [Sessions -> Hosts \cup {NoAddr}]
    BY <1>1, Parts
  <2>3. current' \in [Hosts -> 0 .. s] /\ s \in 0 .. MaxSessions
    BY <1>1, Parts DEF Sessions
  <2>4. line' \in [Sessions -> {"none", "up", "down"}]
    BY <1>2 DEF Tcp!Ordered
  <2>5. QED
    BY <1>1, <1>2, <2>1, <2>2, <2>3, <2>4 DEF SessionInv, TypeOK
<1>4. OpenedInTurn'
  <2>1. \A t \in Sessions : (line'[t] = "none" <=> t > s) /\ (hostOf'[t] = NoAddr <=> t > s)
    <3> SUFFICES ASSUME NEW t \in Sessions
                 PROVE  (line'[t] = "none" <=> t > s) /\ (hostOf'[t] = NoAddr <=> t > s)
      OBVIOUS
    <3>1. /\ line[t] = "none" <=> t > opened
          /\ hostOf[t] = NoAddr <=> t > opened
      BY DEF SessionInv, OpenedInTurn
    <3>2. DOMAIN line = Sessions
      BY Parts DEF Tcp!Ordered
    <3>3. CASE t = s
      BY <1>1, <3>2, <3>3, Parts, NoAddrIsNoHost
    <3>4. CASE t # s
      <4>1. t > opened <=> t > s
        BY <1>1, <3>4, Parts DEF s
      <4>2. line'[t] = line[t] /\ hostOf'[t] = hostOf[t]
        BY <1>1, <3>2, <3>4, Parts
      <4>3. QED
        BY <3>1, <4>1, <4>2
    <3>5. QED
      BY <3>3, <3>4
  <2>2. \A g \in Hosts : current'[g] # 0 => hostOf'[current'[g]] = g
    <3> TAKE g \in Hosts
    <3>1. CASE g = h
      BY <1>1, <3>1, Parts
    <3>2. CASE g # h
      <4>1. current'[g] = current[g] /\ current[g] \in 0 .. opened
        BY <1>1, <3>2, Parts
      <4>2. current[g] # 0 => current[g] \in Sessions /\ current[g] # s
        BY <1>1, <4>1, Parts DEF Sessions
      <4>3. QED
        BY <1>1, <4>1, <4>2, Parts DEF SessionInv, OpenedInTurn
    <3>3. QED
      BY <3>1, <3>2
  <2>3. QED
    BY <1>1, <2>1, <2>2 DEF OpenedInTurn
<1>5. AskedInPrivate'
  <2>1. \A d \in upwards : d.type = ASKUDP_RESPONSE =>
            d.session \in Sessions /\ hostOf'[d.session] = d.from
    <3> SUFFICES ASSUME NEW d \in upwards, d.type = ASKUDP_RESPONSE
                 PROVE  d.session \in Sessions /\ hostOf'[d.session] = d.from
      OBVIOUS
    <3>1. d.session \in Sessions /\ hostOf[d.session] = d.from /\ d.from \in Hosts
      BY DEF SessionInv, AskedInPrivate, TypeOK
    <3>2. d.session # s
      BY <1>1, <3>1, NoAddrIsNoHost
    <3>3. QED
      BY <1>1, <3>1, <3>2, Parts
  <2>2. QED
    BY <1>1, <2>1 DEF SessionInv, AskedInPrivate
<1>6. LinkedOnce'
  <2>1. \A t \in Sessions : udpAddr[t] # NoAddr => udpAddr[t] = hostOf'[t] /\ Tcp!Told(t)'
    BY <1>1, <1>2, Parts DEF SessionInv, LinkedOnce
  <2>2. QED
    BY <1>1, <2>1 DEF SessionInv, LinkedOnce
<1>7. QED
  BY <1>2, <1>3, <1>4, <1>5, <1>6 DEF SessionInv

LEMMA HangupInv ==
    ASSUME SessionInv, NEW h \in Hosts, Hangup(h)
    PROVE  SessionInv'
<1>1. /\ current' = [current EXCEPT ![h] = 0] /\ UNCHANGED <<line, queue>>
      /\ UNCHANGED <<opened, hostOf, stream, netVars, serverVars>>
  BY DEF Hangup, lineVars
<1>2. Tcp!Ordered' /\ Tcp!Known' = Tcp!Known /\ \A t \in Sessions : Tcp!Told(t) <=> Tcp!Told(t)'
  BY <1>1, Parts DEF Tcp!Ordered, Tcp!Known, Tcp!Told, Tcp!Over
<1>3. TypeOK'
  <2>1. current' \in [Hosts -> 0 .. opened]
    BY <1>1, Parts
  <2>2. QED
    BY <1>1, <1>2, <2>1 DEF SessionInv, TypeOK, netVars, serverVars
<1>4. OpenedInTurn'
  BY <1>1, Parts DEF SessionInv, OpenedInTurn
<1>5. AskedInPrivate' /\ LinkedOnce'
  BY <1>1, <1>2 DEF SessionInv, AskedInPrivate, LinkedOnce, netVars, serverVars
<1>6. QED
  BY <1>2, <1>3, <1>4, <1>5 DEF SessionInv

Datagrams ==
    [from : Hosts, type : {ASKUDP_RESPONSE, DATA},
     session : 0 .. MaxSessions, number : 0 .. 2 * MaxSessions]

LEMMA NoNotice ==
    ASSUME SessionInv, UNCHANGED lineVars
    PROVE  /\ Tcp!Ordered' /\ Tcp!Known' = Tcp!Known
           /\ \A t \in Sessions : Tcp!Told(t) <=> Tcp!Told(t)'
BY DEF lineVars, SessionInv, Tcp!Ordered, Tcp!Known, Tcp!Told, Tcp!Over

\* A step that moves packets keeps the invariant if the answers it sends are
\* those of the hosts that were asked.
LEMMA PacketStep ==
    ASSUME SessionInv, UNCHANGED <<opened, hostOf, current, lineVars, serverVars>>,
           stream' = stream \/ \E s \in Sessions : /\ stream[s] # <<>>
                                                   /\ stream' = [stream EXCEPT ![s] = Tail(@)],
           upwards' \subseteq Datagrams, downwards' \subseteq Hosts, wasted' \subseteq Sessions,
           \A d \in upwards' : d.type = ASKUDP_RESPONSE =>
               d.session \in Sessions /\ hostOf[d.session] = d.from
    PROVE  SessionInv'
<1>1. /\ Tcp!Ordered' /\ Tcp!Known' = Tcp!Known
      /\ \A t \in Sessions : Tcp!Told(t) <=> Tcp!Told(t)'
  BY NoNotice
<1>2. /\ stream' \in
             [Sessions -> Seq([type : {ASKUDP_NUMBER}, session : Sessions, number : Sessions])]
      /\ \A s \in Sessions : \A i \in DOMAIN stream'[s] : stream'[s][i] = Ask(s)
  <2> DEFINE Asks == [type : {ASKUDP_NUMBER}, session : Sessions, number : Sessions]
  <2>1. /\ stream \in [Sessions -> Seq(Asks)]
        /\ \A s \in Sessions : \A i \in DOMAIN stream[s] : stream[s][i] = Ask(s)
    BY DEF SessionInv, TypeOK, AskedInPrivate
  <2> HIDE DEF Asks
  <2>2. CASE stream' = stream
    BY <2>1, <2>2 DEF Asks
  <2>3. ASSUME NEW s \in Sessions, stream[s] # <<>>, stream' = [stream EXCEPT ![s] = Tail(@)]
        PROVE  /\ stream' \in [Sessions -> Seq(Asks)]
               /\ \A t \in Sessions : \A i \in DOMAIN stream'[t] : stream'[t][i] = Ask(t)
    <3>1. stream[s] \in Seq(Asks) /\ stream[s] # <<>>
      BY <2>1, <2>3
    <3>2. /\ Tail(stream[s]) \in Seq(Asks)
          /\ \A i \in DOMAIN Tail(stream[s]) :
                 i + 1 \in DOMAIN stream[s] /\ Tail(stream[s])[i] = stream[s][i + 1]
      BY <3>1
    <3>3. \A t \in Sessions : stream'[t] = IF t = s THEN Tail(stream[s]) ELSE stream[t]
      BY <2>1, <2>3
    <3>4. stream' \in [Sessions -> Seq(Asks)]
      BY <2>1, <2>3, <3>2
    <3>5. \A i \in DOMAIN Tail(stream[s]) : Tail(stream[s])[i] = Ask(s)
      BY <2>1, <3>2
    <3>6. ASSUME NEW t \in Sessions PROVE \A i \in DOMAIN stream'[t] : stream'[t][i] = Ask(t)
      BY <2>1, <3>3, <3>5
    <3>7. QED
      BY <3>4, <3>6
  <2>4. QED
    BY <2>2, <2>3 DEF Asks
<1>3. TypeOK'
  BY <1>1, <1>2 DEF SessionInv, TypeOK, Datagrams, lineVars, serverVars
<1>4. OpenedInTurn'
  BY DEF SessionInv, OpenedInTurn, lineVars
<1>5. AskedInPrivate'
  BY <1>2 DEF SessionInv, AskedInPrivate, serverVars
<1>6. LinkedOnce'
  BY <1>1 DEF SessionInv, LinkedOnce, serverVars
<1>7. QED
  BY <1>1, <1>3, <1>4, <1>5, <1>6 DEF SessionInv

\* What is on its way now, and what may be wasted of it.
LEMMA OnTheWay ==
    ASSUME SessionInv
    PROVE  /\ upwards \subseteq Datagrams /\ downwards \subseteq Hosts /\ wasted \subseteq Sessions
           /\ \A d \in upwards : d.type = ASKUDP_RESPONSE =>
                  d.session \in Sessions /\ hostOf[d.session] = d.from
           /\ \A d \in upwards : Waste(d) => wasted' \subseteq Sessions
<1>1. /\ upwards \subseteq Datagrams /\ downwards \subseteq Hosts /\ wasted \subseteq Sessions
  BY DEF SessionInv, TypeOK, Datagrams
<1>2. \A d \in upwards : d.type = ASKUDP_RESPONSE =>
          d.session \in Sessions /\ hostOf[d.session] = d.from
  BY DEF SessionInv, AskedInPrivate
<1>3. QED
  BY <1>1, <1>2 DEF Waste

\* A host answers with what it was asked, and it was asked on its own stream.
LEMMA AnswerNumberInv ==
    ASSUME SessionInv, NEW h \in Hosts, AnswerNumber(h)
    PROVE  SessionInv'
<1> DEFINE s == current[h]
           asked == Head(stream[s])
           d == Datagram(h, ASKUDP_RESPONSE, asked.session, Transformed(asked.number))
<1>1. /\ s # 0 /\ stream[s] # <<>> /\ stream' = [stream EXCEPT ![s] = Tail(@)]
      /\ upwards' = upwards \cup {d}
      /\ UNCHANGED <<opened, hostOf, current, downwards, wasted, lineVars, serverVars>>
  BY DEF AnswerNumber
<1>2. s \in Sessions
  BY <1>1, Parts DEF Sessions
<1>3. asked = Ask(s)
  <2>1. stream[s] \in Seq([type : {ASKUDP_NUMBER}, session : Sessions, number : Sessions])
    BY <1>2 DEF SessionInv, TypeOK
  <2>2. 1 \in DOMAIN stream[s] /\ asked = stream[s][1]
    BY <1>1, <2>1
  <2>3. QED
    BY <1>2, <2>2 DEF SessionInv, AskedInPrivate
<1>4. d \in Datagrams /\ d.session = s /\ d.from = h
  <2>1. s \in 0 .. MaxSessions /\ s + MaxSessions \in 0 .. 2 * MaxSessions
    BY <1>2 DEF Sessions
  <2>2. d = [from |-> h, type |-> ASKUDP_RESPONSE, session |-> s, number |-> s + MaxSessions]
    BY <1>3 DEF Datagram, Transformed, Ask
  <2>3. QED
    BY <2>1, <2>2 DEF Datagrams
<1>5. hostOf[s] = h
  BY <1>1 DEF SessionInv, OpenedInTurn
<1> HIDE DEF d, asked
<1>6. QED
  BY <1>1, <1>2, <1>4, <1>5, OnTheWay, PacketStep

\* The other steps of packets.
LEMMA DatagramInv ==
    ASSUME SessionInv,
           \/ \E h \in Hosts : HostSends(h) \/ HostReceives(h)
           \/ Lose
           \/ \E s \in Sessions : ServerSends(s)
           \/ \E d \in upwards : OnLinkedData(d) \/ OnStrayData(d)
    PROVE  SessionInv'
<1>1. ASSUME NEW h \in Hosts, HostSends(h) PROVE SessionInv'
  <2> DEFINE d == Datagram(h, DATA, 0, 0)
  <2>1. d \in Datagrams /\ d.type # ASKUDP_RESPONSE
    BY DEF Datagram, Datagrams, DATA, ASKUDP_RESPONSE
  <2>2. upwards' = upwards \cup {d}
        /\ UNCHANGED <<hostVars, downwards, wasted, lineVars, serverVars>>
    BY <1>1 DEF HostSends
  <2> HIDE DEF d
  <2>3. QED
    BY <2>1, <2>2, OnTheWay, PacketStep DEF hostVars
<1>2. ASSUME NEW h \in Hosts, HostReceives(h) PROVE SessionInv'
  BY <1>2, OnTheWay, PacketStep DEF HostReceives, hostVars
<1>3. ASSUME Lose PROVE SessionInv'
  <2>1. /\ upwards' \subseteq upwards /\ downwards' \subseteq downwards
        /\ wasted' \subseteq Sessions /\ UNCHANGED <<hostVars, lineVars, serverVars>>
    BY <1>3, OnTheWay DEF Lose
  <2>2. QED
    BY <2>1, OnTheWay, PacketStep DEF hostVars
<1>4. ASSUME NEW s \in Sessions, ServerSends(s) PROVE SessionInv'
  <2>1. SentTo(udpAddr[s]) \subseteq Hosts
    BY DEF SentTo
  <2>2. QED
    BY <1>4, <2>1, OnTheWay, PacketStep DEF ServerSends, hostVars
<1>5. ASSUME NEW d \in upwards, OnLinkedData(d) \/ OnStrayData(d) PROVE SessionInv'
  <2>1. /\ upwards' \subseteq upwards /\ downwards' = downwards
        /\ wasted' \subseteq Sessions /\ UNCHANGED <<hostVars, lineVars, serverVars>>
    BY <1>5, OnTheWay DEF OnLinkedData, OnStrayData, Arrives
  <2>2. QED
    BY <2>1, OnTheWay, PacketStep DEF hostVars
<1>6. QED
  BY <1>1, <1>2, <1>3, <1>4, <1>5

-----------------------------------------------------------------------------
(* The steps of the server. *)

LEMMA ConnectionEndsInv ==
    ASSUME SessionInv, NEW s \in Sessions, ConnectionEnds(s)
    PROVE  SessionInv'
<1>1. /\ Tcp!Down(s) /\ line[s] = "up" /\ line' = [line EXCEPT ![s] = "down"]
      /\ queue' = Append(queue, Tcp!Notice("disconnection", s))
      /\ UNCHANGED <<hostVars, netVars, serverVars>>
  BY DEF ConnectionEnds, Tcp!Down
<1>2. /\ Tcp!Ordered' /\ Tcp!Known' = Tcp!Known
      /\ \A t \in Sessions : Tcp!Told(t) => Tcp!Told(t)'
  BY <1>1, NoticeSteps, ToldSteps, Parts
<1>3. TypeOK'
  <2>1. s \in 1 .. opened
    BY <1>1, Parts DEF SessionInv, OpenedInTurn, Sessions
  <2>2. queue' \in Seq([kind : {"connection", "disconnection"}, id : 1 .. opened])
    BY <1>1, <2>1 DEF SessionInv, TypeOK, Tcp!Notice
  <2>3. line' \in [Sessions -> {"none", "up", "down"}]
    BY <1>2 DEF Tcp!Ordered
  <2>4. QED
    BY <1>1, <1>2, <2>2, <2>3 DEF SessionInv, TypeOK, hostVars, netVars, serverVars
<1>4. OpenedInTurn'
  <2>1. DOMAIN line = Sessions
    BY Parts DEF Tcp!Ordered
  <2>2. \A t \in Sessions : line'[t] = "none" <=> line[t] = "none"
    BY <1>1, <2>1
  <2>3. QED
    BY <1>1, <2>2 DEF SessionInv, OpenedInTurn, hostVars
<1>5. AskedInPrivate' /\ LinkedOnce'
  BY <1>1, <1>2 DEF SessionInv, AskedInPrivate, LinkedOnce, hostVars, netVars, serverVars
<1>6. QED
  BY <1>2, <1>3, <1>4, <1>5 DEF SessionInv

\* What telling a notice leaves of the types.
LEMMA ToldTypes ==
    ASSUME SessionInv, UNCHANGED opened, NEW k, NEW s, Tcp!Tell(k, s)
    PROVE  /\ queue' \in Seq([kind : {"connection", "disconnection"}, id : 1 .. opened'])
           /\ line' = line
<1>1. queue \in Seq([kind : {"connection", "disconnection"}, id : 1 .. opened])
      /\ queue # <<>> /\ queue' = Tail(queue)
  BY DEF SessionInv, TypeOK, Tcp!Tell
<1>2. QED
  BY <1>1 DEF Tcp!Tell

LEMMA OnTcpConnectionInv ==
    ASSUME SessionInv, NEW s \in Sessions, OnTcpConnection(s)
    PROVE  SessionInv'
<1> DEFINE Asks == [type : {ASKUDP_NUMBER}, session : Sessions, number : Sessions]
<1>1. /\ Tcp!Tell("connection", s)
      /\ clients' = clients \cup {s} /\ number' = [number EXCEPT ![s] = s]
      /\ stream' = stream \/ stream' = [stream EXCEPT ![s] = Append(@, Ask(s))]
      /\ UNCHANGED <<opened, hostOf, current, netVars, udpAddr, cache>>
  BY DEF OnTcpConnection
<1>2. /\ Tcp!Ordered' /\ s \notin Tcp!Known /\ Tcp!Known' = Tcp!Known \cup {s}
      /\ \A t \in Sessions : Tcp!Told(t) => Tcp!Told(t)'
      /\ ~Tcp!Told(s)
  BY <1>1, NoticeSteps, ToldSteps, ToldFirst, Parts
<1>3. /\ stream' \in [Sessions -> Seq(Asks)]
      /\ \A t \in Sessions : \A i \in DOMAIN stream'[t] : stream'[t][i] = Ask(t)
  <2>1. /\ stream \in [Sessions -> Seq(Asks)]
        /\ \A t \in Sessions : \A i \in DOMAIN stream[t] : stream[t][i] = Ask(t)
    BY DEF SessionInv, TypeOK, AskedInPrivate
  <2>2. Ask(s) \in Asks
    BY DEF Ask
  <2> HIDE DEF Asks
  <2>3. /\ Append(stream[s], Ask(s)) \in Seq(Asks)
        /\ \A i \in DOMAIN Append(stream[s], Ask(s)) :
               \/ i \in DOMAIN stream[s] /\ Append(stream[s], Ask(s))[i] = stream[s][i]
               \/ Append(stream[s], Ask(s))[i] = Ask(s)
    BY <2>1, <2>2
  <2>4. CASE stream' = [stream EXCEPT ![s] = Append(@, Ask(s))]
    <3>1. \A t \in Sessions :
              stream'[t] = IF t = s THEN Append(stream[s], Ask(s)) ELSE stream[t]
      BY <2>1, <2>4
    <3>2. stream' \in [Sessions -> Seq(Asks)]
      BY <2>1, <2>3, <2>4
    <3>3. \A i \in DOMAIN Append(stream[s], Ask(s)) : Append(stream[s], Ask(s))[i] = Ask(s)
      BY <2>1, <2>3
    <3>4. ASSUME NEW t \in Sessions PROVE \A i \in DOMAIN stream'[t] : stream'[t][i] = Ask(t)
      BY <2>1, <3>1, <3>3
    <3>5. QED
      BY <3>2, <3>4
  <2>5. QED
    BY <1>1, <2>1, <2>4
<1>4. TypeOK'
  <2>1. number' \in [Sessions -> 0 .. MaxSessions]
    BY <1>1, Parts DEF Sessions
  <2>2. QED
    BY <1>1, <1>2, <1>3, <2>1, ToldTypes DEF SessionInv, TypeOK, netVars
<1>5. OpenedInTurn'
  BY <1>1, ToldTypes DEF SessionInv, OpenedInTurn
<1>6. AskedInPrivate'
  <2>1. \A t \in clients' : number'[t] = t
    BY <1>1, Parts DEF SessionInv, AskedInPrivate
  <2>2. QED
    BY <1>1, <1>3, <2>1 DEF SessionInv, AskedInPrivate, netVars
<1>7. LinkedOnce'
  <2>1. udpAddr[s] = NoAddr
    BY <1>2 DEF SessionInv, LinkedOnce
  <2>2. QED
    BY <1>1, <1>2, <2>1 DEF SessionInv, LinkedOnce
<1>8. QED
  BY <1>2, <1>4, <1>5, <1>6, <1>7 DEF SessionInv

\* A client that leaves takes its own address with it and no other's.
LEMMA OnTcpDisconnectionInv ==
    ASSUME SessionInv, NEW s \in Sessions, OnTcpDisconnection(s)
    PROVE  SessionInv'
<1>1. /\ Tcp!Tell("disconnection", s)
      /\ cache' = [h \in DOMAIN cache \ Find(udpAddr[s]) |-> cache[h]]
      /\ clients' = clients \ {s}
      /\ UNCHANGED <<hostVars, netVars, number, udpAddr>>
  BY DEF OnTcpDisconnection
<1>2. /\ Tcp!Ordered' /\ s \in Tcp!Known /\ Tcp!Known' = Tcp!Known \ {s}
      /\ \A t \in Sessions : Tcp!Told(t) => Tcp!Told(t)'
  BY <1>1, NoticeSteps, ToldSteps, Parts
<1>3. /\ udpAddr[s] \in Hosts \cup {NoAddr} /\ DOMAIN cache \subseteq Hosts
      /\ \A h \in DOMAIN cache : cache[h] \in clients /\ udpAddr[cache[h]] = h
      /\ \A t \in clients : udpAddr[t] # NoAddr =>
             udpAddr[t] \in DOMAIN cache /\ cache[udpAddr[t]] = t
      /\ s \in clients
  BY <1>2, Parts DEF SessionInv, LinkedOnce
<1>4. /\ DOMAIN cache' = DOMAIN cache \ {udpAddr[s]}
      /\ \A h \in DOMAIN cache' : cache'[h] = cache[h]
  <2>1. DOMAIN cache \ Find(udpAddr[s]) = DOMAIN cache \ {udpAddr[s]}
    BY <1>3, FindsItself, NoAddrIsNoHost
  <2>2. QED
    BY <1>1, <2>1
<1>5. \A h \in DOMAIN cache' : h \in DOMAIN cache /\ cache'[h] = cache[h] /\ cache[h] # s
  BY <1>3, <1>4
<1>6. TypeOK'
  <2>1. cache' \in [DOMAIN cache' -> Sessions]
    BY <1>1, <1>4, Parts
  <2>2. QED
    BY <1>1, <1>2, <2>1, ToldTypes DEF SessionInv, TypeOK, hostVars, netVars
<1>7. OpenedInTurn'
  BY <1>1, ToldTypes DEF SessionInv, OpenedInTurn, hostVars
<1>8. AskedInPrivate'
  BY <1>1 DEF SessionInv, AskedInPrivate, hostVars, netVars
<1>9. LinkedOnce'
  <2>1. \A h \in DOMAIN cache' : cache'[h] \in clients' /\ udpAddr[cache'[h]] = h
    BY <1>1, <1>3, <1>5
  <2>2. \A t \in clients' : udpAddr[t] # NoAddr =>
            udpAddr[t] \in DOMAIN cache' /\ cache'[udpAddr[t]] = t
    <3> SUFFICES ASSUME NEW t \in clients', udpAddr[t] # NoAddr
                 PROVE  udpAddr[t] \in DOMAIN cache' /\ cache'[udpAddr[t]] = t
      OBVIOUS
    <3>1. t \in clients /\ t # s
      BY <1>1
    <3>2. udpAddr[t] \in DOMAIN cache /\ cache[udpAddr[t]] = t
      BY <1>3, <3>1
    <3>3. udpAddr[t] # udpAddr[s]
      BY <1>3, <3>1, <3>2
    <3>4. QED
      BY <1>4, <3>2, <3>3
  <2>3. QED
    BY <1>1, <1>2, <1>3, <1>4, <2>1, <2>2 DEF SessionInv, LinkedOnce, hostVars
<1>10. QED
  BY <1>2, <1>6, <1>7, <1>8, <1>9 DEF SessionInv

\* The answer to a number links the address of the host that was asked, which
\* was linked to no other client and the client to no other address.
LEMMA OnAnswerInv ==
    ASSUME SessionInv, NEW d \in upwards, OnAnswer(d)
    PROVE  SessionInv'
<1> DEFINE h == d.from
           s == d.session
<1>1. /\ h \in Hosts /\ s \in Sessions /\ s \in clients /\ hostOf[s] = h
  BY OnTheWay DEF OnAnswer, IsAnswer, Datagrams
<1>2. /\ Heard[h] = h /\ h \notin DOMAIN cache /\ h # NoAddr
  <2>1. Heard[h] = h /\ Find(h) = {h} \cap DOMAIN cache /\ h # NoAddr
    BY <1>1, HeardAsSent, FindsItself, NoAddrIsNoHost
  <2>2. {cache[key] : key \in Find(h)} = {}
    BY <2>1 DEF OnAnswer, HandedTo
  <2>3. QED
    BY <2>1, <2>2
<1>3. /\ udpAddr' = [udpAddr EXCEPT ![s] = h]
      /\ cache' = [g \in DOMAIN cache \cup {h} |-> IF g = h THEN s ELSE cache[g]]
      /\ upwards' \subseteq upwards /\ downwards' = downwards
      /\ UNCHANGED <<hostVars, lineVars, clients, number, wasted>>
  BY <1>2 DEF OnAnswer, Arrives
<1> HIDE DEF h, s
<1>4. /\ Tcp!Ordered' /\ Tcp!Known' = Tcp!Known
      /\ \A t \in Sessions : Tcp!Told(t) <=> Tcp!Told(t)'
  BY <1>3, NoNotice
<1>5. /\ DOMAIN cache \subseteq Hosts
      /\ \A g \in DOMAIN cache : cache[g] \in clients /\ udpAddr[cache[g]] = g
      /\ \A t \in clients : udpAddr[t] # NoAddr =>
             udpAddr[t] \in DOMAIN cache /\ cache[udpAddr[t]] = t
      /\ \A t \in Sessions : udpAddr[t] # NoAddr => udpAddr[t] = hostOf[t] /\ Tcp!Told(t)
  BY DEF SessionInv, LinkedOnce
<1>6. udpAddr[s] = NoAddr
  BY <1>1, <1>2, <1>5
<1>7. TypeOK'
  <2>1. cache' \in [DOMAIN cache' -> Sessions]
    BY <1>1, <1>3, Parts
  <2>2. udpAddr' \in [Sessions -> Hosts \cup {NoAddr}]
    BY <1>1, <1>3, Parts
  <2>3. QED
    BY <1>3, <1>4, <2>1, <2>2 DEF SessionInv, TypeOK, hostVars, lineVars
<1>8. OpenedInTurn'
  BY <1>3 DEF SessionInv, OpenedInTurn, hostVars, lineVars
<1>9. AskedInPrivate'
  BY <1>3 DEF SessionInv, AskedInPrivate, hostVars
<1>10. LinkedOnce'
  <2>1. \A t \in Sessions : udpAddr'[t] = IF t = s THEN h ELSE udpAddr[t]
    BY <1>1, <1>3, Parts
  <2>2. DOMAIN cache' = DOMAIN cache \cup {h}
        /\ \A g \in DOMAIN cache' : cache'[g] = IF g = h THEN s ELSE cache[g]
    BY <1>3
  <2>3. Tcp!Told(s)
    BY <1>1, ToldFirst, Parts
  <2>4. \A t \in Sessions : udpAddr'[t] # NoAddr => udpAddr'[t] = hostOf[t] /\ Tcp!Told(t)'
    BY <1>1, <1>4, <1>5, <2>1, <2>3
  <2>5. \A g \in DOMAIN cache' : cache'[g] \in clients /\ udpAddr'[cache'[g]] = g
    <3> SUFFICES ASSUME NEW g \in DOMAIN cache'
                 PROVE  cache'[g] \in clients /\ udpAddr'[cache'[g]] = g
      OBVIOUS
    <3>1. CASE g = h
      BY <1>1, <2>1, <2>2, <3>1
    <3>2. CASE g # h
      <4>1. g \in DOMAIN cache /\ cache'[g] = cache[g] /\ cache[g] \in clients
            /\ udpAddr[cache[g]] = g /\ g # NoAddr
        BY <1>5, <2>2, <3>2, NoAddrIsNoHost
      <4>2. cache[g] # s /\ cache[g] \in Sessions
        BY <1>6, <4>1, Parts
      <4>3. QED
        BY <2>1, <4>1, <4>2
    <3>3. QED
      BY <3>1, <3>2
  <2>6. \A t \in clients : udpAddr'[t] # NoAddr =>
            udpAddr'[t] \in DOMAIN cache' /\ cache'[udpAddr'[t]] = t
    <3> SUFFICES ASSUME NEW t \in clients, udpAddr'[t] # NoAddr
                 PROVE  udpAddr'[t] \in DOMAIN cache' /\ cache'[udpAddr'[t]] = t
      OBVIOUS
    <3>1. t \in Sessions
      BY Parts
    <3>2. CASE t = s
      BY <2>1, <2>2, <3>1, <3>2
    <3>3. CASE t # s
      BY <1>2, <1>5, <2>1, <2>2, <3>1, <3>3
    <3>4. QED
      BY <3>2, <3>3
  <2>7. DOMAIN cache' \subseteq Hosts
    BY <1>1, <1>5, <2>2
  <2>8. QED
    BY <1>3, <2>4, <2>5, <2>6, <2>7 DEF LinkedOnce, hostVars
<1>11. QED
  BY <1>4, <1>7, <1>8, <1>9, <1>10 DEF SessionInv

-----------------------------------------------------------------------------
LEMMA NextInv ==
    ASSUME SessionInv, [Next]_vars
    PROVE  SessionInv'
<1>1. ASSUME UNCHANGED vars PROVE SessionInv'
  BY <1>1, OnTheWay, PacketStep DEF vars, hostVars, netVars
<1>2. CASE Next
  BY <1>2, ConnectInv, HangupInv, AnswerNumberInv, DatagramInv, ConnectionEndsInv,
     OnTcpConnectionInv, OnTcpDisconnectionInv, OnAnswerInv
     DEF Next, HandleTcpEvents, OnUdpData
<1>3. QED
  BY <1>1, <1>2

THEOREM SessionInvariant == Spec => []SessionInv
<1>1. Init => SessionInv
  BY InitInv
<1>2. SessionInv /\ [Next]_vars => SessionInv'
  BY NextInv
<1>3. QED
  BY <1>1, <1>2, PTL DEF Spec

\* The variables of net::Server keep their types, and its client list is what
\* it was told of connections.
THEOREM SessionsAreTyped == Spec => []TypeOK
<1>1. SessionInv => TypeOK
  BY DEF SessionInv
<1>2. QED
  BY <1>1, SessionInvariant, PTL

\* _udp_connection_cache and _clients agree both ways, whatever the order in
\* which sessions end, hosts come back and late datagrams arrive.
THEOREM CacheAlwaysMatches == Spec => []CacheMatchesClients
<1>1. ASSUME SessionInv PROVE CacheMatchesClients
  <2>1. /\ DOMAIN cache \subseteq Hosts
        /\ \A h \in DOMAIN cache : cache[h] \in clients /\ udpAddr[cache[h]] = h
        /\ \A s \in clients : udpAddr[s] # NoAddr =>
               udpAddr[s] \in DOMAIN cache /\ cache[udpAddr[s]] = s
    BY <1>1 DEF SessionInv, LinkedOnce
  <2>2. \A s \in Sessions : HasUdpConnection(s) <=> s \in clients /\ udpAddr[s] # NoAddr
    <3> SUFFICES ASSUME NEW s \in clients, s \in Sessions
                 PROVE  Find(udpAddr[s]) # {} <=> udpAddr[s] # NoAddr
      BY DEF HasUdpConnection
    <3>1. udpAddr[s] \in Hosts \cup {NoAddr}
      BY <1>1, Parts
    <3>2. QED
      BY <2>1, <3>1, FindsItself, NoAddrIsNoHost
  <2>3. QED
    BY <2>1, <2>2 DEF CacheMatchesClients
<1>2. QED
  BY <1>1, SessionInvariant, PTL

\* net::Server hands out a host's packets, and sends a client's, only under a
\* session that host opened.
THEOREM LinksAlwaysAuthentic == Spec => []LinksAreAuthentic
<1>1. ASSUME SessionInv PROVE LinksAreAuthentic
  <2>1. /\ DOMAIN cache \subseteq Hosts
        /\ \A h \in DOMAIN cache : cache[h] \in clients /\ udpAddr[cache[h]] = h
        /\ \A s \in Sessions : udpAddr[s] # NoAddr => udpAddr[s] = hostOf[s]
    BY <1>1 DEF SessionInv, LinkedOnce
  <2>2. \A h \in DOMAIN cache : hostOf[cache[h]] = h
    <3> TAKE h \in DOMAIN cache
    <3>1. cache[h] \in Sessions /\ udpAddr[cache[h]] = h /\ h # NoAddr
      BY <1>1, <2>1, Parts, NoAddrIsNoHost
    <3>2. QED
      BY <2>1, <3>1
  <2>3. \A h \in Hosts : \A s \in HandedTo(h) : hostOf[s] = h
    <3> TAKE h \in Hosts
    <3>1. HandedTo(h) = {cache[key] : key \in {h} \cap DOMAIN cache}
      BY HeardAsSent, FindsItself DEF HandedTo
    <3>2. QED
      BY <2>2, <3>1
  <2>4. \A s \in Sessions : udpAddr[s] # NoAddr => SentTo(udpAddr[s]) = {hostOf[s]}
    <3> TAKE s \in Sessions
    <3>1. udpAddr[s] \in Hosts \cup {NoAddr}
      BY <1>1, Parts
    <3>2. QED
      BY <2>1, <3>1, SentToItself
  <2>5. QED
    BY <2>2, <2>3, <2>4 DEF LinksAreAuthentic
<1>2. QED
  BY <1>1, SessionInvariant, PTL
=============================================================================
