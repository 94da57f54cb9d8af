------------------------------ MODULE Addresses ------------------------------
(***************************************************************************)
(* SocketAddr of lib_net: the addresses datagrams come from and go to, the *)
(* order by which a std::map finds them, and the way to and from the       *)
(* kernel's sockaddr on a little-endian machine.                           *)
(*                                                                         *)
(* An address without flowinfo and scope has 0 there; the text of one is   *)
(* left out.                                                               *)
(***************************************************************************)
EXTENDS Integers, Sequences

Octets == 0 .. 255
Segments == 0 .. 65535
Ports == 0 .. 65535

SocketAddrV4 == [family : {4}, ip : [1 .. 4 -> Octets], port : Ports]
SocketAddrV6 ==
    [family : {6}, ip : [1 .. 8 -> Segments], port : Ports, flowinfo : Nat, scope : Nat]

\* The two constructors of SocketAddr that are used, and the default one.
V4(ip, port) == [family |-> 4, ip |-> ip, port |-> port]
V6(ip, port) == [family |-> 6, ip |-> ip, port |-> port, flowinfo |-> 0, scope |-> 0]
DefaultAddr == V4(<<0, 0, 0, 0>>, 0)

-----------------------------------------------------------------------------
(* The order. *)

\* The number of two bytes, and of four, from the high one down.
Number2(i, j) == i * 256 + j
Number4(i, j, k, l) == ((i * 256 + j) * 256 + k) * 256 + l

\* Ipv4Addr::to_uint32_t
Word(ip) == Number4(ip[1], ip[2], ip[3], ip[4])

\* operator< of SocketAddrV4
V4Less(a, b) ==
    \/ Word(a.ip) < Word(b.ip)
    \/ Word(a.ip) = Word(b.ip) /\ a.port < b.port

\* operator< of Ipv6Addr: the first segment that differs decides.
SegmentsLess(s, t) ==
    \E i \in 1 .. 8 : s[i] < t[i] /\ \A j \in 1 .. i - 1 : s[j] = t[j]

\* operator< of SocketAddrV6
V6Less(a, b) ==
    \/ SegmentsLess(a.ip, b.ip)
    \/ a.ip = b.ip /\ \/ a.port < b.port
                      \/ a.port = b.port /\ a.flowinfo < b.flowinfo
                      \/ /\ a.port = b.port /\ a.flowinfo = b.flowinfo
                         /\ a.scope < b.scope

\* Mutant of Less: the port is not looked at.
LessByIp(a, b) == a.family = b.family /\ Word(a.ip) < Word(b.ip)

\* operator< of SocketAddr: two families are not compared.
Less(a, b) ==
    \/ a.family = 4 /\ b.family = 4 /\ V4Less(a, b)
    \/ a.family = 6 /\ b.family = 6 /\ V6Less(a, b)

\* What a std::map takes for one key.
SameKey(a, b) == ~Less(a, b) /\ ~Less(b, a)

-----------------------------------------------------------------------------
(* The kernel's addresses: bytes in network order, as the kernel has them.  *)

\* The bytes of a number, from the low one up.
ByteAt(n, unit) == (n \div unit) % 256
LowByte(n) == ByteAt(n, 1)
SecondByte(n) == ByteAt(n, 256)
ThirdByte(n) == ByteAt(n, 65536)
HighByte(n) == ByteAt(n, 16777216)

\* htonl and htons, which turn the bytes of a number around.
Htonl(n) == Number4(LowByte(n), SecondByte(n), ThirdByte(n), HighByte(n))
Htons(n) == Number2(LowByte(n), SecondByte(n))

\* Ipv4Addr(uint32_t): the low byte comes first.
FromWord(n) == <<LowByte(n), SecondByte(n), ThirdByte(n), HighByte(n)>>

\* Ipv4Addr::parse_ascii: the first of the words getaddrinfo has for a name, in
\* network order as they lie in memory.  It has none for an empty name.
NoIp == <<>>
ParseAscii(words) == IF words = <<>> THEN NoIp ELSE FromWord(Head(words))

\* initialize_address.  Segments are copied as they lie in memory, and
\* flowinfo and scope stay behind.
ToSockaddr(a) ==
    [family |-> a.family,
     port |-> Htons(a.port),
     addr |-> IF a.family = 4 THEN Htonl(Word(a.ip)) ELSE a.ip]

\* address_from_sockaddr
FromSockaddr(s) ==
    IF s.family = 4 THEN V4(FromWord(s.addr), Htons(s.port)) ELSE V6(s.addr, Htons(s.port))
=============================================================================
