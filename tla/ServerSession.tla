---------------------------- MODULE ServerSession ----------------------------
(***************************************************************************)
(* net::Server of lib_net: how a TCP connection becomes a client, and how  *)
(* the client's UDP address is linked to it.                               *)
(*                                                                         *)
(* The server answers a connection with a number, over TCP.  The host      *)
(* sends it back transformed, once, in a datagram, and the server links    *)
(* the address the datagram came from.  Datagrams may be lost, duplicated  *)
(* and overtaken.  Of connections the class is told through the queue of   *)
(* its BaseServer, as Notices says; that of two sessions is in no order,   *)
(* so that a host may be back before the server hears that its last        *)
(* session is over.  What the notices of data bring is left out.           *)
(*                                                                         *)
(* host_udp binds an IPv4 socket, so that all addresses are of IPv4.       *)
(*                                                                         *)
(* The same class runs on both sides.  What a host's own Server sends over *)
(* TCP never leaves it (its context thread looks the connection up among   *)
(* the accepted ones), so that only the hosting side asks for links.       *)
(***************************************************************************)
EXTENDS Integers, Sequences, FiniteSets, Functions, Addresses

CONSTANTS
    Hosts,         \* connecting processes, by the address of their one UDP socket
    MaxSessions,   \* bound: TCP connections over a behaviour
    MayReturn,     \* whether a host opens a session after its last one
    MayLose,       \* whether datagrams get lost ...
    MayDuplicate   \* ... or are delivered twice

NoAddr == DefaultAddr                  \* a SocketAddr that was never set

ASSUME ServerSessionAssumption ==
    /\ Hosts \subseteq SocketAddrV4 \ {NoAddr}
    /\ MaxSessions \in Nat
    /\ {MayReturn, MayLose, MayDuplicate} \subseteq BOOLEAN

Sessions == 1 .. MaxSessions           \* connection ids and client uuids

ASKUDP_NUMBER == 1
ASKUDP_RESPONSE == 2
DATA == 256                            \* a type of the program's own

VARIABLES
    \* the hosts and the network
    opened,        \* sessions opened so far
    hostOf,        \* the host that opened each
    current,       \* the session each host is in, 0 for none
    stream,        \* packets on the TCP stream from the server, by session
    upwards,       \* datagrams on their way to the server
    downwards,     \* hosts a datagram of the server is on its way to
    wasted,        \* sessions a copy of whose answer got lost or was taken for data
    \* the server's BaseServer
    line,          \* the connection of each session, as in Notices
    queue,         \* and what is still to be told
    \* the server
    clients,       \* _clients
    number,        \* generated_number of each client
    udpAddr,       \* udp_addr of each client
    cache          \* _udp_connection_cache

hostVars == <<opened, hostOf, current, stream>>
netVars == <<upwards, downwards, wasted>>
lineVars == <<line, queue>>
serverVars == <<clients, number, udpAddr, cache>>
vars == <<hostVars, netVars, lineVars, serverVars>>

Tcp == INSTANCE Notices WITH Lines <- Sessions

-----------------------------------------------------------------------------
\* transformNumberFunction; different numbers have different results.
Transformed(n) == n + MaxSessions

Datagram(h, type, s, n) == [from |-> h, type |-> type, session |-> s, number |-> n]
\* ask_udp_connection_request: the client's uuid and number.
Ask(s) == [type |-> ASKUDP_NUMBER, session |-> s, number |-> s]

Init ==
    /\ opened = 0
    /\ hostOf = [s \in Sessions |-> NoAddr]
    /\ current = [h \in Hosts |-> 0]
    /\ stream = [s \in Sessions |-> <<>>]
    /\ upwards = {}
    /\ downwards = {}
    /\ wasted = {}
    /\ Tcp!Init
    /\ clients = {}
    /\ number = [s \in Sessions |-> 0]
    /\ udpAddr = [s \in Sessions |-> NoAddr]
    /\ cache = [h \in {} |-> 0]

-----------------------------------------------------------------------------
(* Hosts. *)

\* connect_tcp and connect_udp, then start; the server accepts connections in
\* the order they were made.  The UDP socket stays when the host comes back.
Connect(h) ==
    /\ current[h] = 0
    /\ opened < MaxSessions
    /\ MayReturn \/ \A s \in Sessions : hostOf[s] # h
    /\ opened' = opened + 1
    /\ hostOf' = [hostOf EXCEPT ![opened + 1] = h]
    /\ current' = [current EXCEPT ![h] = opened + 1]
    /\ Tcp!Up(opened + 1)
    /\ UNCHANGED <<stream, netVars, serverVars>>

Hangup(h) ==
    /\ current[h] # 0
    /\ current' = [current EXCEPT ![h] = 0]
    /\ UNCHANGED <<opened, hostOf, stream, netVars, lineVars, serverVars>>

\* The host's on_tcp_data on an ASKUDP_NUMBER: one datagram in return.
AnswerNumber(h) ==
    /\ current[h] # 0
    /\ LET s == current[h] IN
       /\ stream[s] # <<>>
       /\ stream' = [stream EXCEPT ![s] = Tail(@)]
       /\ LET asked == Head(stream[s]) IN
          upwards' = upwards \cup
              {Datagram(h, ASKUDP_RESPONSE, asked.session, Transformed(asked.number))}
    /\ UNCHANGED <<opened, hostOf, current, downwards, wasted, lineVars, serverVars>>

HostSends(h) ==
    /\ current[h] # 0
    /\ upwards' = upwards \cup {Datagram(h, DATA, 0, 0)}
    /\ UNCHANGED <<hostVars, downwards, wasted, lineVars, serverVars>>

\* The host's on_udp_data.  Its _udp_confirmed is set, so it takes the packet
\* as one of the client its map has for the address, and its map is empty:
\* what it reads there is left out.
HostReceives(h) ==
    /\ h \in downwards
    /\ downwards' = downwards \ {h}
    /\ UNCHANGED <<hostVars, upwards, wasted, lineVars, serverVars>>

-----------------------------------------------------------------------------
(* The network. *)

Waste(d) ==
    wasted' = IF d.type = ASKUDP_RESPONSE THEN wasted \cup {d.session} ELSE wasted

Lose ==
    /\ MayLose
    /\ \/ \E d \in upwards :
             /\ upwards' = upwards \ {d}
             /\ Waste(d)
             /\ UNCHANGED downwards
       \/ \E h \in downwards :
             /\ downwards' = downwards \ {h}
             /\ UNCHANGED <<upwards, wasted>>
    /\ UNCHANGED <<hostVars, lineVars, serverVars>>

\* A datagram arrives; a copy of it may be still to come.
Arrives(d) ==
    /\ d \in upwards
    /\ \/ upwards' = upwards \ {d}
       \/ MayDuplicate /\ UNCHANGED upwards
    /\ UNCHANGED downwards

-----------------------------------------------------------------------------
(* The server. *)

\* The address recv_from gives for a host's datagrams.
Heard == [h \in Hosts |-> FromSockaddr(ToSockaddr(h))]

\* The keys the order of the map takes for an address.
Likes == [addr \in Range(Heard) \cup {NoAddr} |->
    {key \in Range(Heard) : SameKey(key, addr)}]

\* _udp_connection_cache.find
Find(addr) == Likes[addr] \cap DOMAIN cache

\* The context finds that a connection is over, or drops it.
ConnectionEnds(s) ==
    /\ Tcp!Down(s)
    /\ UNCHANGED <<hostVars, netVars, serverVars>>

\* Server::on_tcp_connection: a client with a fresh number, which is sent to
\* the host if the connection is still there.
OnTcpConnection(s) ==
    /\ Tcp!Tell("connection", s)
    /\ clients' = clients \cup {s}
    /\ number' = [number EXCEPT ![s] = s]
    /\ stream' = IF line[s] = "up" THEN [stream EXCEPT ![s] = Append(@, Ask(s))]
                 ELSE stream
    /\ UNCHANGED <<opened, hostOf, current, netVars, udpAddr, cache>>

\* Mutants of OnTcpDisconnection: the address stays cached; the uuid is taken
\* off the wrong list.
DisconnectionKeepsCache(s) ==
    /\ Tcp!Tell("disconnection", s)
    /\ clients' = clients \ {s}
    /\ UNCHANGED <<hostVars, netVars, number, udpAddr, cache>>

DisconnectionKeepsClient(s) ==
    /\ Tcp!Tell("disconnection", s)
    /\ cache' = [h \in DOMAIN cache \ Find(udpAddr[s]) |-> cache[h]]
    /\ UNCHANGED <<hostVars, netVars, clients, number, udpAddr>>

\* Server::on_tcp_disconnection: the client goes, and so does what its
\* address is cached for.
OnTcpDisconnection(s) ==
    /\ Tcp!Tell("disconnection", s)
    /\ cache' = [h \in DOMAIN cache \ Find(udpAddr[s]) |-> cache[h]]
    /\ clients' = clients \ {s}
    /\ UNCHANGED <<hostVars, netVars, number, udpAddr>>

HandleTcpEvents == \E s \in Sessions : OnTcpConnection(s) \/ OnTcpDisconnection(s)

\* Server::on_udp_data: the client on_packet gets the datagrams of a host for.
HandedTo(h) == {cache[key] : key \in Find(Heard[h])}

\* has_udp_connection
HasUdpConnection(s) == s \in clients /\ Find(udpAddr[s]) # {}

\* From an address that is linked.
OnLinkedData(d) ==
    /\ Arrives(d)
    /\ HandedTo(d.from) # {}
    /\ Waste(d)
    /\ UNCHANGED <<hostVars, lineVars, serverVars>>

\* Mutant of IsAnswer: the number is compared without its transformation.
RawAnswer(d) ==
    /\ d.type = ASKUDP_RESPONSE
    /\ d.session \in clients
    /\ number[d.session] = d.number

\* handle_udp_connection_request: the answer to the number of a client.
IsAnswer(d) ==
    /\ d.type = ASKUDP_RESPONSE
    /\ d.session \in clients
    /\ Transformed(number[d.session]) = d.number

OnAnswer(d) ==
    /\ Arrives(d)
    /\ HandedTo(d.from) = {}
    /\ IsAnswer(d)
    /\ LET addr == Heard[d.from] IN
       /\ udpAddr' = [udpAddr EXCEPT ![d.session] = addr]
       /\ cache' = [h \in DOMAIN cache \cup {addr} |->
                       IF h = addr THEN d.session ELSE cache[h]]
    /\ UNCHANGED <<hostVars, lineVars, clients, number, wasted>>

OnStrayData(d) ==
    /\ Arrives(d)
    /\ HandedTo(d.from) = {}
    /\ ~IsAnswer(d)
    /\ UNCHANGED <<hostVars, lineVars, serverVars, wasted>>

OnUdpData(d) == OnLinkedData(d) \/ OnAnswer(d) \/ OnStrayData(d)

\* send_to: the hosts a datagram to an address reaches.
SentTo(addr) == {h \in Hosts : ToSockaddr(h) = ToSockaddr(addr)}

\* send_udp and send_udp_all; to a client without an address it goes nowhere.
ServerSends(s) ==
    /\ s \in clients
    /\ udpAddr[s] # NoAddr
    /\ downwards' = downwards \cup SentTo(udpAddr[s])
    /\ UNCHANGED <<hostVars, upwards, wasted, lineVars, serverVars>>

Next ==
    \/ \E h \in Hosts :
        Connect(h) \/ Hangup(h) \/ AnswerNumber(h) \/ HostSends(h) \/ HostReceives(h)
    \/ Lose
    \/ \E s \in Sessions : ConnectionEnds(s) \/ ServerSends(s)
    \/ HandleTcpEvents
    \/ \E d \in upwards : OnUdpData(d)

Spec == Init /\ [][Next]_vars

\* Both sides call handle_events in a loop, and a datagram that is not lost
\* arrives.
Answers ==
    {Datagram(h, ASKUDP_RESPONSE, s, Transformed(s)) : h \in Hosts, s \in Sessions}

FairSpec ==
    /\ Spec
    /\ \A h \in Hosts : WF_vars(AnswerNumber(h))
    /\ WF_vars(HandleTcpEvents)
    /\ \A d \in Answers : SF_vars(OnUdpData(d))

-----------------------------------------------------------------------------
TypeOK ==
    /\ opened \in 0 .. MaxSessions
    /\ hostOf \in [Sessions -> Hosts \cup {NoAddr}]
    /\ current \in [Hosts -> 0 .. opened]
    /\ stream \in
           [Sessions -> Seq([type : {ASKUDP_NUMBER}, session : Sessions, number : Sessions])]
    /\ upwards \subseteq [from : Hosts, type : {ASKUDP_RESPONSE, DATA},
                          session : 0 .. MaxSessions, number : 0 .. 2 * MaxSessions]
    /\ downwards \subseteq Hosts
    /\ wasted \subseteq Sessions
    /\ line \in [Sessions -> {"none", "up", "down"}]
    /\ queue \in Seq([kind : {"connection", "disconnection"}, id : 1 .. opened])
    /\ clients = Tcp!Known
    /\ number \in [Sessions -> 0 .. MaxSessions]
    /\ udpAddr \in [Sessions -> Hosts \cup {NoAddr}]
    /\ cache \in [DOMAIN cache -> Sessions]

\* The cache and the client list agree both ways: a cached address is that of
\* a client that is still there, and a client that has an address is cached
\* under it, so that has_udp_connection says so exactly of the clients that
\* have one.  A client that leaves, in whatever order with its own late
\* datagrams and with its host's next session, leaves nothing behind.
CacheMatchesClients ==
    /\ \A s \in Sessions : HasUdpConnection(s) <=> s \in clients /\ udpAddr[s] # NoAddr
    /\ \A h \in DOMAIN cache : cache[h] \in clients /\ udpAddr[cache[h]] = h
    /\ \A s \in clients : udpAddr[s] # NoAddr =>
           udpAddr[s] \in DOMAIN cache /\ cache[udpAddr[s]] = s

\* An address is linked only to a session its own host opened, packets from a
\* host are handed out under such a session, and what the server sends to a
\* client reaches its host and no other, also when two hosts share an IP: the
\* number went to that host over TCP, nobody else could answer it, and the
\* order of the addresses tells two sockets apart.
LinksAreAuthentic ==
    /\ \A h \in DOMAIN cache : hostOf[cache[h]] = h
    /\ \A h \in Hosts : \A s \in HandedTo(h) : hostOf[s] = h
    /\ \A s \in Sessions : udpAddr[s] # NoAddr => SentTo(udpAddr[s]) = {hostOf[s]}

\* A host that stays in its session gets its address linked, as long as the
\* server keeps the connection and the one answer does not get lost and is not
\* taken for data of the session the same host had before.
AnswersLink ==
    \A h \in Hosts : \A s \in Sessions :
        (current[h] = s) ~>
            (\/ current[h] # s \/ line[s] = "down"
             \/ h \in DOMAIN cache /\ cache[h] = s
             \/ s \in wasted)
=============================================================================
