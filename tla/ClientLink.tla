----------------------------- MODULE ClientLink -----------------------------
(***************************************************************************)
(* The client mode of BaseServer: a process that connected to a server     *)
(* with connect_tcp and connect_udp and drives it with start_context,      *)
(* handle_events and stop_context.                                         *)
(*                                                                         *)
(* The one connection is tcp_connection, the link here, which the context  *)
(* thread polls, reads and, on an error, resets.  The main thread reads    *)
(* packets through a reference into it that no mutex protects.  The main   *)
(* thread may stop the context, and then connect or start again.           *)
(*                                                                         *)
(* Buffers count packets (PacketStream has their bytes), the wire the      *)
(* packets the kernel holds.  Sockets has the descriptors, which the       *)
(* kernel gives out again once they are closed; the link's is closed twice *)
(* when it goes.  A call on a TsQueue is one step, as Fifo says.  What      *)
(* send_tcp queues the context looks up among the accepted connections, of  *)
(* which a client has none, and drops: it is left out, and so is            *)
(* ask_disconnect, which ends in the same lookup.                           *)
(***************************************************************************)
EXTENDS Naturals, Sequences, FiniteSets, PollSet, Sockets

CONSTANTS
    MaxLinks,      \* bound: calls of connect_tcp that connect
    MaxStarts,     \* bound: calls of start_context
    MaxPackets,    \* bound: packets each far end sends
    MaxDatagrams,  \* bound: datagrams, each way
    Capacity,      \* packets the read buffer holds
    PollMayFail    \* whether poll() may return an error

ASSUME ClientLinkAssumption ==
    /\ {MaxLinks, MaxStarts, MaxPackets, MaxDatagrams} \subseteq Nat
    /\ Capacity \in Nat \ {0}
    /\ PollMayFail \in BOOLEAN

Links == 1 .. MaxLinks                 \* uuids, in the order they are drawn

VARIABLES
    \* the network
    peer,          \* the far end of the link: "none", "open", "closed", "reset"
    wire,          \* packets of the link the kernel holds
    sent,          \* packets its far end sent
    inbox,         \* datagrams the kernel holds: "data", or "bare" without data
    came,          \* datagrams with data that came
    open,          \* descriptors the server has open
    \* what the public functions set up
    drawn,         \* uuids drawn
    link,          \* tcp_connection_id, 0 while tcp_connection is empty
    linkFd, udpFd, \* descriptors of tcp_connection and of udp_socket, if any
    starts,        \* calls of start_context
    running,       \* _running
    \* the context thread
    ctx,           \* where it is in context_loop, "off" outside it
    watched,       \* its Poll, as PollSet has it, over the sockets "udp" and "tcp"
    events,        \* what is left of the events of this round
    \* shared
    buffer,        \* packets in the link's reader
    tcpEvents, received, sends,        \* the queues; the UDP ones count
    \* the main thread
    main,          \* "idle", "joining", "lookup", "reading", "wild" or "gone"
    reading,       \* the connection it reads packets of
    ahead,         \* packets in the span it got of the buffer last
    clients,       \* _clients of net::Server, by connection
    asked,         \* datagrams send_udp was called for
    taken,         \* packets of the link handed out
    seen           \* datagrams handed to on_udp_data

netVars == <<peer, wire, sent, inbox, came, open>>
setupVars == <<drawn, link, linkFd, udpFd, starts, running>>
ctxVars == <<ctx, watched, events>>
sharedVars == <<buffer, tcpEvents, received, sends>>
mainVars == <<main, reading, ahead, clients, asked, taken, seen>>
vars == <<netVars, setupVars, ctxVars, sharedVars, mainVars>>

Event(kind, id) == [kind |-> kind, id |-> id]

Init ==
    /\ peer = "none"
    /\ wire = 0
    /\ sent = 0
    /\ inbox = <<>>
    /\ came = 0
    /\ open = {}
    /\ drawn = 0
    /\ link = 0
    /\ linkFd = NoFd
    /\ udpFd = NoFd
    /\ starts = 0
    /\ running = FALSE
    /\ ctx = "off"
    /\ watched = <<>>
    /\ events = <<>>
    /\ buffer = 0
    /\ tcpEvents = <<>>
    /\ received = 0
    /\ sends = 0
    /\ main = "idle"
    /\ reading = 0
    /\ ahead = 0
    /\ clients = {}
    /\ asked = 0
    /\ taken = 0
    /\ seen = 0

-----------------------------------------------------------------------------
(* The network. *)

PeerSends ==
    /\ peer = "open"
    /\ sent < MaxPackets
    /\ sent' = sent + 1
    /\ wire' = wire + 1
    /\ UNCHANGED <<peer, inbox, came, open, setupVars, ctxVars, sharedVars, mainVars>>

\* A reset throws away what the kernel still holds.
PeerEnds(how) ==
    /\ peer = "open"
    /\ peer' = how
    /\ wire' = IF how = "reset" THEN 0 ELSE wire
    /\ UNCHANGED <<sent, inbox, came, open, setupVars, ctxVars, sharedVars, mainVars>>

DatagramComes(kind) ==
    /\ udpFd # NoFd
    /\ inbox = <<>>
    /\ came < MaxDatagrams
    /\ inbox' = <<kind>>
    /\ came' = IF kind = "data" THEN came + 1 ELSE came
    /\ UNCHANGED <<peer, wire, sent, open, setupVars, ctxVars, sharedVars, mainVars>>

-----------------------------------------------------------------------------
(* The program: what it calls between two calls of handle_events. *)

\* The connection there is in tcp_connection from now on.
LinkUp(fd) ==
    /\ drawn' = drawn + 1
    /\ link' = drawn'
    /\ linkFd' = fd
    /\ peer' = "open"
    /\ sent' = 0
    /\ taken' = 0
    /\ tcpEvents' = Append(tcpEvents, Event("connection", drawn'))

\* Mutant of ConnectTcp: the connection there is gets replaced.
ConnectTcpAgain ==
    /\ main = "idle"
    /\ ~running
    /\ drawn < MaxLinks
    /\ \E o \in ConnectedStream(open) :
          /\ open' = o.open
          /\ IF o.fd = NoFd
             THEN UNCHANGED <<drawn, link, linkFd, peer, sent, taken, tcpEvents>>
             ELSE LinkUp(o.fd)
    /\ UNCHANGED <<wire, inbox, came, udpFd, starts, running, ctxVars, buffer,
                   received, sends, main, reading, ahead, clients, asked, seen>>

\* connect_tcp, refused while the server runs or has a connection.
ConnectTcp ==
    /\ main = "idle"
    /\ ~running
    /\ link = 0
    /\ drawn < MaxLinks
    /\ \E o \in ConnectedStream(open) :
          /\ open' = o.open
          /\ IF o.fd = NoFd
             THEN UNCHANGED <<drawn, link, linkFd, peer, sent, taken, tcpEvents>>
             ELSE LinkUp(o.fd)
    /\ UNCHANGED <<wire, inbox, came, udpFd, starts, running, ctxVars, buffer,
                   received, sends, main, reading, ahead, clients, asked, seen>>

\* Mutant of ConnectUdp: it is not refused while the server runs.
ConnectUdpAnyTime ==
    /\ main = "idle"
    /\ udpFd = NoFd
    /\ \E o \in AnyUdp(open) :
          /\ open' = o.open
          /\ udpFd' = o.fd
    /\ UNCHANGED <<peer, wire, sent, inbox, came, drawn, link, linkFd, starts,
                   running, ctxVars, sharedVars, mainVars>>

\* connect_udp, refused while the server runs or has a socket.  local_addr
\* may still fail: udp_socket is set by then, and only udp_connection_addr is
\* not, so that the program needs an address of its own to send to.
ConnectUdp ==
    /\ main = "idle"
    /\ ~running
    /\ udpFd = NoFd
    /\ \E o \in AnyUdp(open) :
          /\ open' = o.open
          /\ udpFd' = o.fd
    /\ UNCHANGED <<peer, wire, sent, inbox, came, drawn, link, linkFd, starts,
                   running, ctxVars, sharedVars, mainVars>>

\* host_udp, before the context runs and with no socket yet: it looks at
\* neither.
HostUdp ==
    /\ main = "idle"
    /\ ~running
    /\ udpFd = NoFd
    /\ \E o \in CreatedBound(open) :
          /\ open' = o.open
          /\ udpFd' = o.fd
    /\ UNCHANGED <<peer, wire, sent, inbox, came, drawn, link, linkFd, starts,
                   running, ctxVars, sharedVars, mainVars>>

\* Mutant of Start: the UDP socket is added only when there is no connection.
StartElseIf ==
    /\ main = "idle"
    /\ ~running
    /\ starts < MaxStarts
    /\ starts' = starts + 1
    /\ running' = TRUE
    /\ ctx' = "top"
    /\ watched' = IF link # 0 THEN Added(<<>>, "tcp")
                  ELSE IF udpFd # NoFd THEN Added(<<>>, "udp") ELSE <<>>
    /\ UNCHANGED <<netVars, drawn, link, linkFd, udpFd, events, sharedVars, mainVars>>

\* start_context and the head of run_context, which adds the sockets there
\* are to a Poll of its own.
Start ==
    /\ main = "idle"
    /\ ~running
    /\ starts < MaxStarts
    /\ starts' = starts + 1
    /\ running' = TRUE
    /\ ctx' = "top"
    /\ watched' = LET first == IF udpFd = NoFd THEN <<>> ELSE Added(<<>>, "udp")
                  IN IF link = 0 THEN first ELSE Added(first, "tcp")
    /\ UNCHANGED <<netVars, drawn, link, linkFd, udpFd, events, sharedVars, mainVars>>

\* Mutant of Stop: it does not wait for the thread.
StopAndGo ==
    /\ main = "idle"
    /\ running
    /\ running' = FALSE
    /\ UNCHANGED <<netVars, drawn, link, linkFd, udpFd, starts, ctxVars, sharedVars, mainVars>>

\* stop_context: _running is cleared, and the thread joined.
Stop ==
    /\ main = "idle"
    /\ running
    /\ running' = FALSE
    /\ main' = "joining"
    /\ UNCHANGED <<netVars, drawn, link, linkFd, udpFd, starts, ctxVars, sharedVars,
                   reading, ahead, clients, asked, taken, seen>>

Joined ==
    /\ main = "joining"
    /\ ctx = "off"
    /\ main' = "idle"
    /\ UNCHANGED <<netVars, setupVars, ctxVars, sharedVars, reading, ahead,
                   clients, asked, taken, seen>>

\* ~BaseServer, once its stop_context is done: both sockets are closed, and
\* the link once more by its own destructor.
Destroy ==
    /\ main = "idle"
    /\ ~running
    /\ main' = "gone"
    /\ open' = Closed(Closed(open, udpFd), linkFd)
    /\ udpFd' = NoFd
    /\ linkFd' = NoFd
    /\ UNCHANGED <<peer, wire, sent, inbox, came, drawn, link, starts, running,
                   ctxVars, sharedVars, reading, ahead, clients, asked, taken, seen>>

\* send_udp, to udp_connection_addr or to an address the program has.
SendUdp ==
    /\ main = "idle"
    /\ udpFd # NoFd
    /\ asked < MaxDatagrams
    /\ asked' = asked + 1
    /\ sends' = sends + 1
    /\ UNCHANGED <<netVars, setupVars, ctxVars, buffer, tcpEvents, received,
                   main, reading, ahead, clients, taken, seen>>

-----------------------------------------------------------------------------
(* The context thread. *)

\* prepare_write: the link's writer is always empty ...
Quiet == IF link = 0 THEN watched ELSE WriteRemoved(watched, "tcp")

\* ... and the UDP socket is waited for as long as there is something to send.
Prepared(quiet) ==
    IF udpFd = NoFd THEN quiet
    ELSE IF sends > 0 THEN WriteAdded(quiet, "udp") ELSE WriteRemoved(quiet, "udp")

\* The head of a round, up to Poll::wait.  A UDP socket can always be written
\* to.
Poll ==
    /\ ctx = "top"
    /\ running
    /\ ctx' = "events"
    /\ \E quiet \in {Quiet} : watched' = Prepared(quiet)
    /\ LET readable == (IF inbox # <<>> THEN {"udp"} ELSE {})
                       \cup (IF wire > 0 \/ peer # "open" THEN {"tcp"} ELSE {})
           failing == IF peer = "reset" THEN {"tcp"} ELSE {}
       IN events' = Waited(watched', readable, {"udp"}, failing)
    /\ UNCHANGED <<netVars, setupVars, sharedVars, mainVars>>

\* The loop ends when stop_context says so, or when poll() fails; in the
\* second case _running stays set.
LeaveLoop ==
    /\ ctx = "top"
    /\ ~running \/ PollMayFail
    /\ ctx' = "off"
    /\ UNCHANGED <<netVars, setupVars, watched, events, sharedVars, mainVars>>

NextEvent(socket, type) ==
    /\ ctx = "events"
    /\ events # <<>>
    /\ Head(events) = [fd |-> socket, type |-> type]
    /\ events' = Tail(events)

\* What fill_buf may get: all there is room for when the buffer starts over,
\* less when what was read before is still in front of the rest.
Receivable ==
    LET most == IF wire < Capacity - buffer THEN wire ELSE Capacity - buffer
    IN IF buffer = 0 THEN {most} ELSE 0 .. most

\* handle_tcp_read_connection.  The end of the stream and an error are passed
\* over: the link stays.
ReadTcp ==
    /\ NextEvent("tcp", "read")
    /\ \E n \in Receivable :
          /\ wire' = wire - n
          /\ buffer' = buffer + n
          /\ tcpEvents' = IF n = 0 THEN tcpEvents
                          ELSE Append(tcpEvents, Event("read", link))
    /\ UNCHANGED <<peer, sent, inbox, came, open, setupVars, ctx, watched, received,
                   sends, mainVars>>

\* Mutant of FailTcp: the error is passed over too.
FailTcpIgnored ==
    /\ NextEvent("tcp", "error")
    /\ UNCHANGED <<netVars, setupVars, ctx, watched, sharedVars, mainVars>>

\* handle_error and disconnect_tcp_connection_single: the descriptor leaves
\* the poll and is closed, the main thread is told ...
FailTcp ==
    /\ NextEvent("tcp", "error")
    /\ tcpEvents' = Append(tcpEvents, Event("disconnection", link))
    /\ ctx' = "drop"
    /\ watched' = Removed(watched, "tcp")
    /\ open' = Closed(open, linkFd)
    /\ UNCHANGED <<peer, wire, sent, inbox, came, setupVars, buffer, received,
                   sends, mainVars>>

\* Mutant of Drop: tcp_connection and its id are not reset.
DropKeepsLink ==
    /\ ctx = "drop"
    /\ ctx' = "events"
    /\ wire' = 0
    /\ UNCHANGED <<peer, sent, inbox, came, open, setupVars, watched, events, buffer,
                   tcpEvents, received, sends, mainVars>>

\* ... and only then are tcp_connection and tcp_connection_id reset, without
\* a mutex; the connection's destructor closes its descriptor again.
Drop ==
    /\ ctx = "drop"
    /\ ctx' = "events"
    /\ link' = 0
    /\ open' = Closed(open, linkFd)
    /\ linkFd' = NoFd
    /\ peer' = "none"
    /\ wire' = 0
    /\ buffer' = 0
    /\ UNCHANGED <<sent, inbox, came, drawn, udpFd, starts, running, watched,
                   events, tcpEvents, received, sends, mainVars>>

\* handle_udp_read_event: one datagram, and none without data.
ReadUdp ==
    /\ NextEvent("udp", "read")
    /\ inbox' = <<>>
    /\ received' = IF Head(inbox) = "data" THEN received + 1 ELSE received
    /\ UNCHANGED <<peer, wire, sent, came, open, setupVars, ctx, watched, buffer,
                   tcpEvents, sends, mainVars>>

\* handle_udp_write_event: one datagram.
WriteUdp ==
    /\ NextEvent("udp", "write")
    /\ sends' = sends - 1
    /\ UNCHANGED <<netVars, setupVars, ctx, watched, buffer, tcpEvents,
                   received, mainVars>>

RoundDone ==
    /\ ctx = "events"
    /\ events = <<>>
    /\ ctx' = "top"
    /\ UNCHANGED <<netVars, setupVars, watched, events, sharedVars, mainVars>>

Context ==
    \/ Poll \/ LeaveLoop \/ ReadTcp \/ FailTcp \/ Drop
    \/ ReadUdp \/ WriteUdp \/ RoundDone

-----------------------------------------------------------------------------
(* The main thread in handle_events. *)

NextTcp(kind) ==
    /\ main = "idle"
    /\ tcpEvents # <<>>
    /\ Head(tcpEvents).kind = kind
    /\ tcpEvents' = Tail(tcpEvents)

\* Server::on_tcp_connection and on_tcp_disconnection.
OnConnection ==
    /\ NextTcp("connection")
    /\ clients' = clients \cup {Head(tcpEvents).id}
    /\ UNCHANGED <<netVars, setupVars, ctxVars, buffer, received, sends, main,
                   reading, ahead, asked, taken, seen>>

OnDisconnection ==
    /\ NextTcp("disconnection")
    /\ clients' = clients \ {Head(tcpEvents).id}
    /\ UNCHANGED <<netVars, setupVars, ctxVars, buffer, received, sends, main,
                   reading, ahead, asked, taken, seen>>

\* A read event: the connection is looked up ...
OnRead ==
    /\ NextTcp("read")
    /\ IF Head(tcpEvents).id = link
       THEN main' = "lookup" /\ reading' = link
       ELSE UNCHANGED <<main, reading>>
    /\ UNCHANGED <<netVars, setupVars, ctxVars, buffer, received, sends, ahead,
                   clients, asked, taken, seen>>

\* ... and Server::on_tcp_data gets a span of what its reader holds.
Look ==
    /\ main = "lookup"
    /\ reading = link
    /\ main' = "reading"
    /\ ahead' = buffer
    /\ UNCHANGED <<netVars, setupVars, ctxVars, sharedVars, reading, clients,
                   asked, taken, seen>>

\* Mutant of ReadPacket: one packet for each event.
ReadOnePacket ==
    /\ main = "reading"
    /\ ahead > 0
    /\ reading = link
    /\ taken' = taken + 1
    /\ buffer' = buffer - 1
    /\ ahead' = 0
    /\ UNCHANGED <<netVars, setupVars, ctxVars, tcpEvents, received, sends, main,
                   reading, clients, asked, seen>>

\* One packet goes to on_packet and is consumed, and the span is taken anew.
ReadPacket ==
    /\ main = "reading"
    /\ ahead > 0
    /\ reading = link
    /\ taken' = taken + 1
    /\ buffer' = buffer - 1
    /\ ahead' = buffer'
    /\ UNCHANGED <<netVars, setupVars, ctxVars, tcpEvents, received, sends, main,
                   reading, clients, asked, seen>>

ReadDone ==
    /\ main = "reading"
    /\ ahead = 0
    /\ main' = "idle"
    /\ reading' = 0
    /\ UNCHANGED <<netVars, setupVars, ctxVars, sharedVars, ahead, clients,
                   asked, taken, seen>>

\* The reader is not there any more when it is used.  What happens then is
\* undefined; the model ends.
ReadGone ==
    /\ main = "lookup" \/ (main = "reading" /\ ahead > 0)
    /\ reading # link
    /\ main' = "wild"
    /\ UNCHANGED <<netVars, setupVars, ctxVars, sharedVars, reading, ahead,
                   clients, asked, taken, seen>>

OnUdp ==
    /\ main = "idle"
    /\ tcpEvents = <<>>
    /\ received > 0
    /\ received' = received - 1
    /\ seen' = seen + 1
    /\ UNCHANGED <<netVars, setupVars, ctxVars, buffer, tcpEvents, sends, main,
                   reading, ahead, clients, asked, taken>>

HandleEvents ==
    \/ OnConnection \/ OnDisconnection \/ OnRead \/ Look \/ ReadPacket
    \/ ReadDone \/ ReadGone \/ OnUdp \/ Joined

Program == ConnectTcp \/ ConnectUdp \/ HostUdp \/ Start \/ Stop \/ SendUdp \/ Destroy

Network ==
    \/ PeerSends
    \/ \E how \in {"closed", "reset"} : PeerEnds(how)
    \/ \E kind \in {"data", "bare"} : DatagramComes(kind)

Next == main \notin {"wild", "gone"} /\ (Network \/ Program \/ Context \/ HandleEvents)

Spec == Init /\ [][Next]_vars

\* poll() returns after at most 1 ms, and handle_events is called in a loop.
FairSpec == Spec /\ WF_vars(Context) /\ WF_vars(HandleEvents)

-----------------------------------------------------------------------------
TypeOK ==
    /\ peer \in {"none", "open", "closed", "reset"}
    /\ link \in 0 .. drawn /\ drawn \in 0 .. MaxLinks
    /\ (link = 0) <=> (peer = "none")
    /\ wire + buffer + taken <= sent /\ sent \in 0 .. MaxPackets
    /\ buffer \in 0 .. Capacity
    /\ inbox \in {<<>>, <<"data">>, <<"bare">>}
    /\ received + seen <= came /\ came \in 0 .. MaxDatagrams
    /\ sends <= asked /\ asked \in 0 .. MaxDatagrams
    /\ starts \in 0 .. MaxStarts
    /\ running \in BOOLEAN
    /\ ctx \in {"off", "top", "events", "drop"}
    /\ watched \in Seq([fd : {"udp", "tcp"}, events : SUBSET {In, Out}])
    /\ events \in Seq([fd : {"udp", "tcp"}, type : {"read", "write", "error"}])
    /\ tcpEvents \in Seq([kind : {"connection", "disconnection", "read"}, id : Links])
    /\ main \in {"idle", "joining", "lookup", "reading", "wild", "gone"}
    /\ open \subseteq {1, 2} /\ {linkFd, udpFd} \subseteq {NoFd, 1, 2}
    /\ reading \in 0 .. drawn
    /\ ahead \in 0 .. Capacity
    /\ clients \subseteq Links

\* The one connection as Notices has it, under each uuid it had.
Line(id) ==
    CASE id > drawn -> "none"
      [] id = link /\ ctx # "drop" -> "up"
      [] OTHER -> "down"

Promise == INSTANCE Notices WITH
    Lines <- Links,
    line <- [id \in Links |-> Line(id)],
    queue <- tcpEvents

\* A client is told of its connections as a host is: over resets, connections
\* made again and restarts of the context, each begins once, has its data and
\* ends once, in that order.
KeepsPromise == Promise!Spec

\* The one client the net::Server knows is the connection it was told of: over
\* resets and reconnections none stays behind and none is missing.
ClientsFollowLink == clients = Promise!Known

\* The server has exactly its own sockets open, whatever calls fail: nothing
\* leaks when connecting fails, when a link is reset or when the server ends,
\* and the second close of a reset link never closes a socket that was given
\* its number in between.
SocketsAreOwned ==
    open = {udpFd, IF ctx = "drop" THEN NoFd ELSE linkFd} \ {NoFd}

\* What the far end sends on the link and in datagrams is handed out, and
\* what send_udp was called for is sent, unless the link is reset, the context
\* leaves its loop or the main thread uses a reset link.
TrafficMoves ==
    /\ \A n \in 1 .. MaxPackets :
           (sent >= n) ~>
               (taken >= n \/ peer \in {"none", "reset"} \/ ctx = "off" \/ main = "wild")
    /\ \A n \in 1 .. MaxDatagrams :
           (came >= n) ~> (seen >= n \/ ctx = "off" \/ main = "wild")
    /\ \A n \in 1 .. MaxDatagrams :
           (asked >= n) ~> (asked - sends >= n \/ ctx = "off" \/ main = "wild")

\* A reset of the link reaches the net::Server, which forgets the client.
ResetsAreNoticed ==
    \A id \in Links :
        (link = id /\ peer = "reset") ~>
            ((link # id /\ id \notin clients) \/ ctx = "off" \/ main = "wild")
=====
