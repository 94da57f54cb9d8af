----------------------------- MODULE BaseServer -----------------------------
(***************************************************************************)
(* The TCP side of a hosting BaseServer of lib_net, with the net::Server   *)
(* that handles its events.                                                *)
(*                                                                         *)
(* The context thread polls the listener and the accepted connections,     *)
(* fills their read buffers, flushes their write buffers and closes them.  *)
(* The main thread sits in handle_events: it takes the events the context  *)
(* thread queued, keeps the list of clients and reads packets out of the   *)
(* buffers.  Two kinds of mutex stand between them: using_tcp_connection,  *)
(* which is connLock here, and one inside the reader of each connection.   *)
(* A call on a TsQueue is one step, as Fifo says.                          *)
(*                                                                         *)
(* tcp_connections is read by the main thread (find, at) while the context *)
(* thread may be inside emplace or erase.  A lookup that overlaps one may  *)
(* return either result.                                                   *)
(***************************************************************************)
EXTENDS Integers, Sequences, FiniteSets, Functions, FiniteSetsExt, SequencesExt,
        PollSet

CONSTANTS
    MaxConns,      \* bound: connections over a behaviour
    Capacity,      \* DEFAULT_BUF_SIZE, of the read buffers
    OutCapacity,   \* packets a write buffer takes
    PacketLen,     \* bytes of a packet, header and data
    MaxBytes,      \* bound: bytes each peer sends
    MaxSends,      \* bound: calls of send_tcp
    MaxStarts,     \* bound: calls of start_context
    Endings,       \* how peers end a connection: "closed", "reset"
    PollMayFail,   \* whether poll() may return an error, as on a signal
    SetupMayFail   \* whether accept() or fcntl() may return one

ASSUME BaseServerAssumption ==
    /\ {MaxConns, Capacity, OutCapacity, PacketLen} \subseteq Nat \ {0}
    /\ {MaxBytes, MaxSends, MaxStarts} \subseteq Nat
    /\ Endings \subseteq {"closed", "reset"}
    /\ {PollMayFail, SetupMayFail} \subseteq BOOLEAN

Conns == 1 .. MaxConns                 \* uuids, in the order they are drawn
Listener == 0                          \* descriptor of the listening socket
Fds == 1 .. MaxConns

VARIABLES
    \* the network
    knocked,       \* peers that have connected, accepted or not
    peer,          \* "none", "open", "closed" or "reset"
    wire,          \* bytes of each peer the kernel holds for recv
    sent,          \* bytes each peer has sent
    \* the context thread
    ctx,           \* where it is in context_loop, "off" outside it
    job,           \* the connection it is adding or closing
    accepted,      \* connections it took from the listener, and their uuids
    refused,       \* those it could not set up
    since,         \* those there were when it started
    polled,        \* Poll::fds, as PollSet has it
    events,        \* what is left of the events of this round
    conns,         \* tcp_connections: uuid to descriptor
    out,           \* packets in each connection's writer
    \* shared
    buffer,        \* _pos and _filled of each connection's reader
    connLock,      \* who holds using_tcp_connection
    tcpEvents, disconnects, sends,     \* the three queues
    running,       \* _running
    \* the main thread
    hosted,        \* whether there is a tcp_listener
    starts,        \* calls of start_context, for MaxStarts
    main,          \* where it is in handle_events
    reading,       \* the connection whose data it handles, 0 for none
    clients,       \* _clients of net::Server, by connection
    asked,         \* connections ask_disconnect was called for, until they are over
    written,       \* calls of send_tcp, for MaxSends
    taken          \* packets of each connection on_packet has had

netVars == <<knocked, peer, wire, sent>>
acceptVars == <<accepted, refused, since>>
ctxVars == <<ctx, job, acceptVars, polled, events, conns, out>>
setupVars == <<hosted, starts>>
mainVars == <<setupVars, main, reading, clients, asked, written, taken>>
sharedVars == <<buffer, connLock, tcpEvents, disconnects, sends, running>>
vars == <<netVars, ctxVars, sharedVars, mainVars>>

-----------------------------------------------------------------------------
NoJob == [id |-> 0, reader |-> FALSE, back |-> "events"]
EmptyBuffer == [pos |-> 0, filled |-> 0]

Event(kind, id) == [kind |-> kind, id |-> id]
PollEvent(fd, type, id) == [fd |-> fd, type |-> type, id |-> id]

Holders(fd) == {id \in DOMAIN conns : conns[id] = fd}
LowestFreeFd == Min(Fds \ Range(conns))

\* The context thread is inside emplace or erase.
Rehashing == ctx \in {"insert", "erase"}

\* The context thread closes a connection from inside its with_lock.
ReaderHeld(id) == ctx \in {"close", "erase", "announce"} /\ job.reader /\ job.id = id

Unread(id) == buffer[id].filled - buffer[id].pos

Init ==
    /\ knocked = 0
    /\ peer = [id \in Conns |-> "none"]
    /\ wire = [id \in Conns |-> 0]
    /\ sent = [id \in Conns |-> 0]
    /\ ctx = "off"
    /\ job = NoJob
    /\ accepted = 0
    /\ refused = {}
    /\ since = 0
    /\ polled = <<>>
    /\ events = <<>>
    /\ conns = [id \in {} |-> 0]
    /\ out = [id \in Conns |-> 0]
    /\ buffer = [id \in Conns |-> EmptyBuffer]
    /\ connLock = "free"
    /\ tcpEvents = <<>>
    /\ disconnects = <<>>
    /\ sends = <<>>
    /\ running = FALSE
    /\ hosted = FALSE
    /\ starts = 0
    /\ main = "idle"
    /\ reading = 0
    /\ clients = {}
    /\ asked = {}
    /\ written = 0
    /\ taken = [id \in Conns |-> 0]

-----------------------------------------------------------------------------
(* The network. *)

Knock ==
    /\ hosted
    /\ knocked < MaxConns
    /\ knocked' = knocked + 1
    /\ peer' = [peer EXCEPT ![knocked + 1] = "open"]
    /\ UNCHANGED <<wire, sent, ctxVars, sharedVars, mainVars>>

PeerSends(id) ==
    /\ peer[id] = "open"
    /\ sent[id] < MaxBytes
    /\ sent' = [sent EXCEPT ![id] = @ + 1]
    /\ wire' = [wire EXCEPT ![id] = @ + 1]
    /\ UNCHANGED <<knocked, peer, ctxVars, sharedVars, mainVars>>

PeerEnds(id, how) ==
    /\ peer[id] = "open"
    /\ peer' = [peer EXCEPT ![id] = how]
    /\ UNCHANGED <<knocked, wire, sent, ctxVars, sharedVars, mainVars>>

\* A connection the server closed: the kernel has nothing of it, and nothing
\* its peer did or does matters any more.
Forgotten(id) ==
    /\ peer' = [peer EXCEPT ![id] = "none"]
    /\ wire' = [wire EXCEPT ![id] = 0]
    /\ sent' = [sent EXCEPT ![id] = 0]
    /\ UNCHANGED knocked

-----------------------------------------------------------------------------
(* The context thread. *)

\* prepare_write: POLLOUT is asked for while a connection's writer holds
\* anything.
Prepared ==
    LET upto[id \in 0 .. MaxConns] ==
            IF id = 0 THEN polled
            ELSE IF id \notin DOMAIN conns THEN upto[id - 1]
            ELSE IF out[id] > 0 THEN WriteAdded(upto[id - 1], conns[id])
            ELSE WriteRemoved(upto[id - 1], conns[id])
    IN upto[MaxConns]

\* What Poll::wait finds; the kernel has room for the writable connections.
Found(fds, writable) ==
    LET fdsOf(ids) == {conns[id] : id \in ids}
        readable == (IF knocked > accepted THEN {Listener} ELSE {})
                    \cup fdsOf({id \in DOMAIN conns : wire[id] > 0 \/ peer[id] # "open"})
        failing == fdsOf({id \in DOMAIN conns : peer[id] = "reset"})
        whose(fd) == IF Holders(fd) = {} THEN 0 ELSE Max(Holders(fd))
        found == Waited(fds, readable, fdsOf(writable) \cup failing, failing)
    IN [j \in DOMAIN found |-> PollEvent(found[j].fd, found[j].type, whose(found[j].fd))]

\* Mutant of Poll: the errors are collected before the rest.
PollErrorsFirst ==
    /\ ctx = "top"
    /\ running
    /\ polled' = Prepared
    /\ \E writable \in SUBSET {id \in DOMAIN conns : out[id] > 0} :
           LET all == Found(polled', writable)
           IN events' = SelectSeq(all, LAMBDA e : e.type = "error")
                        \o SelectSeq(all, LAMBDA e : e.type # "error")
    /\ ctx' = "events"
    /\ UNCHANGED <<netVars, job, acceptVars, conns, out, sharedVars, mainVars>>

\* The head of a round, up to Poll::wait, which returns after 1 ms at most.
Poll ==
    /\ ctx = "top"
    /\ running
    /\ polled' = Prepared
    /\ \E writable \in SUBSET {id \in DOMAIN conns : out[id] > 0} :
           events' = Found(polled', writable)
    /\ ctx' = "events"
    /\ UNCHANGED <<netVars, job, acceptVars, conns, out, sharedVars, mainVars>>

\* The loop ends when the main thread says so, or when poll() fails; in the
\* second case _running stays set.
LeaveLoop ==
    /\ ctx = "top"
    /\ ~running \/ PollMayFail
    /\ ctx' = "off"
    /\ polled' = <<>>
    /\ UNCHANGED <<netVars, job, acceptVars, events, conns, out, sharedVars, mainVars>>

NextEvent(type) == ctx = "events" /\ events # <<>> /\ Head(events).type = type

\* accept fails, and the peer stays where it is.
AcceptFails ==
    /\ SetupMayFail
    /\ NextEvent("read")
    /\ Head(events).fd = Listener
    /\ events' = Tail(events)
    /\ UNCHANGED <<netVars, ctx, job, acceptVars, polled, conns, out, sharedVars, mainVars>>

\* set_nonblocking fails: the descriptor is closed but stays in the poll.
Refuse ==
    /\ SetupMayFail
    /\ NextEvent("read")
    /\ Head(events).fd = Listener
    /\ events' = Tail(events)
    /\ accepted' = accepted + 1
    /\ refused' = refused \cup {accepted'}
    /\ polled' = Added(polled, LowestFreeFd)
    /\ Forgotten(accepted')
    /\ UNCHANGED <<ctx, job, since, conns, out, sharedVars, mainVars>>

\* UuidGenerator::new_uuid draws until the uuid is a new one.
NewUuid == accepted + 1

\* Mutant of Accept: the uuid is that of the last connection.
AcceptStaleId ==
    /\ NextEvent("read")
    /\ Head(events).fd = Listener
    /\ events' = Tail(events)
    /\ accepted' = accepted + 1
    /\ polled' = Added(polled, LowestFreeFd)
    /\ job' = [NoJob EXCEPT !.id = accepted]
    /\ ctx' = "insert"
    /\ UNCHANGED <<netVars, refused, since, conns, out, sharedVars, mainVars>>

\* handle_new_tcp_connections: accept, poll.add, new_uuid ...
Accept ==
    /\ NextEvent("read")
    /\ Head(events).fd = Listener
    /\ events' = Tail(events)
    /\ accepted' = accepted + 1
    /\ polled' = Added(polled, LowestFreeFd)
    /\ job' = [NoJob EXCEPT !.id = NewUuid]
    /\ ctx' = "insert"
    /\ UNCHANGED <<netVars, refused, since, conns, out, sharedVars, mainVars>>

\* ... and emplace, which holds no mutex, and the event.
Insert ==
    /\ ctx = "insert"
    /\ conns' = [id \in DOMAIN conns \cup {job.id} |->
                    IF id = job.id THEN LowestFreeFd ELSE conns[id]]
    /\ tcpEvents' = Append(tcpEvents, Event("connection", job.id))
    /\ job' = NoJob
    /\ ctx' = "events"
    /\ UNCHANGED <<netVars, acceptVars, polled, events, out, buffer, connLock,
                   disconnects, sends, running, mainVars>>

\* disconnect_tcp_connection up to its lock: the descriptor leaves the poll
\* and is closed.  reader says whether the caller is inside with_lock.
BeginClose(id, reader, back) ==
    /\ polled' = Removed(polled, conns[id])
    /\ job' = [id |-> id, reader |-> reader, back |-> back]
    /\ ctx' = "close"

\* A poll event of a descriptor no connection has any more.
SkipEvent ==
    /\ ctx = "events"
    /\ events # <<>>
    /\ Head(events).fd # Listener
    /\ Holders(Head(events).fd) = {}
    /\ events' = Tail(events)
    /\ UNCHANGED <<netVars, ctx, job, acceptVars, polled, conns, out, sharedVars, mainVars>>

\* Mutant of Compacted: nothing starts over.
NeverCompacted(b) == b

\* Buffer::fill_buf: a buffer read to its end starts over, and recv gets the
\* room behind _filled.
Compacted(b) == IF b.pos = b.filled THEN EmptyBuffer ELSE b

Received(id) == Min({wire[id], Capacity - Compacted(buffer[id]).filled})

Filled(id) == [Compacted(buffer[id]) EXCEPT !.filled = @ + Received(id)]

ReadableEvent(id) ==
    /\ NextEvent("read")
    /\ id \in Holders(Head(events).fd)
    /\ events' = Tail(events)

\* handle_tcp_read_events with data to read.
ReadData(id) ==
    /\ ReadableEvent(id)
    /\ Received(id) > 0
    /\ buffer' = [buffer EXCEPT ![id] = Filled(id)]
    /\ wire' = [wire EXCEPT ![id] = @ - Received(id)]
    /\ tcpEvents' = Append(tcpEvents, Event("read", id))
    /\ UNCHANGED <<knocked, peer, sent, ctx, job, acceptVars, polled, conns, out,
                   connLock, disconnects, sends, running, mainVars>>

\* An empty result: the end of the stream, or a buffer with no room left.
ReadEnd(id) ==
    /\ ReadableEvent(id)
    /\ Compacted(buffer[id]).filled = Capacity \/ (wire[id] = 0 /\ peer[id] = "closed")
    /\ buffer' = [buffer EXCEPT ![id] = Compacted(@)]
    /\ BeginClose(id, TRUE, "events")
    /\ UNCHANGED <<netVars, acceptVars, conns, out, connLock, tcpEvents,
                   disconnects, sends, running, mainVars>>

\* recv fails: the connection was reset.
ReadFails(id) ==
    /\ ReadableEvent(id)
    /\ wire[id] = 0
    /\ peer[id] = "reset"
    /\ Compacted(buffer[id]).filled < Capacity
    /\ buffer' = [buffer EXCEPT ![id] = Compacted(@)]
    /\ UNCHANGED <<netVars, ctx, job, acceptVars, polled, conns, out, connLock,
                   tcpEvents, disconnects, sends, running, mainVars>>

\* handle_tcp_write_events: the kernel takes some of the writer's bytes, or
\* the send fails and the connection is closed.
Flush(id) ==
    /\ NextEvent("write")
    /\ id \in Holders(Head(events).fd)
    /\ events' = Tail(events)
    /\ \/ /\ peer[id] # "reset"
          /\ \E left \in 0 .. out[id] - 1 : out' = [out EXCEPT ![id] = left]
          /\ UNCHANGED <<ctx, job, polled>>
       \/ /\ peer[id] # "open"
          /\ BeginClose(id, FALSE, "events")
          /\ UNCHANGED out
    /\ UNCHANGED <<netVars, acceptVars, conns, sharedVars, mainVars>>

\* handle_error
CloseOnError(id) ==
    /\ NextEvent("error")
    /\ id \in Holders(Head(events).fd)
    /\ events' = Tail(events)
    /\ BeginClose(id, FALSE, "events")
    /\ UNCHANGED <<netVars, acceptVars, conns, out, sharedVars, mainVars>>

EventsDone ==
    /\ ctx = "events"
    /\ events = <<>>
    /\ ctx' = "drain"
    /\ UNCHANGED <<netVars, job, acceptVars, polled, events, conns, out, sharedVars, mainVars>>

\* Mutant of DrainDisconnects: a connection that is not there any more is
\* announced all the same.
DrainUnchecked ==
    /\ ctx = "drain"
    /\ IF disconnects = <<>>
       THEN /\ ctx' = "send"
            /\ UNCHANGED <<job, polled, disconnects>>
       ELSE /\ disconnects' = Tail(disconnects)
            /\ IF Head(disconnects) \in DOMAIN conns
               THEN BeginClose(Head(disconnects), FALSE, "drain")
               ELSE /\ ctx' = "announce"
                    /\ job' = [NoJob EXCEPT !.id = Head(disconnects), !.back = "drain"]
                    /\ UNCHANGED polled
    /\ UNCHANGED <<netVars, acceptVars, events, conns, out, buffer, connLock,
                   tcpEvents, sends, running, mainVars>>

\* handle_disconnection
DrainDisconnects ==
    /\ ctx = "drain"
    /\ IF disconnects = <<>>
       THEN /\ ctx' = "send"
            /\ UNCHANGED <<job, polled, disconnects>>
       ELSE /\ disconnects' = Tail(disconnects)
            /\ IF Head(disconnects) \in DOMAIN conns
               THEN BeginClose(Head(disconnects), FALSE, "drain")
               ELSE UNCHANGED <<ctx, job, polled>>
    /\ UNCHANGED <<netVars, acceptVars, events, conns, out, buffer, connLock,
                   tcpEvents, sends, running, mainVars>>

\* The queued packets move to the writers; one that finds its writer full is
\* dropped, and so is one whose connection is gone.
DrainSends ==
    /\ ctx = "send"
    /\ IF sends = <<>>
       THEN /\ ctx' = "top"
            /\ UNCHANGED <<sends, out>>
       ELSE /\ sends' = Tail(sends)
            /\ LET id == Head(sends) IN
               out' = IF id \in DOMAIN conns /\ out[id] < OutCapacity
                      THEN [out EXCEPT ![id] = @ + 1] ELSE out
            /\ UNCHANGED ctx
    /\ UNCHANGED <<netVars, job, acceptVars, polled, events, conns, buffer, connLock,
                   tcpEvents, disconnects, running, mainVars>>

\* disconnect_tcp_connection from its lock on: erase, unlock, the event.
LockToErase ==
    /\ ctx = "close"
    /\ connLock = "free"
    /\ connLock' = "context"
    /\ ctx' = "erase"
    /\ UNCHANGED <<netVars, job, acceptVars, polled, events, conns, out, buffer,
                   tcpEvents, disconnects, sends, running, mainVars>>

Erase ==
    /\ ctx = "erase"
    /\ conns' = [id \in DOMAIN conns \ {job.id} |-> conns[id]]
    /\ out' = [out EXCEPT ![job.id] = 0]
    /\ buffer' = [buffer EXCEPT ![job.id] = EmptyBuffer]
    /\ Forgotten(job.id)
    /\ connLock' = "free"
    /\ ctx' = "announce"
    /\ UNCHANGED <<job, acceptVars, polled, events, tcpEvents, disconnects, sends,
                   running, mainVars>>

\* Mutant of Announce: a connection the program asked to drop has no event.
AnnounceOnlyErrors ==
    /\ ctx = "announce"
    /\ tcpEvents' = IF job.back = "drain" THEN tcpEvents
                    ELSE Append(tcpEvents, Event("disconnection", job.id))
    /\ job' = NoJob
    /\ ctx' = job.back
    /\ UNCHANGED <<netVars, acceptVars, polled, events, conns, out, buffer, connLock,
                   disconnects, sends, running, mainVars>>

Announce ==
    /\ ctx = "announce"
    /\ tcpEvents' = Append(tcpEvents, Event("disconnection", job.id))
    /\ job' = NoJob
    /\ ctx' = job.back
    /\ UNCHANGED <<netVars, acceptVars, polled, events, conns, out, buffer, connLock,
                   disconnects, sends, running, mainVars>>

-----------------------------------------------------------------------------
(* The main thread. *)

NextTcpEvent(kind) ==
    /\ main = "idle"
    /\ tcpEvents # <<>>
    /\ Head(tcpEvents).kind = kind
    /\ tcpEvents' = Tail(tcpEvents)

\* Server::on_tcp_connection, which sends the client its ASKUDP_NUMBER.
OnConnection ==
    /\ NextTcpEvent("connection")
    /\ clients' = clients \cup {Head(tcpEvents).id}
    /\ sends' = Append(sends, Head(tcpEvents).id)
    /\ UNCHANGED <<netVars, ctxVars, buffer, connLock, disconnects, running,
                   main, reading, asked, written, taken, setupVars>>

\* Server::on_tcp_disconnection; the model notes nothing of the connection
\* any more.
OnDisconnection ==
    /\ NextTcpEvent("disconnection")
    /\ clients' = clients \ {Head(tcpEvents).id}
    /\ asked' = asked \ {Head(tcpEvents).id}
    /\ taken' = [taken EXCEPT ![Head(tcpEvents).id] = 0]
    /\ UNCHANGED <<netVars, ctxVars, buffer, connLock, disconnects, sends, running,
                   main, reading, written, setupVars>>

\* A TcpRead: tcp_connections.find without the mutex.
FindConnection ==
    /\ NextTcpEvent("read")
    /\ \E found \in IF Rehashing THEN BOOLEAN
                    ELSE {Head(tcpEvents).id \in DOMAIN conns} :
           IF found THEN main' = "found" /\ reading' = Head(tcpEvents).id
           ELSE UNCHANGED <<main, reading>>
    /\ UNCHANGED <<netVars, ctxVars, buffer, connLock, disconnects, sends, running,
                   clients, asked, written, taken, setupVars>>

\* The mutex, and tcp_connections.at, which throws when there is no such key.
EnterConnection ==
    /\ main = "found"
    /\ connLock = "free"
    /\ \/ /\ reading \in DOMAIN conns
          /\ IF reading \in clients
             THEN connLock' = "main" /\ main' = "peek" /\ UNCHANGED reading
             ELSE main' = "idle" /\ reading' = 0 /\ UNCHANGED connLock
       \/ /\ reading \notin DOMAIN conns \/ ctx = "insert"
          /\ main' = "thrown"
          /\ UNCHANGED <<reading, connLock>>
    /\ UNCHANGED <<netVars, ctxVars, buffer, tcpEvents, disconnects, sends, running,
                   clients, asked, written, taken, setupVars>>

\* Mutants of PacketOrReturn: a call handles one packet only, or returns and
\* keeps the mutex.
OnePacketPerEvent(unread) ==
    IF unread >= PacketLen /\ main = "peek"
    THEN main' = "packet" /\ UNCHANGED <<reading, connLock>>
    ELSE main' = "idle" /\ reading' = 0 /\ connLock' = "free"

ReturnLocked(unread) ==
    IF unread >= PacketLen
    THEN main' = "packet" /\ UNCHANGED <<reading, connLock>>
    ELSE main' = "idle" /\ reading' = 0 /\ UNCHANGED connLock

\* Another: a packet that is all there is in the buffer is not yet taken for
\* complete.
LastPacketWaits(unread) ==
    IF unread > PacketLen
    THEN main' = "packet" /\ UNCHANGED <<reading, connLock>>
    ELSE main' = "idle" /\ reading' = 0 /\ connLock' = "free"

\* on_tcp_data goes on with the next packet of the buffer, if it is complete,
\* and returns otherwise.
PacketOrReturn(unread) ==
    IF unread >= PacketLen
    THEN main' = "packet" /\ UNCHANGED <<reading, connLock>>
    ELSE main' = "idle" /\ reading' = 0 /\ connLock' = "free"

Peek ==
    /\ main = "peek"
    /\ ~ReaderHeld(reading)
    /\ PacketOrReturn(Unread(reading))
    /\ UNCHANGED <<netVars, ctxVars, buffer, tcpEvents, disconnects, sends, running,
                   clients, asked, written, taken, setupVars>>

OnPacket ==
    /\ main = "packet"
    /\ taken' = [taken EXCEPT ![reading] = @ + 1]
    /\ main' = "consume"
    /\ UNCHANGED <<netVars, ctxVars, sharedVars, reading, clients, asked, written, setupVars>>

Consume ==
    /\ main = "consume"
    /\ ~ReaderHeld(reading)
    /\ LET consumed == Min({PacketLen, Unread(reading)}) IN
       /\ buffer' = [buffer EXCEPT ![reading].pos = @ + consumed]
       /\ PacketOrReturn(Unread(reading) - consumed)
    /\ UNCHANGED <<netVars, ctxVars, tcpEvents, disconnects, sends, running,
                   clients, asked, written, taken, setupVars>>

\* Calls the program makes between two handle_events or from a handler.
AskDisconnect(id) ==
    /\ main \in {"idle", "packet"}
    /\ id \in clients \ asked
    /\ asked' = asked \cup {id}
    /\ disconnects' = Append(disconnects, id)
    /\ UNCHANGED <<netVars, ctxVars, buffer, connLock, tcpEvents, sends, running,
                   main, reading, clients, written, taken, setupVars>>

SendTcp(id) ==
    /\ main \in {"idle", "packet"}
    /\ id \in clients
    /\ written < MaxSends
    /\ written' = written + 1
    /\ sends' = Append(sends, id)
    /\ UNCHANGED <<netVars, ctxVars, buffer, connLock, tcpEvents, disconnects, running,
                   main, reading, clients, asked, taken, setupVars>>

\* host_tcp, before the context runs ("should not be accessed/modified once
\* the server is running") and until it succeeds.
HostTcp ==
    /\ main = "idle"
    /\ ~running
    /\ ~hosted
    /\ hosted' \in BOOLEAN
    /\ UNCHANGED <<netVars, ctxVars, sharedVars, starts, main, reading, clients, asked,
                   written, taken>>

\* start_context, refused while the server runs, and the head of run_context:
\* a new Poll with the listener in it.  The connections accepted before are
\* not added to it.
Start ==
    /\ main = "idle"
    /\ ~running
    /\ starts < MaxStarts
    /\ starts' = starts + 1
    /\ running' = TRUE
    /\ ctx' = "top"
    /\ since' = accepted
    /\ polled' = IF hosted THEN Added(<<>>, Listener) ELSE <<>>
    /\ UNCHANGED <<netVars, job, accepted, refused, events, conns, out, buffer, connLock,
                   tcpEvents, disconnects, sends, hosted, main, reading, clients,
                   asked, written, taken>>

\* stop_context, and the join in it.
StopContext ==
    /\ main = "idle"
    /\ running
    /\ running' = FALSE
    /\ main' = "joining"
    /\ UNCHANGED <<netVars, ctxVars, buffer, connLock, tcpEvents, disconnects, sends,
                   reading, clients, asked, written, taken, setupVars>>

Joined ==
    /\ main = "joining"
    /\ ctx = "off"
    /\ main' = "idle"
    /\ UNCHANGED <<netVars, ctxVars, sharedVars, reading, clients, asked, written, taken, setupVars>>

-----------------------------------------------------------------------------
Network ==
    \/ Knock
    \/ \E id \in Conns :
        \/ PeerSends(id)
        \/ \E how \in Endings : PeerEnds(id, how)

\* What the context thread does, poll() errors apart.
Context ==
    \/ Poll
    \/ ~running /\ LeaveLoop
    \/ Accept \/ AcceptFails \/ Refuse
    \/ Insert
    \/ SkipEvent
    \/ \E id \in DOMAIN conns :
        ReadData(id) \/ ReadEnd(id) \/ ReadFails(id) \/ Flush(id) \/ CloseOnError(id)
    \/ EventsDone
    \/ DrainDisconnects
    \/ DrainSends
    \/ LockToErase
    \/ Erase
    \/ Announce

\* What handle_events does.
HandleEvents ==
    \/ OnConnection
    \/ OnDisconnection
    \/ FindConnection
    \/ EnterConnection
    \/ Peek
    \/ OnPacket
    \/ Consume

Calls ==
    \/ \E id \in Conns : AskDisconnect(id) \/ SendTcp(id)
    \/ HostTcp
    \/ Start
    \/ StopContext
    \/ Joined

Next == Network \/ Context \/ LeaveLoop \/ HandleEvents \/ Calls

Spec == Init /\ [][Next]_vars

\* The context thread runs, poll() waits 1 ms at most, and the program calls
\* handle_events in a loop.
FairSpec == Spec /\ WF_vars(Context) /\ WF_vars(HandleEvents)

-----------------------------------------------------------------------------
TypeOK ==
    /\ knocked \in 0 .. MaxConns
    /\ peer \in [Conns -> {"none", "open", "closed", "reset"}]
    /\ wire \in [Conns -> 0 .. MaxBytes]
    /\ sent \in [Conns -> 0 .. MaxBytes]
    /\ ctx \in {"top", "events", "insert", "drain", "send", "close", "erase",
                "announce", "off"}
    /\ job \in [id : Conns \cup {0}, reader : BOOLEAN, back : {"events", "drain"}]
    /\ accepted \in 0 .. knocked
    /\ refused \subseteq 1 .. accepted
    /\ since \in 0 .. accepted
    /\ polled \in Seq([fd : Fds \cup {Listener}, events : SUBSET {In, Out}])
    /\ events \in Seq([fd : Fds \cup {Listener}, type : {"read", "write", "error"},
                       id : Conns \cup {0}])
    /\ DOMAIN conns \subseteq (1 .. accepted) \ refused
    /\ conns \in [DOMAIN conns -> Fds]
    /\ out \in [Conns -> 0 .. OutCapacity]
    /\ buffer \in [Conns -> [pos : 0 .. Capacity, filled : 0 .. Capacity]]
    /\ \A id \in Conns : buffer[id].pos <= buffer[id].filled
    /\ connLock \in {"free", "context", "main"}
    /\ tcpEvents \in Seq([kind : {"connection", "read", "disconnection"}, id : Conns])
    /\ disconnects \in Seq(Conns)
    /\ sends \in Seq(Conns)
    /\ {running, hosted} \subseteq BOOLEAN
    /\ starts \in 0 .. MaxStarts
    /\ main \in {"idle", "found", "peek", "packet", "consume", "thrown", "joining"}
    /\ reading \in Conns \cup {0}
    /\ clients \subseteq 1 .. accepted
    /\ asked \subseteq Conns
    /\ written \in 0 .. MaxSends
    /\ taken \in [Conns -> Nat]

\* The connections as Notices has them.
Line(id) ==
    CASE id > accepted \/ id \in refused \/ (ctx = "insert" /\ job.id = id) -> "none"
      [] id \in DOMAIN conns \/ (ctx = "announce" /\ job.id = id) -> "up"
      [] OTHER -> "down"

Promise == INSTANCE Notices WITH
    Lines <- Conns,
    line <- [id \in Conns |-> Line(id)],
    queue <- tcpEvents

\* Of each connection the handlers are told once that it is there, then of its
\* data, then once that it is gone: whoever ended it, whether the program asked
\* for that as well, and whether the context was stopped and started again in
\* between.
KeepsPromise == Promise!Spec

\* The clients of net::Server are the connections it was told of: none is
\* missed, and none stays whose end it was told.
ClientsFollowConnections == clients = Promise!Known

\* The poll set is the listener and the connections accepted since the context
\* was started, each once and each waited for data, whatever POLLOUT was asked
\* for and withdrawn, and no two connections share a descriptor.  What else is
\* in it are older connections with something to write and closed descriptors
\* of connections that could not be set up.
PollSetMatchesConnections ==
    LET closed == IF ctx \in {"close", "erase"} THEN {job.id} ELSE {}
        added == IF ctx = "insert" THEN {LowestFreeFd} ELSE {}
        open == DOMAIN conns \ closed
        new == {id \in open : id > since}
        waited == {polled[i].fd : i \in {j \in DOMAIN polled : In \in polled[j].events}}
        rest == waited \ ({Listener} \cup {conns[id] : id \in open} \cup added)
    IN /\ ctx # "off" =>
              (IF hosted THEN {Listener} ELSE {}) \cup {conns[id] : id \in new} \cup added
                  \subseteq waited
       /\ \A i, j \in DOMAIN polled : polled[i].fd = polled[j].fd => i = j
       /\ FdsOf(polled) \ waited \subseteq {conns[id] : id \in open \ new}
       /\ Cardinality(rest) <= Cardinality({id \in refused : id > since})
       /\ \A i, j \in open : conns[i] = conns[j] => i = j

\* A poll event that waits for its turn while connections are closed and
\* accepted is never taken for another connection that got the descriptor.
EventsKeepTheirConnection ==
    \A j \in DOMAIN events :
        \A id \in Holders(events[j].fd) : id = events[j].id

\* If there is a complete packet in the read buffer of a connection, which is
\* not being closed, an event is queued for it or the main thread is at the
\* buffer.
HasEvent(id) ==
    id \in DOMAIN conns \ {job.id} /\ Unread(id) >= PacketLen =>
        \/ \E j \in DOMAIN tcpEvents : tcpEvents[j] = Event("read", id)
        \/ reading = id

\* No packet waits for the peer's next one.
BufferedPacketsHaveAnEvent == \A id \in Conns : HasEvent(id)

\* A look-up of a connection that is there, while the context thread is inside
\* emplace or erase of another, does not find it.
LookupMisses(id) ==
    /\ FindConnection
    /\ Rehashing
    /\ Head(tcpEvents).id = id
    /\ id \in DOMAIN conns \ {job.id}
    /\ reading' = 0

\* Nothing but such a look-up takes the event of a complete packet away before
\* the packet is taken: neither a call that finds part of a packet, nor another
\* connection that comes or goes, nor a context that ends or starts.
OnlyLookupsLoseEvents ==
    [][\A id \in Conns : HasEvent(id) => HasEvent(id)' \/ LookupMisses(id)]_vars

\* A connection leaves only when its peer ended it, the program asked for it
\* or its read buffer held unread bytes and had no room behind them.
DropsAreJustified ==
    [][\A id \in DOMAIN conns \ DOMAIN conns' :
          \/ peer[id] # "open"
          \/ id \in asked
          \/ Unread(id) > 0 /\ buffer[id].filled = Capacity]_vars

\* The main thread holds using_tcp_connection and wants the reader's mutex,
\* the context thread holds the reader's and wants the other.
NeverDeadlocked ==
    ~ /\ main \in {"peek", "consume"}
      /\ connLock = "main"
      /\ ctx = "close"
      /\ ReaderHeld(reading)

\* handle_events never lets the exception of tcp_connections.at escape.
NeverThrows == main # "thrown"

\* The main thread got the exception, or is in the deadlock.
Stuck == ~NeverThrows \/ ~NeverDeadlocked

\* A client the program wants gone goes (ask_disconnect), as long as the
\* context runs and the main thread is not stuck.
AskedAreDropped ==
    \A id \in Conns : (id \in asked) ~> (id \notin clients \/ ~running \/ Stuck)

\* Every packet a peer sends in full reaches on_packet, unless its connection
\* is dropped or older than the run of the context: none sleeps in the wire or
\* in the read buffer.
PacketsArrive ==
    \A id \in Conns : \A n \in 1 .. MaxBytes \div PacketLen :
        (sent[id] >= n * PacketLen) ~>
            (\/ taken[id] >= n
             \/ id <= accepted /\ ctx # "insert" /\ id \notin DOMAIN conns
             \/ id <= since
             \/ peer[id] # "open" \/ ~running \/ Stuck)
=============================================================================
