----------------------------- MODULE PacketStream -----------------------------
(***************************************************************************)
(* The way of packets from send_tcp on one side of a connection to         *)
(* on_packet on the other: framed (Packet), appended to a BufWriter,       *)
(* flushed as far as the kernel takes them, received into a Buffer and     *)
(* parsed out of it.                                                       *)
(*                                                                         *)
(* Context threads write, flush and receive.  The main thread of the       *)
(* receiver parses the first packet of a call with the reader's mutex, but *)
(* for the others it takes a span of the unread bytes and lets go of the   *)
(* mutex, so that it parses while its context thread receives into the     *)
(* same array.                                                             *)
(***************************************************************************)
EXTENDS Naturals, Sequences, SequencesExt, FiniteSetsExt

CONSTANTS
    HeaderLen,     \* sizeof(Header)
    SizeLimit,     \* values of Header::size
    Capacity,      \* DEFAULT_BUF_SIZE, of writers and readers
    WireRoom,      \* bytes the kernel holds on the way
    DataLens,      \* lengths of the data the program sends
    MaxPackets     \* bound: packets the program sends

ASSUME PacketStreamAssumption ==
    /\ {HeaderLen, SizeLimit, Capacity, WireRoom} \subseteq Nat \ {0}
    /\ DataLens \subseteq Nat
    /\ MaxPackets \in Nat
    /\ HeaderLen < Capacity /\ Capacity <= SizeLimit

VARIABLES
    length,        \* the length of the data of each packet sent
    sends,         \* _send_tcp_queue
    accepted,      \* packets the writer took, in their order
    writer,        \* BufWriter::_buffer
    wire,          \* bytes the kernel holds
    buffer,        \* Buffer: its array, _pos and _filled
    up,            \* the receiver has not closed the connection
    due,           \* TcpRead events queued
    main,          \* where the main thread is in on_tcp_data
    span,          \* the part of the array the main thread parses
    received       \* what on_packet was called with

vars == <<length, sends, accepted, writer, wire, buffer, up, due, main, span, received>>

-----------------------------------------------------------------------------
(* Framing. *)

NoByte == [packet |-> 0, at |-> 0]

\* Packet::serialize: the header and the data of a packet, byte by byte.
Serialized(p) == [k \in 1 .. HeaderLen + length[p] |-> [packet |-> p, at |-> k]]

\* Header::size as the receiver reads it out of these bytes.  Bytes that are
\* no header read as some number, here the largest.
SizeIn(bytes) ==
    LET p == bytes[1].packet
    IN IF SubSeq(bytes, 1, HeaderLen) = SubSeq(Serialized(p), 1, HeaderLen)
       THEN length[p] % SizeLimit
       ELSE SizeLimit - 1

\* Packet::deserialize: whether the bytes begin with a packet, and which.
HasPacket(bytes) ==
    /\ Len(bytes) >= HeaderLen
    /\ Len(bytes) >= HeaderLen + SizeIn(bytes)

FirstPacket(bytes) == SubSeq(bytes, 1, HeaderLen + SizeIn(bytes))

Between(pos, filled) == SubSeq(buffer.bytes, pos + 1, filled)

-----------------------------------------------------------------------------
Init ==
    /\ length = <<>>
    /\ sends = <<>>
    /\ accepted = <<>>
    /\ writer = <<>>
    /\ wire = <<>>
    /\ buffer = [bytes |-> [k \in 1 .. Capacity |-> NoByte], pos |-> 0, filled |-> 0]
    /\ up = TRUE
    /\ due = 0
    /\ main = "idle"
    /\ span = [pos |-> 0, filled |-> 0]
    /\ received = <<>>

-----------------------------------------------------------------------------
(* The sender. *)

SendTcp(n) ==
    /\ Len(length) < MaxPackets
    /\ length' = Append(length, n)
    /\ sends' = Append(sends, Len(length) + 1)
    /\ UNCHANGED <<accepted, writer, wire, buffer, up, due, main, span, received>>

\* The end of a round of context_loop: a packet the writer has no room for is
\* dropped, and so is one that would just fill it.
WritePacket ==
    /\ sends # <<>>
    /\ sends' = Tail(sends)
    /\ LET p == Head(sends)
           fits == HeaderLen + length[p] < Capacity - Len(writer)
       IN /\ accepted' = IF fits THEN Append(accepted, p) ELSE accepted
          /\ writer' = IF fits THEN writer \o Serialized(p) ELSE writer
    /\ UNCHANGED <<length, wire, buffer, up, due, main, span, received>>

\* Mutant of Flushed: flush_buf clears the buffer whatever was sent.
FlushedAll(n) == <<>>

\* What flush_buf leaves when the kernel has taken n bytes.
Flushed(n) == SubSeq(writer, n + 1, Len(writer))

Flush(n) ==
    /\ n <= Len(writer)
    /\ Len(wire) + n <= WireRoom
    /\ wire' = wire \o SubSeq(writer, 1, n)
    /\ writer' = Flushed(n)
    /\ UNCHANGED <<length, sends, accepted, buffer, up, due, main, span, received>>

-----------------------------------------------------------------------------
(* The receiver's context thread. *)

\* Mutant of Compacted: what is left is moved to the front to make room.
MovedToFront(b) ==
    [bytes |-> [k \in 1 .. Capacity |->
                   IF k <= b.filled - b.pos THEN b.bytes[b.pos + k] ELSE b.bytes[k]],
     pos |-> 0, filled |-> b.filled - b.pos]

\* fill_buf starts over when everything was read ...
Compacted(b) == IF b.pos = b.filled THEN [b EXCEPT !.pos = 0, !.filled = 0] ELSE b

\* Mutant of Room: the room is that of the whole array.
WholeRoom(b) == Capacity

Room(b) == Capacity - b.filled

\* ... and receives into the room behind _filled.
FillBuf ==
    /\ up
    /\ wire # <<>>
    /\ LET b == Compacted(buffer)
           n == Min({Room(b), Len(wire)})
       IN /\ n > 0
          /\ buffer' = [bytes |-> [k \in 1 .. Capacity |->
                                      IF k \in b.filled + 1 .. b.filled + n
                                      THEN wire[k - b.filled] ELSE b.bytes[k]],
                        pos |-> b.pos, filled |-> b.filled + n]
          /\ wire' = SubSeq(wire, n + 1, Len(wire))
    /\ due' = due + 1
    /\ UNCHANGED <<length, sends, accepted, writer, up, main, span, received>>

\* Without room there is nothing to receive into, which counts as the end of
\* the stream.
FillFull ==
    /\ up
    /\ wire # <<>>
    /\ Room(Compacted(buffer)) = 0
    /\ up' = FALSE
    /\ UNCHANGED <<length, sends, accepted, writer, wire, buffer, due, main, span, received>>

-----------------------------------------------------------------------------
(* The receiver's main thread. *)

\* The packet the bytes begin with goes to on_packet; without one the call is
\* over.
Handle(bytes) ==
    IF HasPacket(bytes)
    THEN received' = Append(received, FirstPacket(bytes)) /\ main' = "consume"
    ELSE received' = received /\ main' = "idle"

\* A TcpRead event: the first packet, with the reader's mutex.
StartReading ==
    /\ up
    /\ main = "idle"
    /\ due > 0
    /\ due' = due - 1
    /\ Handle(Between(buffer.pos, buffer.filled))
    /\ UNCHANGED <<length, sends, accepted, writer, wire, buffer, up, span>>

\* The next one, out of the span and without the mutex.
Parse ==
    /\ up
    /\ main = "parse"
    /\ Handle(Between(span.pos, span.filled))
    /\ UNCHANGED <<length, sends, accepted, writer, wire, buffer, up, due, span>>

\* Mutant of Consume: the call is over after one packet.
ConsumeAndReturn ==
    /\ up
    /\ main = "consume"
    /\ LET pos == Min({buffer.pos + Len(Last(received)), buffer.filled}) IN
       /\ buffer' = [buffer EXCEPT !.pos = pos]
       /\ span' = [pos |-> pos, filled |-> buffer.filled]
    /\ main' = "idle"
    /\ UNCHANGED <<length, sends, accepted, writer, wire, up, due, received>>

\* With the mutex again: the packet is consumed, and the next span taken.
Consume ==
    /\ up
    /\ main = "consume"
    /\ LET pos == Min({buffer.pos + Len(Last(received)), buffer.filled}) IN
       /\ buffer' = [buffer EXCEPT !.pos = pos]
       /\ span' = [pos |-> pos, filled |-> buffer.filled]
    /\ main' = "parse"
    /\ UNCHANGED <<length, sends, accepted, writer, wire, up, due, received>>

-----------------------------------------------------------------------------
Sender == WritePacket \/ \E n \in 1 .. Capacity : Flush(n)
Receiver == FillBuf \/ FillFull
Main == StartReading \/ Parse \/ Consume

Next == (\E n \in DataLens : SendTcp(n)) \/ Sender \/ Receiver \/ Main

Spec == Init /\ [][Next]_vars

\* Both context threads run, and the main thread calls handle_events in a loop.
FairSpec == Spec /\ WF_vars(Sender) /\ WF_vars(Receiver) /\ WF_vars(Main)

-----------------------------------------------------------------------------
TypeOK ==
    /\ length \in Seq(DataLens)
    /\ sends \in Seq(DOMAIN length)
    /\ accepted \in Seq(DOMAIN length)
    /\ Len(writer) < Capacity
    /\ Len(wire) <= WireRoom
    /\ DOMAIN buffer.bytes = 1 .. Capacity
    /\ buffer.pos \in 0 .. buffer.filled /\ buffer.filled \in 0 .. Capacity
    /\ up \in BOOLEAN
    /\ due \in Nat
    /\ main \in {"idle", "parse", "consume"}
    /\ span.pos \in 0 .. span.filled /\ span.filled \in 0 .. Capacity

\* on_packet gets the packets the writer took, whole, in their order and each
\* once, although writers send any prefix of what they hold, packets are
\* parsed outside the reader's mutex and the array is filled meanwhile; a
\* packet too long for its header never leaves.
PacketsArriveWhole ==
    /\ Len(received) <= Len(accepted)
    /\ \A i \in DOMAIN received : received[i] = Serialized(accepted[i])

\* A packet the writer took reaches on_packet, unless the receiver's array
\* was full at its end while some of it was unread and it hung up.
PacketsGetThrough ==
    \A i \in 1 .. MaxPackets : (Len(accepted) >= i) ~> (Len(received) >= i \/ ~up)
=============================================================================
