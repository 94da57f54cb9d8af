------------------------------- MODULE Sockets -------------------------------
(***************************************************************************)
(* The socket wrappers of lib_net over the descriptors a process has open. *)
(*                                                                         *)
(* A wrapper is a number that nobody closes for it.  A call that makes one *)
(* is a set of outcomes, since each system call in it may fail: what is    *)
(* open afterwards, and the number, or NoFd with an error.                 *)
(***************************************************************************)
EXTENDS Naturals, FiniteSetsExt

NoFd == 0

Outcome(open, fd) == [open |-> open, fd |-> fd]
Failure(open) == Outcome(open, NoFd)

\* socket(2) takes the lowest number that is free.
LowestFree(open) == Min((1 .. Cardinality(open) + 1) \ open)

\* close(2); of a number that is not open it is an error and changes nothing.
Closed(open, fd) == open \ {fd}

\* Socket::create(domain, type)
Created(open) ==
    {Failure(open), Outcome(open \cup {LowestFree(open)}, LowestFree(open))}

\* The next call on the new socket may fail, and then it is closed.
OrClosed(outcomes) == outcomes \cup {Failure(Closed(o.open, o.fd)) : o \in outcomes}

\* Socket::create(addr, type), which binds, and UdpSocket::any.
CreatedBound(open) == OrClosed(Created(open))
AnyUdp(open) == CreatedBound(open)

\* TcpStream::connect
ConnectedStream(open) == OrClosed(Created(open))
=============================================================================
