------------------------------- MODULE PollSet -------------------------------
(***************************************************************************)
(* net::Poll of lib_net: the descriptors a context thread waits for, in    *)
(* the order they were added, each with what it is waited for.             *)
(***************************************************************************)
EXTENDS Naturals, Sequences

In == "in"                             \* POLLIN
Out == "out"                           \* POLLOUT

FdsOf(fds) == {fds[i].fd : i \in DOMAIN fds}

\* Poll::add and Poll::add_write: one entry for a descriptor, whatever it is
\* waited for.
AskedFor(fds, fd, interest) ==
    IF fd \in FdsOf(fds)
    THEN [i \in DOMAIN fds |->
             IF fds[i].fd = fd THEN [fds[i] EXCEPT !.events = @ \cup {interest}]
             ELSE fds[i]]
    ELSE Append(fds, [fd |-> fd, events |-> {interest}])

Added(fds, fd) == AskedFor(fds, fd, In)

WriteAdded(fds, fd) == AskedFor(fds, fd, Out)

\* The entries at some positions, as the erasure of the others leaves them.
\* (SelectSeq would do, but nothing can be proved of it.)
Only(fds, positions) ==
    LET upto[i \in 0 .. Len(fds)] ==
            IF i = 0 THEN <<>>
            ELSE IF i \in positions THEN Append(upto[i - 1], fds[i])
            ELSE upto[i - 1]
    IN upto[Len(fds)]

Removed(fds, fd) == Only(fds, {i \in DOMAIN fds : fds[i].fd # fd})

\* Mutant of WriteRemoved: the entry goes with its POLLOUT.
WriteRemovedWhole(fds, fd) ==
    Only(fds, {i \in DOMAIN fds : fds[i].fd # fd \/ Out \notin fds[i].events})

\* Poll::remove_write: an entry waited for nothing else goes.
WriteRemoved(fds, fd) ==
    Only([i \in DOMAIN fds |->
             IF fds[i].fd = fd THEN [fds[i] EXCEPT !.events = @ \ {Out}] ELSE fds[i]],
         {i \in DOMAIN fds : fds[i].fd # fd \/ fds[i].events \ {Out} # {}})

\* Poll::wait: Read, Write and Error events of each descriptor in turn.
\* What is readable, writable or failing the kernel knows; a failure is
\* reported whether it is waited for or not.
Waited(fds, readable, writable, failing) ==
    LET some(e, type, cond) == IF cond THEN <<[fd |-> e.fd, type |-> type]>> ELSE <<>>
        of(e) == some(e, "read", In \in e.events /\ e.fd \in readable)
                 \o some(e, "write", Out \in e.events /\ e.fd \in writable)
                 \o some(e, "error", e.fd \in failing)
        upto[i \in 0 .. Len(fds)] == IF i = 0 THEN <<>> ELSE upto[i - 1] \o of(fds[i])
    IN upto[Len(fds)]
=============================================================================
