------------------------------- MODULE Notices -------------------------------
(***************************************************************************)
(* What BaseServer promises to the class that overrides its handlers: of   *)
(* each connection it is told once that it is there, then of data any      *)
(* number of times, then once that it is gone, and nothing after that.     *)
(*                                                                         *)
(* BaseServer keeps the promise for the connections it accepts, ClientLink *)
(* for the one it makes, and ServerSession builds on it.                   *)
(***************************************************************************)
EXTENDS Naturals, Sequences

CONSTANT Lines                         \* connections, by their uuids

VARIABLES
    line,          \* each connection: "none", "up" or "down"
    queue          \* what is still to be told, in order

vars == <<line, queue>>

Kinds == {"connection", "read", "disconnection"}
Notice(kind, c) == [kind |-> kind, id |-> c]

Init ==
    /\ line = [c \in Lines |-> "none"]
    /\ queue = <<>>

Up(c) ==
    /\ queue' = Append(queue, Notice("connection", c))
    /\ line[c] = "none"
    /\ line' = [line EXCEPT ![c] = "up"]

Read(c) ==
    /\ queue' = Append(queue, Notice("read", c))
    /\ line[c] = "up"
    /\ UNCHANGED line

Down(c) ==
    /\ queue' = Append(queue, Notice("disconnection", c))
    /\ line[c] = "up"
    /\ line' = [line EXCEPT ![c] = "down"]

\* The handler for the next notice is called.
Tell(kind, c) ==
    /\ queue # <<>>
    /\ Head(queue) = Notice(kind, c)
    /\ queue' = Tail(queue)
    /\ UNCHANGED line

Next ==
    \E c \in Lines :
        Up(c) \/ Read(c) \/ Down(c) \/ \E kind \in Kinds : Tell(kind, c)

Spec == Init /\ [][Next]_vars

-----------------------------------------------------------------------------
\* What the program knows of a connection after what it has been told.
Told(c) ==
    /\ line[c] # "none"
    /\ \A i \in DOMAIN queue : queue[i] # Notice("connection", c)

Over(c) ==
    /\ line[c] = "down"
    /\ \A i \in DOMAIN queue : queue[i] # Notice("disconnection", c)

Known == {c \in Lines : Told(c) /\ ~Over(c)}

\* The notices of one connection are queued in their order, and an end that
\* came before the rest was told is told after it.
Ordered ==
    /\ queue \in Seq([kind : Kinds, id : Lines])
    /\ line \in [Lines -> {"none", "up", "down"}]
    /\ \A i \in DOMAIN queue :
           /\ line[queue[i].id] # "none"
           /\ queue[i].kind = "disconnection" => line[queue[i].id] = "down"
           /\ queue[i].kind # "disconnection" /\ line[queue[i].id] = "down" =>
                  \E j \in DOMAIN queue : queue[j] = Notice("disconnection", queue[i].id)
    /\ \A i, j \in DOMAIN queue : i < j /\ queue[i].id = queue[j].id =>
           queue[i].kind # "disconnection" /\ queue[j].kind # "connection"

\* A class that adds a connection when it is told of one, and removes it when
\* it is told of its end, has exactly the known ones: it adds none twice, is told
\* of data and of the end of none it does not have, and nothing else changes
\* what it should have.
TellsInTurn ==
    [][\/ \E c \in Lines : \/ Tell("connection", c) /\ c \notin Known /\ Known' = Known \cup {c}
                           \/ Tell("read", c) /\ c \in Known /\ Known' = Known
                           \/ Tell("disconnection", c) /\ c \in Known /\ Known' = Known \ {c}
       \/ Known' = Known /\ \A c \in Lines, kind \in Kinds : ~Tell(kind, c)]_vars
=============================================================================
