-------------------------------- MODULE Fifo --------------------------------
(***************************************************************************)
(* What TsQueue promises its callers: one queue, one stop flag, and calls  *)
(* that each take effect in a single step.                                 *)
(***************************************************************************)
EXTENDS Naturals, Sequences

CONSTANTS Threads, Items, None

VARIABLES items, closed, call, answer

vars == <<items, closed, call, answer>>

Init ==
    /\ items = <<>>
    /\ closed = FALSE
    /\ call = [t \in Threads |-> "none"]
    /\ answer = [t \in Threads |-> None]

Put(x) ==
    /\ items' = Append(items, x)
    /\ UNCHANGED <<closed, call, answer>>

Close == closed' = TRUE /\ UNCHANGED <<items, call, answer>>

Empty == items' = <<>> /\ UNCHANGED <<closed, call, answer>>

Call(t, how) ==
    /\ call[t] = "none"
    /\ call' = [call EXCEPT ![t] = how]
    /\ answer' = [answer EXCEPT ![t] = None]
    /\ UNCHANGED <<items, closed>>

Deliver(t) ==
    /\ call[t] # "none"
    /\ items # <<>>
    /\ answer' = [answer EXCEPT ![t] = Head(items)]
    /\ items' = Tail(items)
    /\ call' = [call EXCEPT ![t] = "none"]
    /\ UNCHANGED closed

\* Nothing to take: try_pop and the timed pop may say so, wait_pop only when
\* the queue is closed.
GiveUp(t) ==
    /\ call[t] # "none"
    /\ items = <<>>
    /\ call[t] = "wait" => closed
    /\ call' = [call EXCEPT ![t] = "none"]
    /\ answer' = [answer EXCEPT ![t] = None]
    /\ UNCHANGED <<items, closed>>

Next ==
    \/ \E x \in Items : Put(x)
    \/ Close
    \/ Empty
    \/ \E t \in Threads :
        \/ \E how \in {"wait", "timed", "try"} : Call(t, how)
        \/ Deliver(t)
        \/ GiveUp(t)

Spec == Init /\ [][Next]_vars
=============================================================================
