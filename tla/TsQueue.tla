------------------------------- MODULE TsQueue -------------------------------
(***************************************************************************)
(* TsQueue of lib_net: a queue behind a mutex and a condition variable.    *)
(*                                                                         *)
(* A critical section is one step.  The notifications are steps of their   *)
(* own, because push and stop notify after they have let go of the mutex:  *)
(* anything may happen between the store and the notification.  A thread   *)
(* that waits leaves the condition variable when it is notified, when its  *)
(* timeout runs out or for no reason at all, and then runs to the mutex.   *)
(***************************************************************************)
EXTENDS Naturals, Sequences, FiniteSets

CONSTANTS
    Threads,
    Items,
    None,          \* std::nullopt
    MaxLen,        \* bound: items in the queue
    MaxCalls       \* bound: calls of push, over a behaviour

ASSUME TsQueueAssumption ==
    /\ IsFiniteSet(Threads)
    /\ None \notin Items
    /\ MaxLen \in Nat
    /\ MaxCalls \in Nat

VARIABLES
    queue,         \* _queue
    stopped,       \* _stopped
    pc,            \* where each thread is in its call
    call,          \* the pop a thread is in, "none" outside one
    answer,        \* what the last pop of a thread returned
    pushes         \* calls of push so far, for MaxCalls

queueVars == <<queue, stopped, pc, call, answer, pushes>>

\* wait_pop(), wait_pop(timeout) and try_pop()
Pops == {"wait", "timed", "try"}

At(label) == {t \in Threads : pc[t] = label}

\* The threads that want the mutex to look at the queue.
Awake == At("woken") \cup At("timed_out")

QueueInit ==
    /\ queue = <<>>
    /\ stopped = FALSE
    /\ pc = [t \in Threads |-> "idle"]
    /\ call = [t \in Threads |-> "none"]
    /\ answer = [t \in Threads |-> None]
    /\ pushes = 0

-----------------------------------------------------------------------------
\* Mutant of PushStore: a push into a queue that holds something does not
\* notify.
PushNotifiesWhenEmpty(t, x) ==
    /\ pc[t] = "idle"
    /\ Len(queue) < MaxLen
    /\ pushes < MaxCalls
    /\ queue' = Append(queue, x)
    /\ pushes' = pushes + 1
    /\ pc' = IF queue = <<>> THEN [pc EXCEPT ![t] = "notify_one"] ELSE pc
    /\ UNCHANGED <<stopped, call, answer>>

\* push: the store under the mutex ...
PushStore(t, x) ==
    /\ pc[t] = "idle"
    /\ Len(queue) < MaxLen
    /\ pushes < MaxCalls
    /\ queue' = Append(queue, x)
    /\ pushes' = pushes + 1
    /\ pc' = [pc EXCEPT ![t] = "notify_one"]
    /\ UNCHANGED <<stopped, call, answer>>

\* ... and notify_one, which wakes one waiting thread if there is one.
NotifyOne(t) ==
    /\ pc[t] = "notify_one"
    /\ \/ /\ At("waiting") = {}
          /\ pc' = [pc EXCEPT ![t] = "idle"]
       \/ \E w \in At("waiting") : pc' = [pc EXCEPT ![t] = "idle", ![w] = "woken"]
    /\ UNCHANGED <<queue, stopped, call, answer, pushes>>

\* Mutant of StopStore: stop wakes a single thread.
StopNotifiesOne(t) ==
    /\ pc[t] = "idle"
    /\ stopped' = TRUE
    /\ pc' = [pc EXCEPT ![t] = "notify_one"]
    /\ UNCHANGED <<queue, call, answer, pushes>>

StopStore(t) ==
    /\ pc[t] = "idle"
    /\ stopped' = TRUE
    /\ pc' = [pc EXCEPT ![t] = "notify_all"]
    /\ UNCHANGED <<queue, call, answer, pushes>>

NotifyAll(t) ==
    /\ pc[t] = "notify_all"
    /\ pc' = [u \in Threads |-> IF u = t THEN "idle"
                                ELSE IF pc[u] = "waiting" THEN "woken" ELSE pc[u]]
    /\ UNCHANGED <<queue, stopped, call, answer, pushes>>

Clear(t) ==
    /\ pc[t] = "idle"
    /\ queue' = <<>>
    /\ UNCHANGED <<stopped, pc, call, answer, pushes>>

\* A thread calls a pop and goes for the mutex.
CallPop(t, how) ==
    /\ pc[t] = "idle"
    /\ pc' = [pc EXCEPT ![t] = "woken"]
    /\ call' = [call EXCEPT ![t] = how]
    /\ answer' = [answer EXCEPT ![t] = None]
    /\ UNCHANGED <<queue, stopped, pushes>>

Return(t, value) ==
    /\ pc' = [pc EXCEPT ![t] = "idle"]
    /\ call' = [call EXCEPT ![t] = "none"]
    /\ answer' = [answer EXCEPT ![t] = value]

\* The critical sections of the pops, from the mutex taken to the return or
\* to the wait: the predicate is read again after every wake-up.
Take(t) ==
    /\ t \in Awake
    /\ queue # <<>>
    /\ queue' = Tail(queue)
    /\ Return(t, Head(queue))
    /\ UNCHANGED <<stopped, pushes>>

\* Mutant of Refuse: the predicate is not read again after a wake-up.
RefuseOnAnyWake(t) ==
    /\ t \in Awake
    /\ queue = <<>>
    /\ Return(t, None)
    /\ UNCHANGED <<queue, stopped, pushes>>

Refuse(t) ==
    /\ t \in Awake
    /\ queue = <<>>
    /\ call[t] = "try" \/ stopped \/ pc[t] = "timed_out"
    /\ Return(t, None)
    /\ UNCHANGED <<queue, stopped, pushes>>

\* Mutant of Wait: try_pop waits as the others do.
WaitWhateverThePop(t) ==
    /\ pc[t] = "woken"
    /\ queue = <<>>
    /\ ~stopped
    /\ pc' = [pc EXCEPT ![t] = "waiting"]
    /\ UNCHANGED <<queue, stopped, call, answer, pushes>>

Wait(t) ==
    /\ pc[t] = "woken"
    /\ call[t] # "try"
    /\ queue = <<>>
    /\ ~stopped
    /\ pc' = [pc EXCEPT ![t] = "waiting"]
    /\ UNCHANGED <<queue, stopped, call, answer, pushes>>

SpuriousWake(t) ==
    /\ pc[t] = "waiting"
    /\ pc' = [pc EXCEPT ![t] = "woken"]
    /\ UNCHANGED <<queue, stopped, call, answer, pushes>>

\* A thread that was notified may find its time has run out as well.
Timeout(t) ==
    /\ pc[t] \in {"waiting", "woken"}
    /\ call[t] = "timed"
    /\ pc' = [pc EXCEPT ![t] = "timed_out"]
    /\ UNCHANGED <<queue, stopped, call, answer, pushes>>

\* What a thread in the middle of a call does next.
Continue(t) == NotifyOne(t) \/ NotifyAll(t) \/ Take(t) \/ Refuse(t) \/ Wait(t)

QueueNext ==
    \E t \in Threads :
        \/ Continue(t)
        \/ \E x \in Items : PushStore(t, x)
        \/ StopStore(t)
        \/ Clear(t)
        \/ \E how \in Pops : CallPop(t, how)
        \/ SpuriousWake(t)
        \/ Timeout(t)

QueueSpec == QueueInit /\ [][QueueNext]_queueVars

\* A thread inside a call runs on, and a clock reaches its timeout.  Nothing
\* makes a program call again, nor an unnotified thread wake.
Fairness == \A t \in Threads : WF_queueVars(Continue(t)) /\ WF_queueVars(Timeout(t))

FairQueueSpec == QueueSpec /\ Fairness

-----------------------------------------------------------------------------
Labels == {"idle", "notify_one", "notify_all", "woken", "waiting", "timed_out"}

QueueTypeOK ==
    /\ queue \in Seq(Items)
    /\ Len(queue) <= MaxLen
    /\ stopped \in BOOLEAN
    /\ pc \in [Threads -> Labels]
    /\ call \in [Threads -> Pops \cup {"none"}]
    /\ answer \in [Threads -> Items \cup {None}]
    /\ pushes \in 0 .. MaxCalls
    /\ \A t \in Threads : call[t] # "none" <=> pc[t] \in {"woken", "waiting", "timed_out"}
    /\ \A t \in Threads :
        /\ call[t] = "try" => pc[t] = "woken"
        /\ pc[t] = "timed_out" => call[t] = "timed"

\* While a thread sleeps, every item of the queue has a thread on its way to
\* take it or a notification still to come, and a stop has its notify_all
\* still to come: no order of the unlocked notifications loses a wake-up.
WakeupsCoverItems ==
    At("waiting") # {} =>
        /\ Len(queue) <= Cardinality(At("notify_one")) + Cardinality(Awake)
        /\ stopped => At("notify_all") # {}

\* The queue as a caller sees it (Fifo): pops return the items in the order
\* of the pushes, each once, and wait_pop gives up only on a stopped and
\* empty queue, however the waiting is woken.
Abstract == INSTANCE Fifo WITH items <- queue, closed <- stopped

ImplementsFifo == Abstract!Spec

\* stop releases every thread that waits, whatever it waits with.
StopReleases ==
    \A t \in Threads : (stopped /\ call[t] # "none") ~> (call[t] = "none")

\* The queue never keeps an item for good while a thread sits in wait_pop().
ItemsReachWaiters ==
    []<>(queue = <<>> \/ \A t \in Threads : call[t] # "wait")
=============================================================================
