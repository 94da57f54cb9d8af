---------------------------- MODULE Buffers_proofs ----------------------------
(***************************************************************************)
(* What lib_net puts between its layers: the queue between two threads     *)
(* loses no wake-up and is a Fifo, for every finite set of threads, every  *)
(* set of items and both bounds; and packets arrive whole, in order and    *)
(* each once through buffered streams, for any sizes of headers, data,     *)
(* buffers and kernel, however the bytes are cut on their way.             *)
(***************************************************************************)
EXTENDS TsQueue, PacketStream, FiniteSetTheorems, SequenceTheorems, TLAPS

-----------------------------------------------------------------------------
(* The queue between two threads (TsQueue). *)

\* Every label of a thread, and so every set the invariant counts, is finite.
LEMMA AtFinite ==
  ASSUME NEW label
  PROVE  IsFiniteSet(At(label)) /\ Cardinality(At(label)) \in Nat
  BY TsQueueAssumption, FS_Subset, FS_CardinalityType DEF At

LEMMA AwakeFinite == IsFiniteSet(Awake) /\ Cardinality(Awake) \in Nat
  BY TsQueueAssumption, FS_Subset, FS_CardinalityType DEF Awake, At

LEMMA InitType == QueueInit => QueueTypeOK
  <1> SUFFICES ASSUME QueueInit PROVE QueueTypeOK
    OBVIOUS
  <1>1. queue \in Seq(Items) /\ Len(queue) = 0
    BY EmptySeq DEF QueueInit
  <1>2. Len(queue) <= MaxLen /\ pushes \in 0 .. MaxCalls
    BY <1>1, TsQueueAssumption DEF QueueInit
  <1> QED
    BY <1>1, <1>2 DEF QueueInit, QueueTypeOK, Labels, Pops

\* Each step keeps the types: Append and Tail of the queue are within the
\* bounds, and the labels follow the call a thread is in.
LEMMA StepType == QueueTypeOK /\ [QueueNext]_queueVars => QueueTypeOK'
  <1> SUFFICES ASSUME QueueTypeOK, [QueueNext]_queueVars PROVE QueueTypeOK'
    OBVIOUS
  <1> USE TsQueueAssumption
  <1>1. ASSUME NEW t \in Threads, NEW x \in Items, PushStore(t, x) PROVE QueueTypeOK'
    <2>1. Append(queue, x) \in Seq(Items) /\ Len(Append(queue, x)) = Len(queue) + 1
      BY AppendProperties DEF QueueTypeOK
    <2>2. Len(queue) \in Nat
      BY LenProperties DEF QueueTypeOK
    <2>3. queue' \in Seq(Items) /\ Len(queue') <= MaxLen /\ pushes' \in 0 .. MaxCalls
      BY <1>1, <2>1, <2>2 DEF QueueTypeOK, PushStore
    <2> QED
      BY <1>1, <2>3 DEF QueueTypeOK, PushStore, Labels, Pops
  <1>2. ASSUME NEW t \in Threads, NotifyOne(t) PROVE QueueTypeOK'
    BY <1>2 DEF QueueTypeOK, NotifyOne, Labels, Pops, At
  <1>3. ASSUME NEW t \in Threads, NotifyAll(t) PROVE QueueTypeOK'
    BY <1>3 DEF QueueTypeOK, NotifyAll, Labels, Pops
  <1>4. ASSUME NEW t \in Threads, Take(t) PROVE QueueTypeOK'
    <2>1. /\ Head(queue) \in Items
          /\ Tail(queue) \in Seq(Items)
          /\ Len(Tail(queue)) = Len(queue) - 1
      BY <1>4, HeadTailProperties DEF QueueTypeOK, Take
    <2>2. Len(queue) \in Nat
      BY LenProperties DEF QueueTypeOK
    <2>3. queue' \in Seq(Items) /\ Len(queue') <= MaxLen
      BY <1>4, <2>1, <2>2 DEF QueueTypeOK, Take
    <2> QED
      BY <1>4, <2>1, <2>3 DEF QueueTypeOK, Take, Return, Labels, Pops, Awake, At
  <1>5. ASSUME NEW t \in Threads, Refuse(t) PROVE QueueTypeOK'
    BY <1>5 DEF QueueTypeOK, Refuse, Return, Labels, Pops, Awake, At
  <1>6. ASSUME NEW t \in Threads, Wait(t) PROVE QueueTypeOK'
    BY <1>6 DEF QueueTypeOK, Wait, Labels, Pops
  <1>7. ASSUME NEW t \in Threads, StopStore(t) PROVE QueueTypeOK'
    BY <1>7 DEF QueueTypeOK, StopStore, Labels, Pops
  <1>8. ASSUME NEW t \in Threads, Clear(t) PROVE QueueTypeOK'
    BY <1>8, EmptySeq DEF QueueTypeOK, Clear, Labels, Pops
  <1>9. ASSUME NEW t \in Threads, NEW how \in Pops, CallPop(t, how) PROVE QueueTypeOK'
    BY <1>9 DEF QueueTypeOK, CallPop, Labels, Pops
  <1>10. ASSUME NEW t \in Threads, SpuriousWake(t) PROVE QueueTypeOK'
    BY <1>10 DEF QueueTypeOK, SpuriousWake, Labels, Pops
  <1>11. ASSUME NEW t \in Threads, Timeout(t) PROVE QueueTypeOK'
    BY <1>11 DEF QueueTypeOK, Timeout, Labels, Pops
  <1>12. CASE UNCHANGED queueVars
    BY <1>12 DEF QueueTypeOK, queueVars
  <1> QED
    BY <1>1, <1>2, <1>3, <1>4, <1>5, <1>6, <1>7, <1>8, <1>9, <1>10, <1>11, <1>12
    DEF QueueNext, Continue

\* Every column of the queue keeps its type, whatever the threads do
\* (TSQueue.hpp, all operations).
THEOREM TypeCorrect == QueueSpec => []QueueTypeOK
  BY InitType, StepType, PTL DEF QueueSpec

-----------------------------------------------------------------------------
LEMMA InitCovered == QueueInit => WakeupsCoverItems
  BY DEF QueueInit, WakeupsCoverItems, At

\* A notifier that meets a sleeper hands its share of the queue over to it.
LEMMA NotifyOneCovered ==
  ASSUME QueueTypeOK, WakeupsCoverItems, NEW t \in Threads, NotifyOne(t)
  PROVE  WakeupsCoverItems'
  <1>1. CASE At("waiting") = {} /\ pc' = [pc EXCEPT ![t] = "idle"]
    <2>1. At("waiting")' = {}
      BY <1>1 DEF At, NotifyOne, QueueTypeOK
    <2> QED
      BY <2>1 DEF WakeupsCoverItems
  <1>2. ASSUME NEW w \in At("waiting"), pc' = [pc EXCEPT ![t] = "idle", ![w] = "woken"]
        PROVE  WakeupsCoverItems'
    <2>1. pc[t] = "notify_one" /\ pc[w] = "waiting" /\ w \in Threads /\ t # w
      BY <1>2 DEF NotifyOne, At
    <2>2. /\ At("notify_one")' = At("notify_one") \ {t}
          /\ At("notify_all")' = At("notify_all")
          /\ Awake' = Awake \cup {w}
          /\ t \in At("notify_one")
          /\ w \notin Awake
      BY <1>2, <2>1 DEF At, Awake, QueueTypeOK
    <2>3. Cardinality(At("notify_one")') = Cardinality(At("notify_one")) - 1
      BY <2>2, AtFinite, FS_RemoveElement
    <2>4. Cardinality(Awake') = Cardinality(Awake) + 1
      BY <2>2, AwakeFinite, FS_AddElement
    <2>5. Len(queue) \in Nat /\ queue' = queue /\ stopped' = stopped
      BY LenProperties DEF QueueTypeOK, NotifyOne
    <2>6. /\ Len(queue) <= Cardinality(At("notify_one")) + Cardinality(Awake)
          /\ stopped => At("notify_all") # {}
      BY <1>2 DEF WakeupsCoverItems
    <2>7. Len(queue') <= Cardinality(At("notify_one")') + Cardinality(Awake')
      BY <2>3, <2>4, <2>5, <2>6, AtFinite, AwakeFinite
    <2> QED
      BY <2>2, <2>5, <2>6, <2>7 DEF WakeupsCoverItems
  <1> QED
    BY <1>1, <1>2 DEF NotifyOne

\* An item and the thread that will notify for it arrive together.
LEMMA PushCovered ==
  ASSUME QueueTypeOK, WakeupsCoverItems, NEW t \in Threads, NEW x \in Items, PushStore(t, x)
  PROVE  WakeupsCoverItems'
  <1>1. /\ At("waiting")' = At("waiting")
        /\ At("notify_one")' = At("notify_one") \cup {t}
        /\ At("notify_all")' = At("notify_all")
        /\ Awake' = Awake
        /\ t \notin At("notify_one")
    BY DEF At, Awake, QueueTypeOK, PushStore
  <1>2. Cardinality(At("notify_one")') = Cardinality(At("notify_one")) + 1
    BY <1>1, AtFinite, FS_AddElement
  <1>3. Len(queue') = Len(queue) + 1 /\ Len(queue) \in Nat /\ stopped' = stopped
    BY AppendProperties, LenProperties DEF QueueTypeOK, PushStore
  <1> QED
    BY <1>1, <1>2, <1>3, AtFinite, AwakeFinite DEF WakeupsCoverItems

\* A thread that takes an item leaves with it.
LEMMA TakeCovered ==
  ASSUME QueueTypeOK, WakeupsCoverItems, NEW t \in Threads, Take(t)
  PROVE  WakeupsCoverItems'
  <1>1. /\ At("waiting")' = At("waiting")
        /\ At("notify_one")' = At("notify_one")
        /\ At("notify_all")' = At("notify_all")
        /\ Awake' = Awake \ {t}
        /\ t \in Awake
    BY DEF At, Awake, QueueTypeOK, Take, Return
  <1>2. Cardinality(Awake') = Cardinality(Awake) - 1
    BY <1>1, AwakeFinite, FS_RemoveElement
  <1>3. Len(queue') = Len(queue) - 1 /\ Len(queue) \in Nat /\ stopped' = stopped
    BY HeadTailProperties, LenProperties DEF QueueTypeOK, Take
  <1> QED
    BY <1>1, <1>2, <1>3, AtFinite, AwakeFinite DEF WakeupsCoverItems

\* The queue is empty after the step, and the step neither stops it nor takes
\* a notify_all away.
LEMMA EmptyCovered ==
  ASSUME queue' = <<>>, stopped' => At("notify_all")' # {}
  PROVE  WakeupsCoverItems'
  <1>1. Len(queue') = 0
    OBVIOUS
  <1>2. 0 <= Cardinality(At("notify_one")') + Cardinality(Awake')
    <2>1. /\ IsFiniteSet(At("notify_one")')
          /\ IsFiniteSet(Awake')
      BY TsQueueAssumption, FS_Subset DEF At, Awake
    <2>2. Cardinality(At("notify_one")') \in Nat /\ Cardinality(Awake') \in Nat
      BY <2>1, FS_CardinalityType
    <2> QED
      BY <2>2
  <1> QED
    BY <1>1, <1>2 DEF WakeupsCoverItems

\* A thread that joins the awake ones, from sleep or from outside.
LEMMA AwakeGrowsCovered ==
  ASSUME QueueTypeOK, WakeupsCoverItems, UNCHANGED <<queue, stopped>>,
         NEW t \in Threads,
         At("waiting")' \subseteq At("waiting"),
         At("notify_one")' = At("notify_one"),
         At("notify_all")' = At("notify_all"),
         Awake' = Awake \cup {t}
  PROVE  WakeupsCoverItems'
  <1>1. Cardinality(Awake') >= Cardinality(Awake) /\ Cardinality(Awake') \in Nat
    <2>1. Cardinality(Awake) \in Nat
      BY AwakeFinite
    <2>2. Cardinality(Awake \cup {t}) = IF t \in Awake THEN Cardinality(Awake)
                                        ELSE Cardinality(Awake) + 1
      BY AwakeFinite, FS_AddElement
    <2> HIDE DEF Awake
    <2>3. QED
      BY <2>1, <2>2
  <1>2. Len(queue) \in Nat
    BY LenProperties DEF QueueTypeOK
  <1> QED
    BY <1>1, <1>2, AtFinite, AwakeFinite DEF WakeupsCoverItems

LEMMA StepCovered == QueueTypeOK /\ WakeupsCoverItems /\ [QueueNext]_queueVars => WakeupsCoverItems'
  <1> SUFFICES ASSUME QueueTypeOK, WakeupsCoverItems, [QueueNext]_queueVars PROVE WakeupsCoverItems'
    OBVIOUS
  <1>1. ASSUME NEW t \in Threads, NotifyAll(t) PROVE WakeupsCoverItems'
    <2>1. At("waiting")' = {}
      BY <1>1 DEF NotifyAll, At
    <2> QED
      BY <2>1 DEF WakeupsCoverItems
  <1>2. ASSUME NEW t \in Threads, Refuse(t) PROVE WakeupsCoverItems'
    <2>1. /\ At("waiting")' = At("waiting")
          /\ At("notify_all")' = At("notify_all")
          /\ queue' = <<>> /\ stopped' = stopped
      BY <1>2 DEF At, Awake, QueueTypeOK, Refuse, Return
    <2>2. CASE At("waiting") = {}
      BY <2>1, <2>2 DEF WakeupsCoverItems
    <2>3. CASE At("waiting") # {}
      BY <2>1, <2>3, EmptyCovered DEF WakeupsCoverItems
    <2> QED
      BY <2>2, <2>3
  <1>3. ASSUME NEW t \in Threads, Wait(t) PROVE WakeupsCoverItems'
    <2>1. queue' = <<>> /\ ~stopped'
      BY <1>3 DEF Wait
    <2> QED
      BY <2>1, EmptyCovered
  <1>4. ASSUME NEW t \in Threads, StopStore(t) PROVE WakeupsCoverItems'
    <2>1. /\ At("waiting")' = At("waiting")
          /\ At("notify_one")' = At("notify_one")
          /\ Awake' = Awake
          /\ t \in At("notify_all")'
      BY <1>4 DEF At, Awake, QueueTypeOK, StopStore
    <2>2. queue' = queue
      BY <1>4 DEF StopStore
    <2> QED
      BY <2>1, <2>2 DEF WakeupsCoverItems
  <1>5. ASSUME NEW t \in Threads, Clear(t) PROVE WakeupsCoverItems'
    <2>1. /\ At("waiting")' = At("waiting")
          /\ At("notify_all")' = At("notify_all")
          /\ queue' = <<>> /\ stopped' = stopped
      BY <1>5 DEF At, Clear
    <2>2. CASE At("waiting") = {}
      BY <2>1, <2>2 DEF WakeupsCoverItems
    <2>3. CASE At("waiting") # {}
      BY <2>1, <2>3, EmptyCovered DEF WakeupsCoverItems
    <2> QED
      BY <2>2, <2>3
  <1>6. ASSUME NEW t \in Threads, NEW how \in Pops, CallPop(t, how) PROVE WakeupsCoverItems'
    <2>1. /\ At("waiting")' = At("waiting")
          /\ At("notify_one")' = At("notify_one")
          /\ At("notify_all")' = At("notify_all")
          /\ Awake' = Awake \cup {t}
          /\ UNCHANGED <<queue, stopped>>
      BY <1>6 DEF At, Awake, QueueTypeOK, CallPop
    <2> QED
      BY <2>1, AwakeGrowsCovered
  <1>7. ASSUME NEW t \in Threads, SpuriousWake(t) \/ Timeout(t) PROVE WakeupsCoverItems'
    <2>1. /\ At("waiting")' \subseteq At("waiting")
          /\ At("notify_one")' = At("notify_one")
          /\ At("notify_all")' = At("notify_all")
          /\ Awake' = Awake \cup {t}
          /\ UNCHANGED <<queue, stopped>>
      BY <1>7 DEF At, Awake, QueueTypeOK, SpuriousWake, Timeout
    <2> QED
      BY <2>1, AwakeGrowsCovered
  <1>8. CASE UNCHANGED queueVars
    BY <1>8 DEF queueVars, WakeupsCoverItems, At, Awake
  <1> QED
    BY <1>1, <1>2, <1>3, <1>4, <1>5, <1>6, <1>7, <1>8,
       NotifyOneCovered, PushCovered, TakeCovered
    DEF QueueNext, Continue

\* No order of the pushes, pops, stops and unlocked notifications leaves a
\* thread asleep that an item or a stop should wake (push, stop, wait_pop).
THEOREM NoLostWakeup == QueueSpec => []WakeupsCoverItems
  <1>1. QueueTypeOK /\ WakeupsCoverItems /\ [QueueNext]_queueVars => (QueueTypeOK /\ WakeupsCoverItems)'
    BY StepType, StepCovered
  <1> QED
    BY <1>1, InitType, InitCovered, PTL DEF QueueSpec

-----------------------------------------------------------------------------
LEMMA AbstractInit == QueueInit => Abstract!Init
  BY DEF QueueInit, Abstract!Init

LEMMA AbstractStep == QueueTypeOK /\ [QueueNext]_queueVars => [Abstract!Next]_(Abstract!vars)
  <1> SUFFICES ASSUME QueueTypeOK, [QueueNext]_queueVars PROVE [Abstract!Next]_(Abstract!vars)
    OBVIOUS
  <1>1. ASSUME NEW t \in Threads, Take(t) PROVE Abstract!Deliver(t)
    <2>1. call[t] # "none"
      BY <1>1 DEF Take, Awake, At, QueueTypeOK
    <2> QED
      BY <1>1, <2>1 DEF Take, Return, Abstract!Deliver
  <1>2. ASSUME NEW t \in Threads, Refuse(t) PROVE Abstract!GiveUp(t)
    <2>1. call[t] # "none" /\ (call[t] = "wait" => stopped \/ pc[t] = "timed_out")
      BY <1>2 DEF Refuse, Awake, At, QueueTypeOK
    <2>2. pc[t] = "timed_out" => call[t] # "wait"
      BY DEF QueueTypeOK
    <2> QED
      BY <1>2, <2>1, <2>2 DEF Refuse, Return, Abstract!GiveUp
  <1>3. ASSUME NEW t \in Threads, NEW how \in Pops, CallPop(t, how)
        PROVE  Abstract!Call(t, how)
    <2>1. call[t] = "none"
      BY <1>3 DEF CallPop, QueueTypeOK, Pops
    <2> QED
      BY <1>3, <2>1 DEF CallPop, Abstract!Call
  <1>4. ASSUME NEW t \in Threads, NEW x \in Items, PushStore(t, x) PROVE Abstract!Put(x)
    BY <1>4 DEF PushStore, Abstract!Put
  <1>5. ASSUME NEW t \in Threads, StopStore(t) PROVE Abstract!Close
    BY <1>5 DEF StopStore, Abstract!Close
  <1>6. ASSUME NEW t \in Threads, Clear(t) PROVE Abstract!Empty
    BY <1>6 DEF Clear, Abstract!Empty
  <1>7. ASSUME NEW t \in Threads,
               NotifyOne(t) \/ NotifyAll(t) \/ Wait(t) \/ SpuriousWake(t) \/ Timeout(t)
        PROVE  UNCHANGED Abstract!vars
    BY <1>7 DEF NotifyOne, NotifyAll, Wait, SpuriousWake, Timeout, Abstract!vars
  <1>8. CASE UNCHANGED queueVars
    BY <1>8 DEF queueVars, Abstract!vars
  <1> QED
    BY <1>1, <1>2, <1>3, <1>4, <1>5, <1>6, <1>7, <1>8
    DEF QueueNext, Continue, Pops, Abstract!Next

\* The queue implements Fifo: each call takes effect in one step, the items
\* come out in order and once, and wait_pop gives up only when it may.
THEOREM Refinement == QueueSpec => ImplementsFifo
  BY TypeCorrect, AbstractInit, AbstractStep, PTL DEF QueueSpec, ImplementsFifo, Abstract!Spec

-----------------------------------------------------------------------------
(* The stream of packets (PacketStream). *)

USE PacketStreamAssumption

-----------------------------------------------------------------------------
(* The inductive invariant. *)

Bytes == [packet : Nat, at : Nat]

Total(p) == HeaderLen + length[p]

\* Packets that were handed out and whose bytes are consumed.
Done == Len(received) - (IF main = "consume" THEN 1 ELSE 0)

Unread == buffer.filled - buffer.pos

StreamTyped ==
    /\ length \in Seq(Nat) /\ length \in Seq(DataLens)
    /\ sends \in Seq(DOMAIN length) /\ accepted \in Seq(DOMAIN length)
    /\ writer \in Seq(Bytes) /\ Len(writer) < Capacity
    /\ wire \in Seq(Bytes) /\ Len(wire) <= WireRoom
    /\ buffer \in [bytes : [1 .. Capacity -> Bytes], pos : 0 .. Capacity, filled : 0 .. Capacity]
    /\ buffer.pos <= buffer.filled
    /\ up \in BOOLEAN /\ due \in Nat
    /\ main \in {"idle", "parse", "consume"}
    /\ span \in [pos : 0 .. Capacity, filled : 0 .. Capacity] /\ span.pos <= span.filled
    /\ received \in Seq(Seq(Bytes))

\* A packet a writer takes is one whose size its header can say.
SizesFit == \A i \in DOMAIN accepted : length[accepted[i]] < SizeLimit

\* The span that is parsed without the mutex has bytes which are still unread,
\* or none; the packet that is about to be consumed is unread.
SpanIsUnread ==
    /\ main = "parse" =>
           \/ span.pos = span.filled
           \/ span.pos = buffer.pos /\ span.filled <= buffer.filled
    /\ main = "consume" => received # <<>> /\ Len(Last(received)) <= Unread

\* stream is all that was ever accepted, byte by byte, the i-th packet from
\* start[i] on ...
Laid(stream, start) ==
    /\ stream \in Seq(Bytes)
    /\ start \in [1 .. Len(accepted) + 1 -> Nat]
    /\ start[Len(accepted) + 1] = Len(stream)
    /\ \A i, k \in DOMAIN start : i <= k => start[i] <= start[k]
    /\ \A i \in DOMAIN accepted :
           /\ start[i + 1] = start[i] + Total(accepted[i])
           /\ \A j \in 1 .. Total(accepted[i]) :
                  stream[start[i] + j] = [packet |-> accepted[i], at |-> j]

\* ... and what is held from from on is the unread bytes, those the kernel has
\* and those of the writer, in this order.
Held(stream, from) ==
    /\ Len(stream) = from + Unread + Len(wire) + Len(writer)
    /\ \A k \in 1 .. Unread : buffer.bytes[buffer.pos + k] = stream[from + k]
    /\ \A k \in 1 .. Len(wire) : wire[k] = stream[from + Unread + k]
    /\ \A k \in 1 .. Len(writer) : writer[k] = stream[from + Unread + Len(wire) + k]

Carried(stream, start) == Laid(stream, start) /\ Held(stream, start[Done + 1])

NothingIsLost == \E stream, start : Carried(stream, start)

StreamInv ==
    /\ StreamTyped /\ SizesFit /\ SpanIsUnread
    /\ PacketsArriveWhole /\ NothingIsLost

-----------------------------------------------------------------------------
(* Helpers. *)

LEMMA SmallerOfTwo ==
    ASSUME NEW a \in Nat, NEW b \in Nat
    PROVE  Min({a, b}) = IF a <= b THEN a ELSE b
BY DEF Min

\* A remainder that is small is the number.
LEMMA SmallRemainder ==
    ASSUME NEW a \in Nat, NEW b \in Nat, a < b
    PROVE  a % b = a
OBVIOUS

\* A packet's bytes.
LEMMA SerializedBytes ==
    ASSUME StreamTyped, NEW p \in DOMAIN length
    PROVE  /\ p \in Nat /\ length[p] \in Nat /\ Total(p) \in Nat \ {0} /\ HeaderLen <= Total(p)
           /\ Serialized(p) \in Seq(Bytes) /\ Len(Serialized(p)) = Total(p)
           /\ \A k \in 1 .. Total(p) : Serialized(p)[k] = [packet |-> p, at |-> k]
<1>1. p \in Nat /\ length[p] \in Nat /\ Total(p) \in Nat \ {0} /\ HeaderLen <= Total(p)
  <2>1. length \in Seq(Nat)
    BY DEF StreamTyped
  <2>2. p \in 1 .. Len(length) /\ length[p] \in Nat
    BY <2>1
  <2>3. QED
    BY <2>2 DEF Total
<1>2. Serialized(p) = [k \in 1 .. Total(p) |-> [packet |-> p, at |-> k]]
  BY DEF Serialized, Total
<1>3. Serialized(p) \in [1 .. Total(p) -> Bytes]
  BY <1>1, <1>2 DEF Bytes
<1>4. Serialized(p) \in Seq(Bytes) /\ Len(Serialized(p)) = Total(p)
  BY <1>1, <1>3, IsASeq
<1>5. QED
  BY <1>1, <1>2, <1>4

\* Packets that are there stay as they are when one is sent.
LEMMA Consumed ==
    ASSUME StreamInv
    PROVE  /\ Len(received) \in Nat /\ Len(accepted) \in Nat
           /\ Len(received) <= Len(accepted)
           /\ Done \in 0 .. Len(received)
           /\ Unread \in Nat
<1>1. /\ Len(received) \in Nat /\ Len(accepted) \in Nat
      /\ Len(received) <= Len(accepted)
  BY DEF StreamInv, StreamTyped, PacketsArriveWhole
<1>2. main = "consume" => received # <<>>
  BY DEF StreamInv, SpanIsUnread
<1>3. received = <<>> <=> Len(received) = 0
  BY DEF StreamInv, StreamTyped
<1>4. Done \in 0 .. Len(received)
  BY <1>1, <1>2, <1>3 DEF Done
<1>5. Unread \in Nat
  <2>1. buffer.pos \in 0 .. Capacity /\ buffer.filled \in 0 .. Capacity /\ buffer.pos <= buffer.filled
    BY DEF StreamInv, StreamTyped
  <2>2. QED
    BY <2>1 DEF Unread
<1>6. QED
  BY <1>1, <1>4, <1>5

-----------------------------------------------------------------------------
(* What the receiver reads. *)

\* The bytes from pos to filled, when they are all unread.
LEMMA BetweenBytes ==
    ASSUME StreamTyped, NEW pos \in 0 .. Capacity, NEW filled \in 0 .. Capacity, pos <= filled
    PROVE  /\ Between(pos, filled) \in Seq(Bytes)
           /\ Len(Between(pos, filled)) = filled - pos
           /\ \A k \in 1 .. filled - pos : Between(pos, filled)[k] = buffer.bytes[pos + k]
<1>1. \A i \in pos + 1 .. filled : buffer.bytes[i] \in Bytes
  <2>1. buffer.bytes \in [1 .. Capacity -> Bytes]
    BY DEF StreamTyped
  <2>2. \A i \in pos + 1 .. filled : i \in 1 .. Capacity
    OBVIOUS
  <2>3. QED
    BY <2>1, <2>2
<1>2. pos + 1 \in Int /\ filled \in Int
  OBVIOUS
<1>3. /\ Between(pos, filled) \in Seq(Bytes)
      /\ Len(Between(pos, filled)) = IF pos + 1 <= filled THEN filled - (pos + 1) + 1 ELSE 0
      /\ \A k \in 1 .. filled - (pos + 1) + 1 :
             Between(pos, filled)[k] = buffer.bytes[pos + 1 + k - 1]
  BY <1>1, <1>2, SubSeqProperties DEF Between
<1>4. \A k \in 1 .. filled - pos : Between(pos, filled)[k] = buffer.bytes[pos + k]
  <2> TAKE k \in 1 .. filled - pos
  <2>1. k \in 1 .. filled - (pos + 1) + 1 /\ pos + 1 + k - 1 = pos + k
    OBVIOUS
  <2>2. QED
    BY <1>3, <2>1
<1>5. (IF pos + 1 <= filled THEN filled - (pos + 1) + 1 ELSE 0) = filled - pos
  OBVIOUS
<1>6. QED
  BY <1>3, <1>4, <1>5

\* A packet that is found is the next one that was accepted, whole.
LEMMA FoundIsNext ==
    ASSUME StreamInv, main # "consume",
           NEW pos \in 0 .. Capacity, NEW filled \in 0 .. Capacity, pos <= filled,
           pos = filled \/ (pos = buffer.pos /\ filled <= buffer.filled),
           HasPacket(Between(pos, filled))
    PROVE  /\ Len(received) + 1 \in DOMAIN accepted
           /\ FirstPacket(Between(pos, filled)) = Serialized(accepted[Len(received) + 1])
           /\ Total(accepted[Len(received) + 1]) <= Unread
<1> DEFINE bytes == Between(pos, filled)
           r == Len(received)
           p == accepted[r + 1]
<1>1. PICK stream, start : Carried(stream, start)
  BY DEF StreamInv, NothingIsLost
<1>2. StreamTyped
  BY DEF StreamInv
<1>3. Done = r /\ r \in Nat /\ Len(accepted) \in Nat /\ r <= Len(accepted) /\ Unread \in Nat
  BY Consumed DEF Done, StreamInv, StreamTyped
<1>4. /\ bytes \in Seq(Bytes) /\ Len(bytes) = filled - pos
      /\ \A k \in 1 .. filled - pos : bytes[k] = buffer.bytes[pos + k]
  BY <1>2, BetweenBytes
<1>5. Len(bytes) >= HeaderLen /\ Len(bytes) >= HeaderLen + SizeIn(bytes)
  BY DEF HasPacket
<1>6. pos = buffer.pos /\ filled <= buffer.filled /\ Len(bytes) >= 1 /\ Len(bytes) <= Unread
  <2>1. filled - pos >= 1
    BY <1>4, <1>5
  <2>2. pos = buffer.pos /\ filled <= buffer.filled
    BY <2>1
  <2>3. buffer.filled \in 0 .. Capacity
    BY <1>2 DEF StreamTyped
  <2>4. QED
    BY <1>4, <2>1, <2>2, <2>3 DEF Unread
<1> DEFINE from == start[r + 1]
<1>7. \A k \in 1 .. Len(bytes) : bytes[k] = stream[from + k]
  BY <1>1, <1>3, <1>4, <1>6 DEF Carried, Held
<1>8. r < Len(accepted)
  <2> SUFFICES ASSUME r = Len(accepted) PROVE FALSE
    BY <1>3
  <2>1. from = Len(stream) /\ from \in Nat
    BY <1>1, <1>3 DEF Carried, Laid
  <2>2. Len(stream) = from + Unread + Len(wire) + Len(writer)
    BY <1>1, <1>3 DEF Carried, Held
  <2>3. Len(wire) \in Nat /\ Len(writer) \in Nat
    BY <1>2 DEF StreamTyped
  <2>4. QED
    BY <1>3, <1>4, <1>6, <2>1, <2>2, <2>3
<1>9. r + 1 \in DOMAIN accepted /\ p \in DOMAIN length /\ length[p] < SizeLimit
  <2>1. accepted \in Seq(DOMAIN length)
    BY <1>2 DEF StreamTyped
  <2>2. r + 1 \in DOMAIN accepted /\ p \in DOMAIN length
    BY <1>3, <1>8, <2>1
  <2>3. QED
    BY <2>2 DEF StreamInv, SizesFit
<1>10. \A j \in 1 .. Total(p) : stream[from + j] = [packet |-> p, at |-> j]
  BY <1>1, <1>9 DEF Carried, Laid
<1>11. /\ p \in Nat /\ length[p] \in Nat /\ Total(p) \in Nat \ {0} /\ HeaderLen <= Total(p)
       /\ Serialized(p) \in Seq(Bytes) /\ Len(Serialized(p)) = Total(p)
       /\ \A k \in 1 .. Total(p) : Serialized(p)[k] = [packet |-> p, at |-> k]
  BY <1>2, <1>9, SerializedBytes
<1> HIDE DEF bytes, p, from, r
<1>12. \A k \in 1 .. Len(bytes) : k <= Total(p) => bytes[k] = Serialized(p)[k]
  <2> TAKE k \in 1 .. Len(bytes)
  <2> HAVE k <= Total(p)
  <2>1. k \in 1 .. Total(p)
    BY <1>4, <1>11
  <2>2. QED
    BY <1>7, <1>10, <1>11, <2>1
<1>13. \A n \in 1 .. Total(p) : n <= Len(bytes) => SubSeq(bytes, 1, n) = SubSeq(Serialized(p), 1, n)
  <2> TAKE n \in 1 .. Total(p)
  <2> HAVE n <= Len(bytes)
  <2> DEFINE s == SubSeq(bytes, 1, n)
             t == SubSeq(Serialized(p), 1, n)
  <2>1. 1 \in Int /\ n \in Int /\ Len(bytes) \in Nat
    BY <1>4
  <2>2. /\ \A i \in 1 .. n : bytes[i] \in Bytes
        /\ \A i \in 1 .. n : Serialized(p)[i] \in Bytes
    BY <1>4, <1>11, <2>1, ElementOfSeq
  <2>3. /\ s \in Seq(Bytes) /\ Len(s) = n
        /\ \A i \in 1 .. n - 1 + 1 : s[i] = bytes[1 + i - 1]
    BY <2>1, <2>2, SubSeqProperties
  <2>4. /\ t \in Seq(Bytes) /\ Len(t) = n
        /\ \A i \in 1 .. n - 1 + 1 : t[i] = Serialized(p)[1 + i - 1]
    BY <2>1, <2>2, SubSeqProperties
  <2>5. \A i \in 1 .. n : s[i] = t[i]
    <3> TAKE i \in 1 .. n
    <3>1. /\ i \in 1 .. n - 1 + 1 /\ 1 + i - 1 = i
          /\ i \in 1 .. Len(bytes) /\ i <= Total(p)
      BY <2>1, <1>11
    <3>2. bytes[i] = Serialized(p)[i]
      BY <1>12, <3>1
    <3> HIDE DEF s, t
    <3>3. QED
      BY <2>3, <2>4, <3>1, <3>2
  <2> HIDE DEF s, t
  <2>6. s = t
    BY <2>3, <2>4, <2>5, SeqEqual
  <2>7. QED
    BY <2>6 DEF s, t
<1>14. SizeIn(bytes) = length[p]
  <2>1. HeaderLen \in 1 .. Total(p) /\ HeaderLen <= Len(bytes)
    BY <1>5, <1>11
  <2>2. SubSeq(bytes, 1, HeaderLen) = SubSeq(Serialized(p), 1, HeaderLen)
    BY <1>13, <2>1
  <2>3. bytes[1].packet = p
    <3>1. 1 \in 1 .. Len(bytes) /\ 1 <= Total(p) /\ 1 \in 1 .. Total(p)
      BY <1>4, <1>6, <1>11
    <3>2. QED
      BY <1>11, <1>12, <3>1
  <2>4. length[p] % SizeLimit = length[p]
    BY <1>9, <1>11, SmallRemainder
  <2>5. QED
    BY <2>2, <2>3, <2>4 DEF SizeIn
<1>15. Len(bytes) >= Total(p) /\ FirstPacket(bytes) = SubSeq(bytes, 1, Total(p))
  BY <1>5, <1>14 DEF FirstPacket, Total
<1>16. FirstPacket(bytes) = Serialized(p)
  <2>1. Total(p) \in 1 .. Total(p) /\ Total(p) <= Len(bytes)
    BY <1>11, <1>15
  <2>2. SubSeq(Serialized(p), 1, Total(p)) = Serialized(p)
    BY <1>11, SubSeqFull
  <2>3. QED
    BY <1>13, <1>15, <2>1, <2>2
<1>17. Total(p) <= Unread
  BY <1>3, <1>4, <1>6, <1>11, <1>15
<1>18. QED
  BY <1>9, <1>16, <1>17 DEF p, r, bytes
-----------------------------------------------------------------------------
(* The steps. *)

LEMMA InitInv == Init => StreamInv
<1> SUFFICES ASSUME Init PROVE StreamInv
  OBVIOUS
<1>1. buffer.bytes \in [1 .. Capacity -> Bytes]
  BY DEF Init, Bytes, NoByte
<1>2. StreamTyped
  BY <1>1 DEF Init, StreamTyped
<1>3. SizesFit /\ SpanIsUnread /\ PacketsArriveWhole
  BY DEF Init, SizesFit, SpanIsUnread, PacketsArriveWhole
<1>4. Laid(<<>>, [i \in 1 .. 1 |-> 0])
  BY DEF Init, Laid
<1>5. Held(<<>>, 0)
  BY DEF Init, Held, Unread
<1>6. Done + 1 = 1
  BY DEF Init, Done
<1>7. NothingIsLost
  <2> DEFINE start == [i \in 1 .. 1 |-> 0]
  <2>1. start[Done + 1] = 0
    BY <1>6
  <2>2. Carried(<<>>, start)
    BY <1>4, <1>5, <2>1 DEF Carried
  <2>3. QED
    BY <2>2 DEF NothingIsLost
<1>8. QED
  BY <1>2, <1>3, <1>7 DEF StreamInv

\* What was accepted stays where it is as long as no more is.
LEMMA StaysLaid ==
    ASSUME NEW stream, NEW start, Laid(stream, start), UNCHANGED accepted,
           \A i \in DOMAIN accepted : length'[accepted[i]] = length[accepted[i]]
    PROVE  Laid(stream, start)'
BY DEF Laid, Total

\* A packet that is sent changes none that was.
LEMMA SendInv ==
    ASSUME StreamInv, NEW n \in DataLens, SendTcp(n)
    PROVE  StreamInv'
<1>1. /\ length' = Append(length, n) /\ sends' = Append(sends, Len(length) + 1)
      /\ UNCHANGED <<accepted, writer, wire, buffer, up, due, main, span, received>>
  BY DEF SendTcp
<1>2. StreamTyped /\ n \in Nat
  BY DEF StreamInv
<1>3. /\ length' \in Seq(Nat) /\ length' \in Seq(DataLens)
      /\ DOMAIN length \subseteq DOMAIN length' /\ Len(length) + 1 \in DOMAIN length'
      /\ \A p \in DOMAIN length : length'[p] = length[p]
  <2>1. length \in Seq(Nat) /\ length \in Seq(DataLens)
    BY <1>2 DEF StreamTyped
  <2>2. QED
    BY <1>1, <1>2, <2>1
<1>4. sends' \in Seq(DOMAIN length') /\ accepted' \in Seq(DOMAIN length')
  <2>1. sends \in Seq(DOMAIN length) /\ accepted \in Seq(DOMAIN length)
    BY <1>2 DEF StreamTyped
  <2>2. sends \in Seq(DOMAIN length') /\ accepted \in Seq(DOMAIN length')
    BY <1>3, <2>1, SeqMonotonic
  <2>3. QED
    BY <1>1, <1>3, <2>2
<1>5. StreamTyped'
  BY <1>1, <1>2, <1>3, <1>4 DEF StreamTyped
<1>6. \A i \in DOMAIN accepted : accepted[i] \in DOMAIN length
  BY <1>2 DEF StreamTyped
<1>7. SizesFit' /\ SpanIsUnread'
  BY <1>1, <1>3, <1>6 DEF StreamInv, SizesFit, SpanIsUnread, Unread
<1>8. PacketsArriveWhole'
  <2>1. \A i \in DOMAIN received : i \in DOMAIN accepted
    BY <1>2, Consumed DEF StreamTyped
  <2>2. \A i \in DOMAIN received : Serialized(accepted[i])' = Serialized(accepted[i])
    BY <1>1, <1>3, <1>6, <2>1 DEF Serialized
  <2>3. QED
    BY <1>1, <2>2 DEF StreamInv, PacketsArriveWhole
<1>9. NothingIsLost'
  <2>1. PICK stream, start : Carried(stream, start)
    BY DEF StreamInv, NothingIsLost
  <2>2. Laid(stream, start)'
    BY <1>1, <1>3, <1>6, <2>1, StaysLaid DEF Carried
  <2>3. Held(stream, start[Done + 1])'
    BY <1>1, <2>1 DEF Carried, Held, Unread, Done
  <2>4. QED
    BY <2>2, <2>3 DEF Carried, NothingIsLost
<1>10. QED
  BY <1>5, <1>7, <1>8, <1>9 DEF StreamInv

\* The receiver hangs up.
LEMMA FullInv ==
    ASSUME StreamInv, FillFull
    PROVE  StreamInv'
<1>1. up' = FALSE /\ UNCHANGED <<length, sends, accepted, writer, wire, buffer, due, main, span, received>>
  BY DEF FillFull
<1>2. StreamTyped'
  BY <1>1 DEF StreamInv, StreamTyped
<1>3. SizesFit' /\ SpanIsUnread' /\ PacketsArriveWhole'
  BY <1>1 DEF StreamInv, SizesFit, SpanIsUnread, PacketsArriveWhole, Unread, Serialized
<1>4. NothingIsLost'
  <2>1. PICK stream, start : Carried(stream, start)
    BY DEF StreamInv, NothingIsLost
  <2>2. Laid(stream, start)'
    BY <1>1, <2>1, StaysLaid DEF Carried
  <2>3. Held(stream, start[Done + 1])'
    BY <1>1, <2>1 DEF Carried, Held, Unread, Done
  <2>4. QED
    BY <2>2, <2>3 DEF Carried, NothingIsLost
<1>5. QED
  BY <1>2, <1>3, <1>4 DEF StreamInv

\* What is handed out is the next packet, and it is whole.
LEMMA HandleInv ==
    ASSUME StreamInv, main # "consume",
           NEW pos \in 0 .. Capacity, NEW filled \in 0 .. Capacity, pos <= filled,
           pos = filled \/ (pos = buffer.pos /\ filled <= buffer.filled),
           Handle(Between(pos, filled)), due' \in Nat,
           UNCHANGED <<length, sends, accepted, writer, wire, buffer, up, span>>
    PROVE  StreamInv'
<1> DEFINE bytes == Between(pos, filled)
           r == Len(received)
<1>1. r \in Nat /\ Len(accepted) \in Nat /\ r <= Len(accepted) /\ Done = r /\ Unread \in Nat
  BY Consumed DEF Done
<1>2. StreamTyped
  BY DEF StreamInv
<1>3. NothingIsLost' /\ SizesFit'
  <2>1. ASSUME Done' = Done PROVE NothingIsLost'
    <3>1. PICK stream, start : Carried(stream, start)
      BY DEF StreamInv, NothingIsLost
    <3>2. Laid(stream, start)'
      BY <3>1, StaysLaid DEF Carried
    <3>3. Held(stream, start[Done + 1])'
      BY <2>1, <3>1 DEF Carried, Held, Unread
    <3>4. QED
      BY <3>2, <3>3 DEF Carried, NothingIsLost
  <2>2. Done' = Done
    <3>1. CASE HasPacket(bytes)
      <4>1. received' = Append(received, FirstPacket(bytes)) /\ main' = "consume"
        BY <3>1 DEF Handle
      <4>2. Len(received') = r + 1
        BY <1>2, <4>1 DEF StreamTyped
      <4>3. QED
        BY <1>1, <4>1, <4>2 DEF Done
    <3>2. CASE ~HasPacket(bytes)
      BY <1>1, <3>2 DEF Handle, Done
    <3>3. QED
      BY <3>1, <3>2
  <2>3. SizesFit'
    BY DEF StreamInv, SizesFit
  <2>4. QED
    BY <2>1, <2>2, <2>3
<1>4. CASE ~HasPacket(bytes)
  <2>1. received' = received /\ main' = "idle"
    BY <1>4 DEF Handle
  <2>2. StreamTyped'
    BY <1>2, <2>1 DEF StreamTyped
  <2>3. SpanIsUnread' /\ PacketsArriveWhole'
    BY <2>1 DEF StreamInv, SpanIsUnread, PacketsArriveWhole, Serialized
  <2>4. QED
    BY <1>3, <2>2, <2>3 DEF StreamInv
<1>5. CASE HasPacket(bytes)
  <2> DEFINE p == accepted[r + 1]
  <2>1. received' = Append(received, FirstPacket(bytes)) /\ main' = "consume"
    BY <1>5 DEF Handle
  <2>2. r + 1 \in DOMAIN accepted /\ FirstPacket(bytes) = Serialized(p) /\ Total(p) <= Unread
    BY <1>5, FoundIsNext
  <2>3. p \in DOMAIN length /\ r + 1 <= Len(accepted)
    <3>1. accepted \in Seq(DOMAIN length)
      BY <1>2 DEF StreamTyped
    <3>2. QED
      BY <2>2, <3>1
  <2>4. Serialized(p) \in Seq(Bytes) /\ Len(Serialized(p)) = Total(p)
    BY <1>2, <2>3, SerializedBytes
  <2>5. received \in Seq(Seq(Bytes))
    BY <1>2 DEF StreamTyped
  <2> HIDE DEF p, bytes
  <2>6. /\ received' \in Seq(Seq(Bytes)) /\ Len(received') = r + 1 /\ received' # <<>>
        /\ \A i \in 1 .. r : received'[i] = received[i]
        /\ received'[r + 1] = Serialized(p)
    <3>1. received' = Append(received, Serialized(p))
      BY <2>1, <2>2
    <3>2. Serialized(p) \in Seq(Bytes)
      BY <2>4
    <3>3. QED
      BY <1>1, <2>5, <3>1, <3>2, AppendProperties
  <2>7. StreamTyped'
    BY <1>2, <2>1, <2>6 DEF StreamTyped
  <2>8. SpanIsUnread'
    <3>1. Last(received') = Serialized(p)
      BY <2>6 DEF Last
    <3>2. QED
      BY <2>1, <2>2, <2>4, <2>6, <3>1 DEF SpanIsUnread, Unread
  <2>9. PacketsArriveWhole'
    <3>1. r + 1 <= Len(accepted)
      BY <2>3
    <3>2. DOMAIN received' = 1 .. r + 1 /\ DOMAIN received = 1 .. r
      BY <2>5, <2>6, LenProperties
    <3>3. \A i \in 1 .. r + 1 : received'[i] = Serialized(accepted[i])
      <4>1. \A i \in 1 .. r : received'[i] = Serialized(accepted[i])
        BY <2>6, <3>2 DEF StreamInv, PacketsArriveWhole
      <4>2. \A i \in 1 .. r + 1 : i \in 1 .. r \/ i = r + 1
        BY <1>1
      <4>3. QED
        BY <2>6, <4>1, <4>2 DEF p
    <3>4. \A i : Serialized(accepted[i])' = Serialized(accepted[i])
      BY DEF Serialized
    <3>5. QED
      BY <2>6, <3>1, <3>2, <3>3, <3>4 DEF PacketsArriveWhole
  <2>10. QED
    BY <1>3, <2>7, <2>8, <2>9 DEF StreamInv
<1>6. QED
  BY <1>4, <1>5

LEMMA StartReadingInv ==
    ASSUME StreamInv, StartReading
    PROVE  StreamInv'
<1>1. main = "idle" /\ due > 0 /\ due' = due - 1 /\ Handle(Between(buffer.pos, buffer.filled))
      /\ UNCHANGED <<length, sends, accepted, writer, wire, buffer, up, span>>
  BY DEF StartReading
<1>2. /\ buffer.pos \in 0 .. Capacity /\ buffer.filled \in 0 .. Capacity
      /\ buffer.pos <= buffer.filled /\ due \in Nat
  BY DEF StreamInv, StreamTyped
<1>3. due' \in Nat
  BY <1>1, <1>2
<1>4. QED
  BY <1>1, <1>2, <1>3, HandleInv

LEMMA ParseInv ==
    ASSUME StreamInv, Parse
    PROVE  StreamInv'
<1>1. main = "parse" /\ Handle(Between(span.pos, span.filled))
      /\ UNCHANGED <<length, sends, accepted, writer, wire, buffer, up, due, span>>
  BY DEF Parse
<1>2. /\ span.pos \in 0 .. Capacity /\ span.filled \in 0 .. Capacity
      /\ span.pos <= span.filled /\ due \in Nat
  BY DEF StreamInv, StreamTyped
<1>3. span.pos = span.filled \/ (span.pos = buffer.pos /\ span.filled <= buffer.filled)
  <2>1. SpanIsUnread
    BY DEF StreamInv
  <2>2. main = "parse"
    BY <1>1
  <2>3. QED
    BY <2>1, <2>2 DEF SpanIsUnread
<1>4. QED
  BY <1>1, <1>2, <1>3, HandleInv

\* Two sequences put together, in the terms of the invariant.
LEMMA PutTogether ==
    ASSUME NEW s \in Seq(Bytes), NEW t \in Seq(Bytes)
    PROVE  /\ s \o t \in Seq(Bytes) /\ Len(s \o t) = Len(s) + Len(t)
           /\ \A k \in 1 .. Len(s) : (s \o t)[k] = s[k]
           /\ \A k \in 1 .. Len(t) : (s \o t)[Len(s) + k] = t[k]
<1>1. Len(s) \in Nat /\ Len(t) \in Nat
  OBVIOUS
<1>2. /\ s \o t \in Seq(Bytes) /\ Len(s \o t) = Len(s) + Len(t)
      /\ \A i \in 1 .. Len(s) + Len(t) :
             (s \o t)[i] = IF i <= Len(s) THEN s[i] ELSE t[i - Len(s)]
  BY ConcatProperties
<1>3. \A k \in 1 .. Len(s) : k \in 1 .. Len(s) + Len(t) /\ k <= Len(s)
  BY <1>1
<1>4. \A k \in 1 .. Len(t) :
          /\ Len(s) + k \in 1 .. Len(s) + Len(t) /\ ~(Len(s) + k <= Len(s))
          /\ Len(s) + k - Len(s) = k
  BY <1>1
<1>5. QED
  BY <1>2, <1>3, <1>4

\* The first n bytes of a sequence and the others.
LEMMA CutInTwo ==
    ASSUME NEW s \in Seq(Bytes), NEW n \in 0 .. Len(s)
    PROVE  /\ SubSeq(s, 1, n) \in Seq(Bytes) /\ Len(SubSeq(s, 1, n)) = n
           /\ \A k \in 1 .. n : SubSeq(s, 1, n)[k] = s[k]
           /\ SubSeq(s, n + 1, Len(s)) \in Seq(Bytes) /\ Len(SubSeq(s, n + 1, Len(s))) = Len(s) - n
           /\ \A k \in 1 .. Len(s) - n : SubSeq(s, n + 1, Len(s))[k] = s[n + k]
<1> DEFINE m == Len(s)
<1>1. m \in Nat /\ n \in Nat /\ n <= m
  OBVIOUS
<1>2. /\ \A i \in 1 .. n : s[i] \in Bytes
      /\ \A i \in n + 1 .. m : s[i] \in Bytes
  BY ElementOfSeq
<1> HIDE DEF m
<1>3. /\ SubSeq(s, 1, n) \in Seq(Bytes)
      /\ Len(SubSeq(s, 1, n)) = IF 1 <= n THEN n - 1 + 1 ELSE 0
      /\ \A i \in 1 .. n - 1 + 1 : SubSeq(s, 1, n)[i] = s[1 + i - 1]
  <2>1. 1 \in Int /\ n \in Int
    BY <1>1
  <2>2. QED
    BY <1>2, <2>1, SubSeqProperties
<1>4. /\ SubSeq(s, n + 1, m) \in Seq(Bytes)
      /\ Len(SubSeq(s, n + 1, m)) = IF n + 1 <= m THEN m - (n + 1) + 1 ELSE 0
      /\ \A i \in 1 .. m - (n + 1) + 1 : SubSeq(s, n + 1, m)[i] = s[n + 1 + i - 1]
  <2>1. n + 1 \in Int /\ m \in Int
    BY <1>1
  <2>2. QED
    BY <1>2, <2>1, SubSeqProperties
<1>5. /\ (IF 1 <= n THEN n - 1 + 1 ELSE 0) = n
      /\ (IF n + 1 <= m THEN m - (n + 1) + 1 ELSE 0) = m - n
  BY <1>1
<1>6. \A k \in 1 .. n : k \in 1 .. n - 1 + 1 /\ 1 + k - 1 = k
  BY <1>1
<1>7. \A k \in 1 .. m - n : k \in 1 .. m - (n + 1) + 1 /\ n + 1 + k - 1 = n + k
  BY <1>1
<1>8. \A k \in 1 .. n : SubSeq(s, 1, n)[k] = s[k]
  BY <1>3, <1>6
<1>9. \A k \in 1 .. m - n : SubSeq(s, n + 1, m)[k] = s[n + k]
  BY <1>4, <1>7
<1>10. QED
  BY <1>3, <1>4, <1>5, <1>8, <1>9 DEF m

\* What the writer gives to the kernel is on the wire behind the rest.
LEMMA FlushInv ==
    ASSUME StreamInv, NEW n \in 1 .. Capacity, Flush(n)
    PROVE  StreamInv'
<1> DEFINE m == Len(writer)
           w == Len(wire)
           front == SubSeq(writer, 1, n)
           rest == SubSeq(writer, n + 1, m)
<1>1. /\ n <= m /\ w + n <= WireRoom /\ wire' = wire \o front /\ writer' = rest
      /\ UNCHANGED <<length, sends, accepted, buffer, up, due, main, span, received>>
  BY DEF Flush, Flushed
<1>2. writer \in Seq(Bytes) /\ wire \in Seq(Bytes) /\ m \in Nat /\ w \in Nat /\ m < Capacity
  BY DEF StreamInv, StreamTyped
<1>3. n \in 0 .. m
  BY <1>1, <1>2
<1>4. /\ front \in Seq(Bytes) /\ Len(front) = n /\ \A k \in 1 .. n : front[k] = writer[k]
      /\ rest \in Seq(Bytes) /\ Len(rest) = m - n
      /\ \A k \in 1 .. m - n : rest[k] = writer[n + k]
  BY <1>2, <1>3, CutInTwo
<1> HIDE DEF m, w, front, rest
<1>5. /\ wire' \in Seq(Bytes) /\ Len(wire') = w + n
      /\ \A k \in 1 .. w : wire'[k] = wire[k]
      /\ \A k \in 1 .. n : wire'[w + k] = front[k]
  BY <1>1, <1>2, <1>4, PutTogether DEF w
<1>6. StreamTyped'
  <2>1. Len(writer') < Capacity /\ Len(wire') <= WireRoom
    BY <1>1, <1>2, <1>3, <1>4, <1>5
  <2>2. QED
    BY <1>1, <1>4, <1>5, <2>1 DEF StreamInv, StreamTyped
<1>7. SizesFit' /\ SpanIsUnread' /\ PacketsArriveWhole'
  BY <1>1 DEF StreamInv, SizesFit, SpanIsUnread, PacketsArriveWhole, Unread, Serialized
<1>8. NothingIsLost'
  <2>1. PICK stream, start : Carried(stream, start)
    BY DEF StreamInv, NothingIsLost
  <2> DEFINE from == start[Done + 1]
             u == Unread
  <2>2. Laid(stream, start)'
    BY <1>1, <2>1, StaysLaid DEF Carried
  <2>3. Done' = Done /\ Unread' = u /\ u \in Nat /\ from \in Nat
    <3>1. Done + 1 \in 1 .. Len(accepted) + 1
      BY Consumed
    <3>2. QED
      BY <1>1, <2>1, <3>1, Consumed DEF Done, Unread, Carried, Laid
  <2>4. /\ Len(stream) = from + u + w + m
        /\ \A k \in 1 .. u : buffer.bytes[buffer.pos + k] = stream[from + k]
        /\ \A k \in 1 .. w : wire[k] = stream[from + u + k]
        /\ \A k \in 1 .. m : writer[k] = stream[from + u + w + k]
    BY <2>1 DEF Carried, Held, m, w
  <2> HIDE DEF from, u
  <2>5. Len(stream) = from + u + Len(wire') + Len(writer')
    <3>1. Len(writer') = m - n /\ Len(wire') = w + n
      BY <1>1, <1>4, <1>5
    <3>2. from + u + (w + n) + (m - n) = from + u + w + m
      BY <1>2, <1>3, <2>3
    <3>3. QED
      BY <2>4, <3>1, <3>2
  <2>6. \A k \in 1 .. Len(wire') : wire'[k] = stream[from + u + k]
    <3> TAKE k \in 1 .. Len(wire')
    <3>1. CASE k <= w
      BY <1>2, <1>5, <2>4, <3>1
    <3>2. CASE k > w
      <4>1. k - w \in 1 .. n /\ k - w \in 1 .. m /\ w + (k - w) = k
            /\ from + u + w + (k - w) = from + u + k
        <5>1. k \in 1 .. w + n
          BY <1>5
        <5>2. QED
          BY <1>2, <1>3, <2>3, <3>2, <5>1
      <4>2. wire'[k] = front[k - w] /\ front[k - w] = writer[k - w]
        BY <1>4, <1>5, <4>1
      <4>3. QED
        BY <2>4, <4>1, <4>2
    <3>3. QED
      BY <1>2, <1>5, <3>1, <3>2
  <2>7. \A k \in 1 .. Len(writer') : writer'[k] = stream[from + u + Len(wire') + k]
    <3> TAKE k \in 1 .. Len(writer')
    <3>1. /\ k \in 1 .. m - n /\ n + k \in 1 .. m
          /\ from + u + w + (n + k) = from + u + Len(wire') + k
      BY <1>1, <1>2, <1>3, <1>4, <1>5, <2>3
    <3>2. writer'[k] = writer[n + k]
      BY <1>1, <1>4, <3>1
    <3>3. QED
      BY <2>4, <3>1, <3>2
  <2>8. Held(stream, from)'
    BY <1>1, <2>3, <2>4, <2>5, <2>6, <2>7 DEF Held, from
  <2>9. from' = from
    BY <2>3 DEF from
  <2>10. QED
    BY <2>2, <2>8, <2>9 DEF Carried, NothingIsLost, from
<1>9. QED
  BY <1>6, <1>7, <1>8 DEF StreamInv

\* A packet the writer takes is laid behind all that was accepted before.
LEMMA WriteInv ==
    ASSUME StreamInv, WritePacket
    PROVE  StreamInv'
<1> DEFINE p == Head(sends)
           n == Len(accepted)
           fits == HeaderLen + length[p] < Capacity - Len(writer)
<1>1. /\ sends # <<>> /\ sends' = Tail(sends)
      /\ accepted' = IF fits THEN Append(accepted, p) ELSE accepted
      /\ writer' = IF fits THEN writer \o Serialized(p) ELSE writer
      /\ UNCHANGED <<length, wire, buffer, up, due, main, span, received>>
  BY DEF WritePacket
<1>2. StreamTyped
  BY DEF StreamInv
<1>3. /\ sends \in Seq(DOMAIN length) /\ accepted \in Seq(DOMAIN length) /\ n \in Nat
      /\ writer \in Seq(Bytes) /\ Len(writer) \in Nat /\ Len(writer) < Capacity
  BY <1>2 DEF StreamTyped
<1>4. p \in DOMAIN length /\ sends' \in Seq(DOMAIN length)
  BY <1>1, <1>3
<1>5. /\ p \in Nat /\ length[p] \in Nat /\ Total(p) \in Nat \ {0}
      /\ Serialized(p) \in Seq(Bytes) /\ Len(Serialized(p)) = Total(p)
      /\ \A k \in 1 .. Total(p) : Serialized(p)[k] = [packet |-> p, at |-> k]
  BY <1>2, <1>4, SerializedBytes
<1> HIDE DEF p, n
<1>6. /\ SpanIsUnread'
      /\ \A i : Serialized(i)' = Serialized(i)
      /\ Done' = Done /\ Unread' = Unread
  BY <1>1 DEF StreamInv, SpanIsUnread, Unread, Serialized, Done
<1>7. PICK stream, start : Carried(stream, start)
  BY DEF StreamInv, NothingIsLost
<1>8. CASE ~fits
  <2>1. UNCHANGED <<accepted, writer>>
    BY <1>1, <1>8
  <2>2. StreamTyped'
    BY <1>1, <1>2, <1>4, <2>1 DEF StreamTyped
  <2>3. SizesFit' /\ PacketsArriveWhole'
    BY <1>1, <1>6, <2>1 DEF StreamInv, SizesFit, PacketsArriveWhole
  <2>4. Laid(stream, start)'
    BY <1>1, <1>7, <2>1, StaysLaid DEF Carried
  <2>5. Held(stream, start[Done + 1])'
    BY <1>1, <1>6, <1>7, <2>1 DEF Carried, Held
  <2>6. QED
    BY <1>6, <2>2, <2>3, <2>4, <2>5 DEF StreamInv, Carried, NothingIsLost
<1>9. CASE fits
  <2> DEFINE m == Len(stream)
  <2>0. PICK longer, starts :
           /\ longer = stream \o Serialized(p)
           /\ starts = [i \in 1 .. n + 2 |-> IF i = n + 2 THEN m + Total(p) ELSE start[i]]
    OBVIOUS
  <2>1. accepted' = Append(accepted, p) /\ writer' = writer \o Serialized(p)
    BY <1>1, <1>9
  <2>2. /\ accepted' \in Seq(DOMAIN length) /\ Len(accepted') = n + 1
        /\ \A i \in 1 .. n : accepted'[i] = accepted[i]
        /\ accepted'[n + 1] = p
        /\ DOMAIN accepted = 1 .. n /\ DOMAIN accepted' = 1 .. n + 1
    BY <1>3, <1>4, <2>1, AppendProperties, LenProperties DEF n
  <2>3. /\ writer' \in Seq(Bytes) /\ Len(writer') = Len(writer) + Total(p)
        /\ \A k \in 1 .. Len(writer) : writer'[k] = writer[k]
        /\ \A k \in 1 .. Total(p) : writer'[Len(writer) + k] = Serialized(p)[k]
    <3>1. /\ writer \o Serialized(p) \in Seq(Bytes)
          /\ Len(writer \o Serialized(p)) = Len(writer) + Len(Serialized(p))
          /\ \A k \in 1 .. Len(writer) : (writer \o Serialized(p))[k] = writer[k]
          /\ \A k \in 1 .. Len(Serialized(p)) :
                 (writer \o Serialized(p))[Len(writer) + k] = Serialized(p)[k]
      BY <1>3, <1>5, PutTogether
    <3>2. QED
      BY <1>5, <2>1, <3>1
  <2>4. Total(p) < Capacity - Len(writer)
    BY <1>9 DEF Total
  <2>5. Len(writer') < Capacity
    BY <1>3, <1>5, <2>3, <2>4
  <2>6. StreamTyped'
    BY <1>1, <1>2, <1>4, <2>2, <2>3, <2>5 DEF StreamTyped
  <2>7. SizesFit'
    <3>1. length[p] < SizeLimit
      BY <1>3, <1>5, <2>4 DEF Total
    <3>2. \A i \in 1 .. n : length[accepted'[i]] < SizeLimit
      BY <2>2 DEF StreamInv, SizesFit
    <3>3. \A i \in 1 .. n + 1 : i \in 1 .. n \/ i = n + 1
      BY <1>3
    <3>4. QED
      BY <1>1, <2>2, <3>1, <3>2, <3>3 DEF SizesFit
  <2>8. PacketsArriveWhole'
    <3>1. Len(received) \in Nat /\ Len(received) <= n /\ DOMAIN received = 1 .. Len(received)
      BY <1>2, Consumed DEF StreamTyped, n
    <3>2. \A i \in DOMAIN received : i \in 1 .. n
      BY <1>3, <3>1
    <3>3. \A i \in DOMAIN received : received[i] = Serialized(accepted'[i])
      BY <2>2, <3>2 DEF StreamInv, PacketsArriveWhole
    <3>4. Len(received) <= n + 1
      BY <1>3, <3>1
    <3>5. \A i : Serialized(accepted'[i]) = Serialized(accepted[i])'
      BY <1>1 DEF Serialized
    <3>6. QED
      BY <1>1, <2>2, <3>3, <3>4, <3>5 DEF PacketsArriveWhole
  <2>9. /\ stream \in Seq(Bytes) /\ m \in Nat /\ start \in [1 .. n + 1 -> Nat] /\ start[n + 1] = m
        /\ \A i, k \in 1 .. n + 1 : i <= k => start[i] <= start[k]
        /\ \A i \in 1 .. n :
               /\ start[i + 1] = start[i] + Total(accepted[i])
               /\ \A j \in 1 .. Total(accepted[i]) :
                      stream[start[i] + j] = [packet |-> accepted[i], at |-> j]
    <3>1. Laid(stream, start)
      BY <1>7 DEF Carried
    <3>2. /\ stream \in Seq(Bytes) /\ start \in [1 .. n + 1 -> Nat] /\ start[n + 1] = m
          /\ \A i, k \in DOMAIN start : i <= k => start[i] <= start[k]
      BY <3>1 DEF Laid, n
    <3>3. \A i \in 1 .. n :
               /\ start[i + 1] = start[i] + Total(accepted[i])
               /\ \A j \in 1 .. Total(accepted[i]) :
                      stream[start[i] + j] = [packet |-> accepted[i], at |-> j]
      BY <2>2, <3>1 DEF Laid
    <3>4. m \in Nat /\ DOMAIN start = 1 .. n + 1
      BY <3>2
    <3>5. QED
      BY <3>2, <3>3, <3>4
  <2>10. /\ longer \in Seq(Bytes) /\ Len(longer) = m + Total(p)
         /\ \A k \in 1 .. m : longer[k] = stream[k]
         /\ \A k \in 1 .. Total(p) : longer[m + k] = Serialized(p)[k]
    <3>1. /\ stream \o Serialized(p) \in Seq(Bytes)
          /\ Len(stream \o Serialized(p)) = Len(stream) + Len(Serialized(p))
          /\ \A k \in 1 .. Len(stream) : (stream \o Serialized(p))[k] = stream[k]
          /\ \A k \in 1 .. Len(Serialized(p)) :
                 (stream \o Serialized(p))[Len(stream) + k] = Serialized(p)[k]
      BY <1>5, <2>9, PutTogether
    <3>2. QED
      BY <1>5, <2>0, <3>1
  <2> HIDE DEF m
  <2>11. /\ starts \in [1 .. n + 2 -> Nat] /\ starts[n + 2] = m + Total(p)
         /\ \A i \in 1 .. n + 1 : starts[i] = start[i]
    <3>1. \A i \in 1 .. n + 1 : i \in 1 .. n + 2 /\ i # n + 2
      BY <1>3
    <3>2. n + 2 \in 1 .. n + 2 /\ \A i \in 1 .. n + 2 : i = n + 2 \/ i \in 1 .. n + 1
      BY <1>3
    <3>3. m + Total(p) \in Nat
      BY <1>5, <2>9
    <3>4. \A i \in 1 .. n + 1 : starts[i] = start[i]
      BY <2>0, <3>1
    <3>5. starts[n + 2] = m + Total(p)
      BY <2>0, <3>2
    <3>6. DOMAIN starts = 1 .. n + 2 /\ \A i \in 1 .. n + 2 : starts[i] \in Nat
      BY <2>0, <2>9, <3>2, <3>3, <3>4, <3>5
    <3>7. starts \in [1 .. n + 2 -> Nat]
      BY <2>0, <3>6
    <3>8. QED
      BY <3>4, <3>5, <3>7
  <2>12. \A i, k \in 1 .. n + 2 : i <= k => starts[i] <= starts[k]
    <3> TAKE i, k \in 1 .. n + 2
    <3> HAVE i <= k
    <3>1. CASE k \in 1 .. n + 1
      <4>1. i \in 1 .. n + 1
        BY <1>3, <3>1
      <4>2. QED
        BY <2>9, <2>11, <3>1, <4>1
    <3>2. CASE k = n + 2 /\ i \in 1 .. n + 1
      <4>1. starts[i] = start[i] /\ start[i] <= m /\ start[i] \in Nat
        <5>1. n + 1 \in 1 .. n + 1 /\ i <= n + 1
          BY <1>3, <3>2
        <5>2. QED
          BY <2>9, <2>11, <3>2, <5>1
      <4>2. QED
        BY <1>5, <2>9, <2>11, <3>2, <4>1
    <3>3. CASE k = n + 2 /\ i = n + 2
      BY <2>9, <2>11, <1>5, <3>3
    <3>4. QED
      BY <1>3, <3>1, <3>2, <3>3
  <2>13. \A i \in 1 .. n + 1 :
             /\ starts[i + 1] = starts[i] + Total(accepted'[i])
             /\ \A j \in 1 .. Total(accepted'[i]) :
                    longer[starts[i] + j] = [packet |-> accepted'[i], at |-> j]
    <3>1. ASSUME NEW i \in 1 .. n
          PROVE  /\ starts[i + 1] = starts[i] + Total(accepted'[i])
                 /\ \A j \in 1 .. Total(accepted'[i]) :
                        longer[starts[i] + j] = [packet |-> accepted'[i], at |-> j]
      <4>1. i \in 1 .. n + 1 /\ i + 1 \in 1 .. n + 1 /\ n + 1 \in 1 .. n + 1 /\ i + 1 <= n + 1
        BY <1>3
      <4>2. starts[i] = start[i] /\ starts[i + 1] = start[i + 1] /\ accepted'[i] = accepted[i]
        BY <2>2, <2>11, <4>1
      <4>3. start[i] \in Nat /\ start[i + 1] \in Nat /\ start[i + 1] <= m
        BY <2>9, <4>1
      <4>4. Total(accepted[i]) \in Nat
        <5>1. accepted[i] \in DOMAIN length
          BY <1>3, <2>2
        <5>2. QED
          BY <1>2, <5>1, SerializedBytes
      <4>5. \A j \in 1 .. Total(accepted[i]) : start[i] + j \in 1 .. m
        <5>1. start[i + 1] = start[i] + Total(accepted[i])
          BY <2>9
        <5>2. QED
          BY <2>9, <4>3, <4>4, <5>1
      <4>6. QED
        BY <2>9, <2>10, <4>2, <4>5
    <3>2. /\ starts[n + 1 + 1] = starts[n + 1] + Total(p)
          /\ \A j \in 1 .. Total(p) : longer[starts[n + 1] + j] = [packet |-> p, at |-> j]
      <4>1. n + 1 + 1 = n + 2 /\ n + 1 \in 1 .. n + 1
        BY <1>3
      <4>2. starts[n + 1] = m
        BY <2>9, <2>11, <4>1
      <4>3. QED
        BY <1>5, <2>10, <2>11, <4>1, <4>2
    <3>3. \A i \in 1 .. n + 1 : i \in 1 .. n \/ i = n + 1
      BY <1>3
    <3>4. QED
      BY <2>2, <3>1, <3>2, <3>3
  <2>14. Laid(longer, starts)'
    <3>1. Len(accepted') + 1 = n + 2
      BY <1>3, <2>2
    <3>2. \A i : Total(accepted[i])' = Total(accepted'[i])
      BY <1>1 DEF Total
    <3>3. DOMAIN starts = 1 .. n + 2
      BY <2>11
    <3>4. QED
      BY <2>2, <2>10, <2>11, <2>12, <2>13, <3>1, <3>2, <3>3 DEF Laid
  <2>15. Held(longer, starts[Done + 1])'
    <3> DEFINE from == start[Done + 1]
               u == Unread
               w == Len(wire)
               v == Len(writer)
    <3>1. /\ starts[Done + 1]' = from /\ from \in Nat /\ u \in Nat /\ w \in Nat /\ v \in Nat
      <4>1. Done + 1 \in 1 .. n + 1
        BY <1>3, Consumed DEF n
      <4>2. starts[Done' + 1] = from /\ from \in Nat
        BY <1>6, <2>9, <2>11, <4>1
      <4>3. u \in Nat /\ w \in Nat /\ v \in Nat
        BY <1>2, <1>3, Consumed DEF StreamTyped
      <4>4. QED
        BY <4>2, <4>3
    <3>2. /\ m = from + u + w + v
          /\ \A k \in 1 .. u : buffer.bytes[buffer.pos + k] = stream[from + k]
          /\ \A k \in 1 .. w : wire[k] = stream[from + u + k]
          /\ \A k \in 1 .. v : writer[k] = stream[from + u + w + k]
      BY <1>7 DEF Carried, Held, m
    <3> HIDE DEF from, u, w, v
    <3>3. Len(writer') = v + Total(p) /\ Len(wire') = w
      BY <1>1, <2>3 DEF v, w
    <3>4. Len(longer) = from + u + w + (v + Total(p))
      BY <1>5, <2>10, <3>1, <3>2
    <3>5. \A k \in 1 .. u : buffer.bytes[buffer.pos + k] = longer[from + k]
      <4>1. \A k \in 1 .. u : from + k \in 1 .. m
        BY <3>1, <3>2
      <4>2. QED
        BY <2>10, <3>2, <4>1
    <3>6. \A k \in 1 .. w : wire[k] = longer[from + u + k]
      <4>1. \A k \in 1 .. w : from + u + k \in 1 .. m
        BY <3>1, <3>2
      <4>2. QED
        BY <2>10, <3>2, <4>1
    <3>7. \A k \in 1 .. v + Total(p) : writer'[k] = longer[from + u + w + k]
      <4> TAKE k \in 1 .. v + Total(p)
      <4>1. CASE k <= v
        <5>1. k \in 1 .. v /\ from + u + w + k \in 1 .. m
          BY <1>5, <3>1, <3>2, <4>1
        <5>2. QED
          BY <2>3, <2>10, <3>2, <5>1 DEF v
      <4>2. CASE k > v
        <5>1. k - v \in 1 .. Total(p) /\ v + (k - v) = k /\ m + (k - v) = from + u + w + k
          BY <1>5, <3>1, <3>2, <4>2
        <5>2. writer'[v + (k - v)] = Serialized(p)[k - v]
          BY <2>3, <5>1 DEF v
        <5>3. longer[m + (k - v)] = Serialized(p)[k - v]
          BY <2>10, <5>1
        <5>4. QED
          BY <5>1, <5>2, <5>3
      <4>3. QED
        BY <1>5, <3>1, <4>1, <4>2
    <3>8. Held(longer, from)'
      <4>1. from' = from /\ u = Unread' /\ buffer' = buffer /\ wire' = wire
        BY <1>1, <1>6 DEF from, u
      <4>2. QED
        BY <3>3, <3>4, <3>5, <3>6, <3>7, <4>1 DEF Held
    <3>9. QED
      BY <1>6, <3>1, <3>8 DEF from
  <2>16. NothingIsLost'
    BY <2>14, <2>15 DEF NothingIsLost, Carried
  <2>17. QED
    BY <1>6, <2>6, <2>7, <2>8, <2>16 DEF StreamInv
<1>10. QED
  BY <1>8, <1>9

\* What is received goes behind what is unread, and overwrites none of it.
LEMMA FillInv ==
    ASSUME StreamInv, FillBuf
    PROVE  StreamInv'
<1> DEFINE b == Compacted(buffer)
           w == Len(wire)
           u == Unread
<1>1. PICK n : /\ n = Min({Room(b), w}) /\ n > 0
               /\ buffer' = [bytes |-> [k \in 1 .. Capacity |->
                                           IF k \in b.filled + 1 .. b.filled + n
                                           THEN wire[k - b.filled] ELSE b.bytes[k]],
                             pos |-> b.pos, filled |-> b.filled + n]
               /\ wire' = SubSeq(wire, n + 1, w)
               /\ due' = due + 1
               /\ UNCHANGED <<length, sends, accepted, writer, up, main, span, received>>
  BY DEF FillBuf
<1>2. StreamTyped
  BY DEF StreamInv
<1>3. /\ buffer.bytes \in [1 .. Capacity -> Bytes]
      /\ buffer.pos \in 0 .. Capacity /\ buffer.filled \in 0 .. Capacity /\ buffer.pos <= buffer.filled
      /\ wire \in Seq(Bytes) /\ w \in Nat /\ u \in Nat
  BY <1>2, Consumed DEF StreamTyped
<1>4. /\ b.bytes = buffer.bytes /\ b.filled = b.pos + u /\ b.pos \in 0 .. Capacity
      /\ b.filled \in 0 .. Capacity
      /\ u > 0 => b = buffer
      /\ \A k \in 1 .. u : b.bytes[b.pos + k] = buffer.bytes[buffer.pos + k]
  <2>1. CASE buffer.pos = buffer.filled
    <3>1. b = [buffer EXCEPT !.pos = 0, !.filled = 0]
      BY <2>1 DEF Compacted
    <3>2. buffer = [bytes |-> buffer.bytes, pos |-> buffer.pos, filled |-> buffer.filled]
      BY <1>2 DEF StreamTyped
    <3>3. b.bytes = buffer.bytes /\ b.pos = 0 /\ b.filled = 0
      BY <3>1, <3>2
    <3>4. u = 0
      BY <1>3, <2>1 DEF Unread
    <3> HIDE DEF b, u
    <3>5. QED
      BY <3>3, <3>4
  <2>2. CASE buffer.pos # buffer.filled
    <3>1. b = buffer
      BY <2>2 DEF Compacted
    <3>2. buffer.filled = buffer.pos + u
      BY <1>3 DEF Unread
    <3> HIDE DEF b, u
    <3>3. QED
      BY <1>3, <3>1, <3>2
  <2>3. QED
    BY <2>1, <2>2
<1> HIDE DEF b, w, u
<1>5. n \in Nat /\ n > 0 /\ n <= w /\ b.filled + n <= Capacity
  <2>1. Room(b) = Capacity - b.filled /\ Room(b) \in Nat
    BY <1>4 DEF Room
  <2>2. n = IF Room(b) <= w THEN Room(b) ELSE w
    BY <1>1, <1>3, <2>1, SmallerOfTwo
  <2>3. QED
    <3>1. n > 0
      BY <1>1
    <3>2. n \in Nat /\ n <= w /\ n <= Room(b)
      BY <1>3, <2>1, <2>2
    <3>3. b.filled \in Nat
      BY <1>4
    <3>4. QED
      BY <2>1, <3>1, <3>2, <3>3
<1>6. /\ wire' \in Seq(Bytes) /\ Len(wire') = w - n
      /\ \A k \in 1 .. w - n : wire'[k] = wire[n + k]
  <2>1. n \in 0 .. Len(wire) /\ w = Len(wire)
    BY <1>3, <1>5 DEF w
  <2>2. /\ SubSeq(wire, n + 1, Len(wire)) \in Seq(Bytes)
        /\ Len(SubSeq(wire, n + 1, Len(wire))) = Len(wire) - n
        /\ \A k \in 1 .. Len(wire) - n : SubSeq(wire, n + 1, Len(wire))[k] = wire[n + k]
    BY <1>3, <2>1, CutInTwo
  <2>3. QED
    BY <1>1, <2>1, <2>2
<1>7. /\ buffer'.bytes \in [1 .. Capacity -> Bytes]
      /\ buffer'.pos = b.pos /\ buffer'.filled = b.filled + n
      /\ \A k \in 1 .. u : buffer'.bytes[b.pos + k] = buffer.bytes[buffer.pos + k]
      /\ \A k \in 1 .. n : buffer'.bytes[b.filled + k] = wire[k]
  <2>1. buffer'.bytes = [k \in 1 .. Capacity |->
                            IF k \in b.filled + 1 .. b.filled + n
                            THEN wire[k - b.filled] ELSE b.bytes[k]]
    BY <1>1
  <2>2. buffer'.pos = b.pos /\ buffer'.filled = b.filled + n
    BY <1>1
  <2>3. \A k \in b.filled + 1 .. b.filled + n : k - b.filled \in 1 .. w
    <3>1. \A g \in Nat : \A k \in g + 1 .. g + n : k - g \in 1 .. n
      BY <1>5
    <3>2. \A j \in 1 .. n : j \in 1 .. w
      BY <1>3, <1>5
    <3>3. b.filled \in Nat
      BY <1>4
    <3>4. QED
      BY <3>1, <3>2, <3>3
  <2>4. \A k \in b.filled + 1 .. b.filled + n : wire[k - b.filled] \in Bytes
    <3>1. \A k \in 1 .. w : wire[k] \in Bytes
      BY <1>3, ElementOfSeq DEF w
    <3>2. QED
      BY <2>3, <3>1
  <2>5. buffer'.bytes \in [1 .. Capacity -> Bytes]
    BY <1>3, <1>4, <2>1, <2>4
  <2>6. \A k \in 1 .. u : buffer'.bytes[b.pos + k] = buffer.bytes[buffer.pos + k]
    <3> TAKE k \in 1 .. u
    <3>1. b.pos + k \in 1 .. Capacity /\ b.pos + k \notin b.filled + 1 .. b.filled + n
      <4>1. \A g \in Nat : g + u <= Capacity =>
                /\ g + k \in 1 .. Capacity
                /\ g + k \notin g + u + 1 .. g + u + n
        BY <1>3, <1>5
      <4>2. b.pos \in Nat /\ b.filled = b.pos + u /\ b.pos + u <= Capacity
        BY <1>4
      <4>3. QED
        BY <4>1, <4>2
    <3>2. buffer'.bytes[b.pos + k] = b.bytes[b.pos + k]
      BY <2>1, <3>1
    <3>3. QED
      BY <1>4, <3>2
  <2>7. \A k \in 1 .. n : buffer'.bytes[b.filled + k] = wire[k]
    <3> TAKE k \in 1 .. n
    <3>1. \E i \in 1 .. Capacity :
              i = b.filled + k /\ i \in b.filled + 1 .. b.filled + n /\ i - b.filled = k
      <4>1. ASSUME NEW g \in Nat, g + n <= Capacity
            PROVE  \E i \in 1 .. Capacity : i = g + k /\ i \in g + 1 .. g + n /\ i - g = k
        <5>1. g + k \in 1 .. Capacity /\ g + k \in g + 1 .. g + n /\ g + k - g = k
          BY <1>5, <4>1
        <5>2. QED
          BY <5>1
      <4>2. b.filled \in Nat /\ b.filled + n <= Capacity
        BY <1>4, <1>5
      <4>3. QED
        BY <4>1, <4>2
    <3>2. \A i \in 1 .. Capacity : i \in b.filled + 1 .. b.filled + n =>
               buffer'.bytes[i] = wire[i - b.filled]
      BY <2>1
    <3>3. QED
      BY <3>1, <3>2
  <2>8. QED
    BY <2>2, <2>5, <2>6, <2>7
<1>8. Unread' = u + n /\ Done' = Done
  <2>1. buffer'.filled - buffer'.pos = u + n
    BY <1>3, <1>4, <1>5, <1>7
  <2>2. QED
    BY <1>1, <2>1 DEF Unread, Done
<1>9. StreamTyped'
  <2>1. buffer' \in [bytes : [1 .. Capacity -> Bytes], pos : 0 .. Capacity, filled : 0 .. Capacity]
    <3>1. b.filled + n \in 0 .. Capacity
      BY <1>4, <1>5
    <3>2. buffer' = [bytes |-> buffer'.bytes, pos |-> buffer'.pos, filled |-> buffer'.filled]
      BY <1>1
    <3>3. QED
      BY <1>4, <1>7, <3>1, <3>2
  <2>2. buffer'.pos <= buffer'.filled
    BY <1>3, <1>4, <1>5, <1>7
  <2>3. Len(wire') <= WireRoom /\ due' \in Nat
    <3>1. w <= WireRoom /\ due \in Nat
      BY <1>2 DEF StreamTyped, w
    <3>2. Len(wire') <= WireRoom
      <4>1. w \in Nat /\ n \in Nat /\ Len(wire') = w - n
        BY <1>3, <1>5, <1>6
      <4>2. QED
        BY <3>1, <4>1
    <3>3. due' \in Nat
      BY <1>1, <3>1
    <3>4. QED
      BY <3>2, <3>3
  <2>4. QED
    BY <1>1, <1>2, <1>6, <2>1, <2>2, <2>3 DEF StreamTyped
<1>10. SizesFit' /\ PacketsArriveWhole'
  BY <1>1 DEF StreamInv, SizesFit, PacketsArriveWhole, Serialized
<1>11. SpanIsUnread'
  <2>1. ASSUME main = "parse"
        PROVE  span.pos = span.filled \/ (span.pos = buffer'.pos /\ span.filled <= buffer'.filled)
    <3>1. /\ span.pos \in 0 .. Capacity /\ span.filled \in 0 .. Capacity /\ span.pos <= span.filled
      BY <1>2 DEF StreamTyped
    <3>2. SpanIsUnread
      BY DEF StreamInv
    <3>3. span.pos = span.filled \/ (span.pos = buffer.pos /\ span.filled <= buffer.filled)
      BY <2>1, <3>2 DEF SpanIsUnread
    <3>4. CASE u > 0
      <4>1. buffer'.pos = buffer.pos /\ buffer'.filled = buffer.filled + n
        BY <1>4, <1>7, <3>4
      <4>2. QED
        BY <1>3, <1>5, <3>1, <3>3, <4>1
    <3>5. CASE u = 0
      <4>1. buffer.pos = buffer.filled
        BY <1>3, <3>5 DEF u, Unread
      <4>2. QED
        BY <1>3, <3>1, <3>3, <4>1
    <3>6. QED
      BY <1>3, <3>4, <3>5
  <2>2. ASSUME main = "consume"
        PROVE  received # <<>> /\ Len(Last(received)) <= Unread'
    <3>1. SpanIsUnread
      BY DEF StreamInv
    <3>2. received # <<>> /\ Len(Last(received)) <= u
      BY <2>2, <3>1 DEF SpanIsUnread, u
    <3>3. Len(Last(received)) \in Nat
      <4>1. received \in Seq(Seq(Bytes))
        BY <1>2 DEF StreamTyped
      <4>2. Last(received) \in Seq(Bytes)
        BY <3>2, <4>1 DEF Last
      <4>3. QED
        BY <4>2
    <3>4. QED
      BY <1>3, <1>5, <1>8, <3>2, <3>3
  <2>3. QED
    BY <1>1, <2>1, <2>2 DEF SpanIsUnread
<1>12. NothingIsLost'
  <2>1. PICK stream, start : Carried(stream, start)
    BY DEF StreamInv, NothingIsLost
  <2> DEFINE from == start[Done + 1]
             v == Len(writer)
  <2>2. Laid(stream, start)'
    BY <1>1, <2>1, StaysLaid DEF Carried
  <2>3. from' = from /\ from \in Nat /\ v \in Nat
    <3>1. Done + 1 \in 1 .. Len(accepted) + 1
      BY Consumed
    <3>2. QED
      BY <1>2, <1>8, <2>1, <3>1 DEF Carried, Laid, StreamTyped
  <2>4. /\ Len(stream) = from + u + w + v
        /\ \A k \in 1 .. u : buffer.bytes[buffer.pos + k] = stream[from + k]
        /\ \A k \in 1 .. w : wire[k] = stream[from + u + k]
        /\ \A k \in 1 .. v : writer[k] = stream[from + u + w + k]
    BY <2>1 DEF Carried, Held, w, u
  <2> HIDE DEF from, v
  <2>5. Len(stream) = from + (u + n) + (w - n) + v
    <3>1. from + (u + n) + (w - n) + v = from + u + w + v
      BY <1>3, <1>5, <2>3
    <3>2. QED
      BY <2>4, <3>1
  <2>6. \A k \in 1 .. u + n : buffer'.bytes[b.pos + k] = stream[from + k]
    <3> TAKE k \in 1 .. u + n
    <3>1. CASE k <= u
      <4>1. k \in 1 .. u
        BY <1>3, <1>5, <3>1
      <4>2. QED
        BY <1>7, <2>4, <4>1
    <3>2. CASE k > u
      <4>1. /\ k - u \in 1 .. n /\ k - u \in 1 .. w
            /\ b.filled + (k - u) = b.pos + k /\ from + u + (k - u) = from + k
        <5>1. b.pos \in Nat /\ b.filled = b.pos + u
          BY <1>4
        <5>2. k \in 1 .. u + n
          OBVIOUS
        <5>3. QED
          BY <1>3, <1>5, <2>3, <3>2, <5>1, <5>2
      <4>2. buffer'.bytes[b.filled + (k - u)] = wire[k - u]
        BY <1>7, <4>1
      <4>3. wire[k - u] = stream[from + u + (k - u)]
        BY <2>4, <4>1
      <4>4. QED
        BY <4>1, <4>2, <4>3
    <3>3. QED
      BY <1>3, <1>5, <3>1, <3>2
  <2>7. \A k \in 1 .. w - n : wire'[k] = stream[from + (u + n) + k]
    <3> TAKE k \in 1 .. w - n
    <3>1. n + k \in 1 .. w /\ from + u + (n + k) = from + (u + n) + k
      BY <1>3, <1>5, <2>3
    <3>2. QED
      BY <1>6, <2>4, <3>1
  <2>8. \A k \in 1 .. v : writer[k] = stream[from + (u + n) + (w - n) + k]
    <3> TAKE k \in 1 .. v
    <3>1. from + u + w + k = from + (u + n) + (w - n) + k
      BY <1>3, <1>5, <2>3
    <3>2. QED
      BY <2>4, <3>1
  <2>9. Held(stream, from)'
    <3>1. v = Len(writer') /\ writer' = writer
      BY <1>1 DEF v
    <3>2. QED
      BY <1>6, <1>7, <1>8, <2>3, <2>5, <2>6, <2>7, <2>8, <3>1 DEF Held
  <2>10. QED
    BY <2>2, <2>9 DEF Carried, NothingIsLost, from
<1>13. QED
  BY <1>9, <1>10, <1>11, <1>12 DEF StreamInv

\* What is consumed is the packet that was handed out.
LEMMA ConsumeInv ==
    ASSUME StreamInv, Consume
    PROVE  StreamInv'
<1> DEFINE t == Len(Last(received))
           u == Unread
           r == Len(received)
           w == Len(wire)
           v == Len(writer)
<1>1. PICK pos : /\ pos = Min({buffer.pos + t, buffer.filled})
                 /\ buffer' = [buffer EXCEPT !.pos = pos]
                 /\ span' = [pos |-> pos, filled |-> buffer.filled]
  BY DEF Consume
<1>2. /\ main = "consume" /\ main' = "parse"
      /\ UNCHANGED <<length, sends, accepted, writer, wire, up, due, received>>
  BY DEF Consume
<1>3. StreamTyped
  BY DEF StreamInv
<1>4. /\ buffer \in [bytes : [1 .. Capacity -> Bytes], pos : 0 .. Capacity, filled : 0 .. Capacity]
      /\ buffer.pos <= buffer.filled
      /\ u \in Nat /\ w \in Nat /\ v \in Nat /\ buffer.filled = buffer.pos + u
  <2>1. /\ buffer \in [bytes : [1 .. Capacity -> Bytes], pos : 0 .. Capacity, filled : 0 .. Capacity]
        /\ buffer.pos <= buffer.filled /\ w \in Nat /\ v \in Nat
    BY <1>3 DEF StreamTyped
  <2>2. buffer.pos \in 0 .. Capacity /\ buffer.filled \in 0 .. Capacity
    BY <2>1
  <2>3. QED
    BY <2>1, <2>2, Consumed DEF Unread
<1>5. /\ received # <<>> /\ t <= u /\ t \in Nat /\ r \in Nat /\ r > 0 /\ r \in DOMAIN received
      /\ r <= Len(accepted) /\ Len(accepted) \in Nat
      /\ Done = r - 1 /\ Last(received) = Serialized(accepted[r])
  <2>1. SpanIsUnread
    BY DEF StreamInv
  <2>2. received # <<>> /\ t <= u
    BY <1>2, <2>1 DEF SpanIsUnread
  <2>3. received \in Seq(Seq(Bytes))
    BY <1>3 DEF StreamTyped
  <2>4. r \in Nat /\ r > 0 /\ r \in DOMAIN received /\ Last(received) = received[r]
    BY <2>2, <2>3 DEF Last
  <2>5. t \in Nat
    BY <2>3, <2>4
  <2>6. received[r] = Serialized(accepted[r])
    BY <2>4 DEF StreamInv, PacketsArriveWhole
  <2>7. QED
    BY <1>2, <2>2, <2>4, <2>5, <2>6, Consumed DEF Done
<1>6. accepted[r] \in DOMAIN length /\ t = Total(accepted[r]) /\ r \in DOMAIN accepted
  <2>1. accepted \in Seq(DOMAIN length)
    BY <1>3 DEF StreamTyped
  <2>2. r \in DOMAIN accepted /\ accepted[r] \in DOMAIN length
    BY <1>5, <2>1
  <2>3. QED
    BY <1>3, <1>5, <2>2, SerializedBytes
<1> HIDE DEF t, u, r, w, v
<1>7. pos = buffer.pos + t /\ pos \in 0 .. Capacity /\ pos <= buffer.filled
  <2>1. buffer.pos \in 0 .. Capacity /\ buffer.filled \in 0 .. Capacity
    BY <1>4
  <2>2. buffer.pos + t \in Nat /\ buffer.filled \in Nat /\ buffer.pos + t <= buffer.filled
    BY <1>4, <1>5, <2>1
  <2>3. pos = buffer.pos + t
    BY <1>1, <2>2, SmallerOfTwo
  <2>4. QED
    BY <2>1, <2>2, <2>3
<1>8. /\ buffer'.bytes = buffer.bytes /\ buffer'.pos = pos /\ buffer'.filled = buffer.filled
      /\ buffer' \in [bytes : [1 .. Capacity -> Bytes], pos : 0 .. Capacity, filled : 0 .. Capacity]
  BY <1>1, <1>4, <1>7
<1>9. Unread' = u - t /\ Done' = r
  <2>1. buffer'.filled - buffer'.pos = u - t
    <3>1. buffer.pos \in 0 .. Capacity /\ buffer.filled \in 0 .. Capacity
      BY <1>4
    <3>2. QED
      BY <1>4, <1>5, <1>7, <1>8, <3>1
  <2>2. QED
    BY <1>2, <1>5, <2>1 DEF Unread, Done, r
<1>10. StreamTyped'
  <2>1. span' \in [pos : 0 .. Capacity, filled : 0 .. Capacity] /\ span'.pos <= span'.filled
    <3>1. buffer.filled \in 0 .. Capacity
      BY <1>4
    <3>2. QED
      BY <1>1, <1>7, <3>1
  <2>2. buffer'.pos <= buffer'.filled
    BY <1>7, <1>8
  <2>3. QED
    BY <1>2, <1>3, <1>8, <2>1, <2>2 DEF StreamTyped
<1>11. SizesFit' /\ PacketsArriveWhole'
  BY <1>2 DEF StreamInv, SizesFit, PacketsArriveWhole, Serialized
<1>12. SpanIsUnread'
  <2>1. span'.pos = buffer'.pos /\ span'.filled <= buffer'.filled
    <3>1. buffer.filled \in 0 .. Capacity
      BY <1>4
    <3>2. QED
      BY <1>1, <1>8, <3>1
  <2>2. QED
    BY <1>2, <2>1 DEF SpanIsUnread
<1>13. NothingIsLost'
  <2>1. PICK stream, start : Carried(stream, start)
    BY DEF StreamInv, NothingIsLost
  <2> DEFINE from == start[r]
             next == start[r + 1]
  <2>2. Laid(stream, start)'
    BY <1>2, <2>1, StaysLaid DEF Carried
  <2>3. from \in Nat /\ next = from + t /\ r - 1 + 1 = r
    <3>1. r \in 1 .. Len(accepted) + 1 /\ r - 1 + 1 = r
      BY <1>5
    <3>2. start[r] \in Nat /\ start[r + 1] = start[r] + Total(accepted[r])
      BY <1>6, <2>1, <3>1 DEF Carried, Laid
    <3>3. QED
      BY <1>6, <3>1, <3>2
  <2>4. /\ Len(stream) = from + u + w + v
        /\ \A k \in 1 .. u : buffer.bytes[buffer.pos + k] = stream[from + k]
        /\ \A k \in 1 .. w : wire[k] = stream[from + u + k]
        /\ \A k \in 1 .. v : writer[k] = stream[from + u + w + k]
    <3>1. Held(stream, from)
      BY <1>5, <2>1, <2>3 DEF Carried
    <3>2. QED
      BY <3>1 DEF Held, u, w, v
  <2> HIDE DEF from, next
  <2>5. next + (u - t) = from + u
    BY <1>4, <1>5, <2>3
  <2>6. \A k \in 1 .. u - t : buffer.bytes[pos + k] = stream[next + k]
    <3> TAKE k \in 1 .. u - t
    <3>1. buffer.pos \in Nat
      BY <1>4
    <3>2. t + k \in 1 .. u /\ buffer.pos + (t + k) = pos + k /\ from + (t + k) = next + k
      <4>1. t + k \in 1 .. u
        <5>1. t \in Nat /\ u \in Nat
          BY <1>4, <1>5
        <5>2. QED
          BY <5>1
      <4>2. pos = buffer.pos + t
        BY <1>7
      <4>3. QED
        BY <1>4, <1>5, <2>3, <3>1, <4>1, <4>2
    <3>3. QED
      BY <2>4, <3>2
  <2>7. Held(stream, next)'
    <3>1. Held(stream, next)' <=>
              /\ Len(stream) = next' + Unread' + Len(wire) + Len(writer)
              /\ \A k \in 1 .. Unread' : buffer'.bytes[buffer'.pos + k] = stream[next' + k]
              /\ \A k \in 1 .. Len(wire) : wire[k] = stream[next' + Unread' + k]
              /\ \A k \in 1 .. Len(writer) :
                     writer[k] = stream[next' + Unread' + Len(wire) + k]
      BY <1>2 DEF Held
    <3>2. next' = next
      BY <1>2 DEF next, r
    <3>3. QED
      BY <1>8, <1>9, <2>4, <2>5, <2>6, <3>1, <3>2 DEF w, v
  <2>8. next' = start[Done' + 1]
    BY <1>2, <1>9 DEF next, r
  <2>9. QED
    BY <2>2, <2>7, <2>8 DEF Carried, NothingIsLost
<1>14. QED
  BY <1>10, <1>11, <1>12, <1>13 DEF StreamInv

-----------------------------------------------------------------------------
(* The theorems. *)

LEMMA NextInv == StreamInv /\ [Next]_vars => StreamInv'
<1> SUFFICES ASSUME StreamInv, [Next]_vars PROVE StreamInv'
  OBVIOUS
<1>1. ASSUME NEW n \in DataLens, SendTcp(n) PROVE StreamInv'
  BY <1>1, SendInv
<1>2. CASE Sender
  BY <1>2, WriteInv, FlushInv DEF Sender
<1>3. CASE Receiver
  BY <1>3, FillInv, FullInv DEF Receiver
<1>4. CASE Main
  BY <1>4, StartReadingInv, ParseInv, ConsumeInv DEF Main
<1>5. CASE UNCHANGED vars
  <2>1. UNCHANGED <<length, sends, accepted, writer, wire, buffer, up, due, main, span, received>>
    BY <1>5 DEF vars
  <2>2. StreamTyped' /\ SizesFit' /\ SpanIsUnread' /\ PacketsArriveWhole'
    BY <2>1 DEF StreamInv, StreamTyped, SizesFit, SpanIsUnread, PacketsArriveWhole,
                Unread, Serialized
  <2>3. NothingIsLost'
    <3>1. PICK stream, start : Carried(stream, start)
      BY DEF StreamInv, NothingIsLost
    <3>2. Laid(stream, start)'
      BY <2>1, <3>1, StaysLaid DEF Carried
    <3>3. Held(stream, start[Done + 1])'
      BY <2>1, <3>1 DEF Carried, Held, Unread, Done
    <3>4. QED
      BY <3>2, <3>3 DEF Carried, NothingIsLost
  <2>4. QED
    BY <2>2, <2>3 DEF StreamInv
<1>6. QED
  BY <1>1, <1>2, <1>3, <1>4, <1>5 DEF Next

\* All that the writer ever took is handed out, unread, on the wire or still in
\* the writer, in this order and without a byte lost, repeated or moved.
THEOREM StreamInvariant == Spec => []StreamInv
<1>1. QED
  BY InitInv, NextInv, PTL DEF Spec

\* Type correctness.
THEOREM StreamIsTyped == Spec => []TypeOK
<1>1. StreamInv => TypeOK
  <2> SUFFICES ASSUME StreamInv PROVE TypeOK
    OBVIOUS
  <2>1. StreamTyped
    BY DEF StreamInv
  <2>2. /\ buffer.bytes \in [1 .. Capacity -> Bytes] /\ buffer.pos \in 0 .. Capacity
        /\ buffer.filled \in 0 .. Capacity /\ buffer.pos <= buffer.filled
        /\ span.pos \in 0 .. Capacity /\ span.filled \in 0 .. Capacity /\ span.pos <= span.filled
    BY <2>1 DEF StreamTyped
  <2>3. DOMAIN buffer.bytes = 1 .. Capacity /\ buffer.pos \in 0 .. buffer.filled
    BY <2>2
  <2>4. span.pos \in 0 .. span.filled
    BY <2>2
  <2>5. QED
    BY <2>1, <2>2, <2>3, <2>4 DEF TypeOK, StreamTyped
<1>2. QED
  BY <1>1, StreamInvariant, PTL

\* on_packet gets the packets the writer took, whole, in order and each once,
\* for any sizes of header, buffers and kernel and wherever the bytes are cut.
THEOREM PacketsAlwaysArriveWhole == Spec => []PacketsArriveWhole
<1>1. StreamInv => PacketsArriveWhole
  BY DEF StreamInv
<1>2. QED
  BY <1>1, StreamInvariant, PTL
=============================================================================
