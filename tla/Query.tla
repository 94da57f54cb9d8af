-------------------------------- MODULE Query --------------------------------
(***************************************************************************)
(* How a Query walks over entities: map calls a function on each slot of   *)
(* the pools it holds, cross on each slot of one query with each slot of   *)
(* another, selfCross on the pairs of its own slots.  In parallel, each    *)
(* pool of the query has a thread of its own, and the walk is over when    *)
(* all threads were joined.                                                *)
(*                                                                         *)
(* Slots of any status count: these walks do not look at the status.       *)
(* A query holds each pool once, as the scheduler's QueriesMatchPools says *)
(* it does, and a self-cross takes pools whose chunks all have one size:   *)
(* _selfCrossOperate reads past the end of a smaller one.                  *)
(***************************************************************************)
EXTENDS Naturals, Sequences, FiniteSets, SequencesExt, Functions

CONSTANTS
    Walked,        \* entity pools
    Chunks,        \* the sizes of the chunks of each
    Walks          \* calls of a query: its kind, and the pools of the queries

ASSUME QueryAssumption ==
    /\ Chunks \in [Walked -> Seq(Nat)]
    /\ Walks \subseteq [kind : {"map", "cross", "selfCross"},
                        first : Seq(Walked), second : Seq(Walked)]
    /\ \A w \in Walks :
        /\ IsInjective(w.first) /\ IsInjective(w.second)
        /\ w.kind = "selfCross" =>
               /\ w.second = w.first
               /\ \A p, q \in Range(w.first) : \A k \in DOMAIN Chunks[p], l \in DOMAIN Chunks[q] :
                      Chunks[p][k] = Chunks[q][l]

VARIABLES
    walk,          \* the call under way
    parallel,      \* its isParallel
    calls,         \* for each pool of the query, the calls to make in order
    made,          \* how many of them have begun
    busy           \* pools with a call that has not returned

walkVars == <<walk, parallel, calls, made, busy>>

-----------------------------------------------------------------------------
Slot(p, k, i) == [pool |-> p, chunk |-> k, index |-> i]

SlotsOf(pools) ==
    UNION {UNION {{Slot(p, k, i) : i \in 1 .. Chunks[p][k]} : k \in DOMAIN Chunks[p]}
           : p \in Range(pools)}

\* _crossOperate on two chunks.
CrossChunks(p, k, q, l) ==
    FlattenSeq([i \in 1 .. Chunks[p][k] |->
        [j \in 1 .. Chunks[q][l] |-> <<Slot(p, k, i), Slot(q, l, j)>>]])

\* Mutants of SelfCrossChunks: the loop its comment describes, and an outer
\* loop that goes one too far.
StrictlyBelow(p, k, q, l) ==
    FlattenSeq([i \in 1 .. Chunks[p][k] |->
        [j \in 1 .. i - 1 |-> <<Slot(p, k, i), Slot(q, l, j)>>]])

OneTooFar(p, k, q, l) ==
    FlattenSeq([i \in 1 .. Chunks[p][k] + 1 |->
        SelectSeq([j \in 1 .. i |-> <<Slot(p, k, i), Slot(q, l, j)>>],
                  LAMBDA c : c[1] # c[2])])

\* _selfCrossOperate: both indices below the first chunk's size, the second
\* not above the first; one is left out with itself in the same vectors only.
SelfCrossChunks(p, k, q, l) ==
    FlattenSeq([i \in 1 .. Chunks[p][k] |->
        FlattenSeq([j \in 1 .. i |->
            IF Slot(p, k, i) = Slot(q, l, j) THEN <<>>
            ELSE <<<<Slot(p, k, i), Slot(q, l, j)>>>>])])

\* cross and selfCross on one pool of the first query.
CrossCalls(w, p) ==
    FlattenSeq([n \in DOMAIN w.second |->
        LET q == w.second[n] IN
        FlattenSeq([k \in DOMAIN Chunks[p] |->
            FlattenSeq([l \in DOMAIN Chunks[q] |->
                IF w.kind = "selfCross" THEN SelfCrossChunks(p, k, q, l)
                ELSE CrossChunks(p, k, q, l)])])])

\* map on one pool.
MapCalls(p) ==
    FlattenSeq([k \in DOMAIN Chunks[p] |->
        [i \in 1 .. Chunks[p][k] |-> <<Slot(p, k, i)>>]])

CallsOf(w, p) ==
    IF w.kind = "map" THEN MapCalls(p) ELSE CrossCalls(w, p)

PoolOf(w, n) == w.first[n]

WalkInit ==
    /\ walk \in Walks
    /\ parallel \in BOOLEAN
    /\ calls = [n \in DOMAIN walk.first |-> CallsOf(walk, PoolOf(walk, n))]
    /\ made = [n \in DOMAIN walk.first |-> 0]
    /\ busy = {}

-----------------------------------------------------------------------------
Joined(n) == made[n] = Len(calls[n]) /\ n \notin busy

\* Threads go side by side; without them, a pool waits for those before it.
Begin(n) ==
    /\ n \notin busy
    /\ made[n] < Len(calls[n])
    /\ parallel \/ \A m \in 1 .. n - 1 : Joined(m)
    /\ made' = [made EXCEPT ![n] = @ + 1]
    /\ busy' = busy \cup {n}
    /\ UNCHANGED <<walk, parallel, calls>>

End(n) ==
    /\ n \in busy
    /\ busy' = busy \ {n}
    /\ UNCHANGED <<walk, parallel, calls, made>>

WalkNext == \E n \in DOMAIN calls : Begin(n) \/ End(n)

WalkSpec == WalkInit /\ [][WalkNext]_walkVars

-----------------------------------------------------------------------------
Over == \A n \in DOMAIN calls : Joined(n)

CallsMade == UNION {Range(calls[n]) : n \in DOMAIN calls}

\* When a walk is over, map was called once for each slot, cross once for
\* each pair of a slot of one query and one of the other, and selfCross for
\* each two slots in some order, and for no slot with itself, whatever chunks
\* and pools they are in.  No call is on a slot there is not.
NobodyIsMissed ==
    Over =>
        LET all == SlotsOf(walk.first)
            others == SlotsOf(walk.second)
            once == Cardinality(CallsMade) = Len(FlattenSeq(calls))
        IN CASE walk.kind = "map" -> once /\ CallsMade = {<<s>> : s \in all}
             [] walk.kind = "cross" -> once /\ CallsMade = all \X others
             [] walk.kind = "selfCross" ->
                    /\ \A s, u \in all : s # u => {<<s, u>>, <<u, s>>} \cap CallsMade # {}
                    /\ \A s \in all : <<s, s>> \notin CallsMade
                    /\ CallsMade \subseteq all \X all

\* selfCross does not check the same pair twice.
NoPairTwice ==
    walk.kind = "selfCross" /\ Over =>
        \A s, u \in SlotsOf(walk.first) : s # u => {<<s, u>>, <<u, s>>} \cap CallsMade # {<<s, u>>, <<u, s>>}
=============================================================================
