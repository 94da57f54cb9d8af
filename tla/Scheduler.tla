------------------------------ MODULE Scheduler ------------------------------
(***************************************************************************)
(* The part of the entity manager that registers systems and runs them.    *)
(*                                                                         *)
(* A system tree is a tree of named groups, each with systems that run     *)
(* before its children and systems that run after them; here it is the     *)
(* sequence of its nodes in the order a depth first search meets them.     *)
(* The manager has two, "main" for every frame and "fixed" for every       *)
(* _fixedUpdateTime of accumulated time.  Registering a system or a        *)
(* branch subscribes its queries to the pools there are, and registering a *)
(* pool offers it to the systems of both trees.  Everything runs on one    *)
(* thread, between two calls of addTime or inside one.                     *)
(***************************************************************************)
EXTENDS Integers, Sequences, FiniteSets, Functions, SequencesExt

CONSTANTS
    Groups,        \* names for the groups the program registers
    Systems,       \* systems registered one by one
    Branches,      \* SystemTreeNodes the program builds and registers
    Queries,       \* queries the program maps over by itself
    Pools,         \* entity pools
    Matches,       \* the pools that have the components of each query
    Hooked,        \* groups of the branches with a startCallback
    Steps,         \* values of _fixedUpdateTime, 0 for none
    FrameTimes,    \* what addTime may be called with
    MaxTime,       \* bound: time passed
    MayRetry       \* whether one system is ever registered twice

Trees == {"main", "fixed"}
Root(t) == IF t = "main" THEN "ROOT" ELSE "FIXED_ROOT"

Node(group, depth, starts, ends) ==
    [group |-> group, depth |-> depth, starts |-> starts, ends |-> ends]

SystemsAt(node) == Range(node.starts) \cup Range(node.ends)

SystemsIn(nodes) == UNION {SystemsAt(nodes[i]) : i \in DOMAIN nodes}

AllSystems == Systems \cup UNION {SystemsIn(b) : b \in Branches}
Subscribers == AllSystems \cup Queries

Roots == {"ROOT", "FIXED_ROOT"}
GroupsIn(nodes) == {nodes[i].group : i \in DOMAIN nodes}

Nodes == [group : Groups \cup Roots \cup UNION {GroupsIn(b) : b \in Branches},
          depth : Nat, starts : Seq(AllSystems), ends : Seq(AllSystems)]

\* The nodes of a tree as a depth first search meets them.
IsTree(nodes) ==
    /\ nodes \in Seq(Nodes)
    /\ nodes # <<>>
    /\ nodes[1].depth = 0
    /\ \A i \in 2 .. Len(nodes) : nodes[i].depth \in 1 .. nodes[i - 1].depth + 1

ASSUME SchedulerAssumption ==
    /\ \A b \in Branches : IsTree(b)
    /\ Matches \in [Subscribers -> SUBSET Pools]
    /\ Steps \subseteq Nat
    /\ FrameTimes \subseteq Nat \ {0}
    /\ MaxTime \in Nat
    /\ MayRetry \in BOOLEAN

\* What a program does that registers nothing twice: the groups and the
\* systems of its branches, its systems and its queries all differ.  The code
\* asks for none of this and does what it is told.
NothingTwice ==
    /\ ~MayRetry
    /\ \A b \in Branches : \A i \in DOMAIN b :
        /\ IsInjective(b[i].starts) /\ IsInjective(b[i].ends)
        /\ Range(b[i].starts) \cap Range(b[i].ends) = {}
        /\ b[i].group \notin Groups \cup Roots
        /\ SystemsAt(b[i]) \cap Systems = {}
        /\ \A c \in Branches : \A k \in DOMAIN c :
            b # c \/ i # k =>
                b[i].group # c[k].group /\ SystemsAt(b[i]) \cap SystemsAt(c[k]) = {}
    /\ Queries \cap AllSystems = {}

VARIABLES
    tree,          \* _systemTree and _fixedSystemTree
    pools,         \* _entityPools
    query,         \* _componentPoolsArrays of each subscriber
    offered,       \* systems, branches and queries handed to the manager
    joined,        \* for each system in a tree: which, and when it came
    asked,         \* what the program asked about the order of groups
    step,          \* _fixedUpdateTime
    passed,        \* _timePassed
    since,         \* _timeSinceLastFixedUpdate
    catchingUp,    \* addTime is in its loop of fixed updates
    elapsed        \* the delta times each system was run with

vars == <<tree, pools, query, offered, joined, asked, step, passed, since, catchingUp, elapsed>>
timeVars == <<step, passed, since, catchingUp, elapsed>>

-----------------------------------------------------------------------------
(* Trees. *)

LastBelow(nodes, i) ==
    CHOOSE j \in i .. Len(nodes) :
        /\ \A k \in i + 1 .. j : nodes[k].depth > nodes[i].depth
        /\ j < Len(nodes) => nodes[j + 1].depth <= nodes[i].depth

\* The node a group is inserted in, or next to: groups to insert next to are
\* looked for among the children of the root only.
IsTarget(nodes, i, group, inside) ==
    LET fits(k) == nodes[k].group = group /\ (inside \/ nodes[k].depth = 1)
    IN fits(i) /\ \A k \in 1 .. i - 1 : ~fits(k)

Targets(nodes, group, inside) == {i \in DOMAIN nodes : IsTarget(nodes, i, group, inside)}

\* Mutant of Place: before and after are swapped for neighbours.
PlaceSwapped(nodes, i, before, inside) ==
    CASE inside /\ before -> i + 1
      [] ~inside /\ ~before -> i
      [] OTHER -> LastBelow(nodes, i) + 1

Place(nodes, i, before, inside) ==
    CASE inside /\ before -> i + 1
      [] ~inside /\ before -> i
      [] OTHER -> LastBelow(nodes, i) + 1

\* addSystemGroup and addSystemTreeNode: a copy of the branch goes in.
Grafted(nodes, branch, i, before, inside) ==
    LET at == Place(nodes, i, before, inside)
        depth == IF inside THEN nodes[i].depth + 1 ELSE 1
    IN SubSeq(nodes, 1, at - 1)
       \o [k \in DOMAIN branch |-> [branch[k] EXCEPT !.depth = @ + depth]]
       \o SubSeq(nodes, at, Len(nodes))

\* addSystem: the first group of that name gets it.
WithSystem(nodes, i, s, atStart) ==
    IF atStart THEN [nodes EXCEPT ![i].starts = Append(@, s)]
    ELSE [nodes EXCEPT ![i].ends = Append(@, s)]

\* runNode from the root, for nodes whose shouldRun is as in closed: run[i]
\* is what node i and the siblings behind it run, each its first systems, its
\* children in turn and its last systems.
RunOrder(nodes, closed) ==
    LET next(i) == LastBelow(nodes, i) + 1
        run[i \in DOMAIN nodes] ==
            (IF nodes[i].group \in closed THEN <<>>
             ELSE nodes[i].starts
                  \o (IF LastBelow(nodes, i) > i THEN run[i + 1] ELSE <<>>)
                  \o nodes[i].ends)
            \o (IF next(i) \in DOMAIN nodes /\ nodes[next(i)].depth = nodes[i].depth
                THEN run[next(i)] ELSE <<>>)
    IN run[1]

-----------------------------------------------------------------------------
Init ==
    /\ tree = [t \in Trees |-> <<Node(Root(t), 0, <<>>, <<>>)>>]
    /\ pools = <<>>
    /\ query = [s \in Subscribers |-> <<>>]
    /\ offered = {}
    /\ joined = [s \in {} |-> 0]
    /\ asked = {}
    /\ step \in Steps
    /\ passed = 0
    /\ since = 0
    /\ catchingUp = FALSE
    /\ elapsed = [s \in AllSystems |-> 0]

Matching(s, seq) ==
    FlattenSeq([k \in DOMAIN seq |-> IF seq[k] \in Matches[s] THEN <<seq[k]>> ELSE <<>>])

\* tryAddEntityPool for every pool there is.
Subscribed(set) ==
    [s \in Subscribers |-> IF s \in set THEN query[s] \o Matching(s, pools) ELSE query[s]]

Joining(set, t) ==
    [s \in DOMAIN joined \cup set |->
        IF s \in set THEN [tree |-> t, passed |-> passed, since |-> since] ELSE joined[s]]

Idle == ~catchingUp

May(x) == Idle /\ (MayRetry \/ x \notin offered)

\* registerSystemGroup, registerFixedSystemGroup
RegisterSystemGroup(t, target, new, before, inside) ==
    /\ Idle
    /\ \A u \in Trees : \A i \in DOMAIN tree[u] : tree[u][i].group # new
    /\ \E i \in Targets(tree[t], target, inside) :
           tree' = [tree EXCEPT ![t] = Grafted(@, <<Node(new, 0, <<>>, <<>>)>>, i, before, inside)]
    /\ asked' = asked \cup {[tree |-> t, new |-> new, target |-> target,
                             before |-> before, inside |-> inside]}
    /\ UNCHANGED <<pools, query, offered, joined, timeVars>>

\* registerSystem, registerFixedSystem: the system subscribes even when no
\* group has that name.
RegisterSystem(t, s, group, atStart) ==
    /\ May(s)
    /\ offered' = offered \cup {s}
    /\ query' = Subscribed({s})
    /\ LET found == Targets(tree[t], group, TRUE) IN
       \/ /\ \E i \in found : tree' = [tree EXCEPT ![t] = WithSystem(@, i, s, atStart)]
          /\ joined' = Joining({s}, t)
       \/ found = {} /\ UNCHANGED <<tree, joined>>
    /\ UNCHANGED <<pools, asked, timeVars>>

\* registerSystemNode, registerFixedSystemNode
RegisterSystemNode(t, branch, target, before, inside) ==
    /\ May(branch[1].group)
    /\ offered' = offered \cup {branch[1].group}
    /\ query' = Subscribed(SystemsIn(branch))
    /\ LET found == Targets(tree[t], target, inside) IN
       \/ /\ \E i \in found :
                 tree' = [tree EXCEPT ![t] = Grafted(@, branch, i, before, inside)]
          /\ joined' = Joining(SystemsIn(branch), t)
          /\ asked' = asked \cup {[tree |-> t, new |-> branch[1].group, target |-> target,
                                   before |-> before, inside |-> inside]}
       \/ found = {} /\ UNCHANGED <<tree, joined, asked>>
    /\ UNCHANGED <<pools, timeVars>>

Times(s, systems) == Cardinality({k \in DOMAIN systems : systems[k] = s})

Everything == RunOrder(tree["main"], {}) \o RunOrder(tree["fixed"], {})

\* Mutant of RegisterEntityPool: the fixed tree is left out.
RegisterPoolInMain(p) ==
    /\ Idle
    /\ p \notin Range(pools)
    /\ pools' = Append(pools, p)
    /\ query' = [s \in Subscribers |->
           IF s \in SystemsIn(tree["main"]) THEN query[s] \o Matching(s, <<p>>) ELSE query[s]]
    /\ UNCHANGED <<tree, offered, joined, asked, timeVars>>

\* A pool is offered to a system once for each place it has in the trees.
RegisterEntityPool(p) ==
    /\ Idle
    /\ p \notin Range(pools)
    /\ pools' = Append(pools, p)
    /\ query' = [s \in Subscribers |->
           query[s] \o FlattenSeq([k \in 1 .. Times(s, Everything) |-> Matching(s, <<p>>)])]
    /\ UNCHANGED <<tree, offered, joined, asked, timeVars>>

\* initializeQuery, which Query::map and its like call first.
InitializeQuery(q) ==
    /\ May(q)
    /\ offered' = offered \cup {q}
    /\ query' = Subscribed({q})
    /\ UNCHANGED <<tree, pools, joined, asked, timeVars>>

\* What a run of these systems with a delta time adds to each.
Ran(systems, delta) ==
    [s \in AllSystems |-> elapsed[s] + delta * Times(s, systems)]

\* addTime without a fixed step.
AddTimeUnfixed(dt, closed) ==
    /\ Idle
    /\ step = 0
    /\ passed + dt <= MaxTime
    /\ passed' = passed + dt
    /\ elapsed' = Ran(RunOrder(tree["main"], closed) \o RunOrder(tree["fixed"], closed), dt)
    /\ UNCHANGED <<tree, pools, query, offered, joined, asked, step, since, catchingUp>>

\* addTime up to its loop ...
AddTime(dt, closed) ==
    /\ Idle
    /\ step > 0
    /\ passed + dt <= MaxTime
    /\ passed' = passed + dt
    /\ since' = since + dt
    /\ elapsed' = Ran(RunOrder(tree["main"], closed), dt)
    /\ catchingUp' = (since + dt >= step)
    /\ UNCHANGED <<tree, pools, query, offered, joined, asked, step>>

\* Mutant of FixedUpdate: what is left of the time is dropped.
FixedUpdateForgets(closed) ==
    /\ catchingUp
    /\ elapsed' = Ran(RunOrder(tree["fixed"], closed), step)
    /\ since' = 0
    /\ catchingUp' = FALSE
    /\ UNCHANGED <<tree, pools, query, offered, joined, asked, step, passed>>

\* Mutant of FixedUpdate: a step that is just due is not run.
FixedUpdateLate(closed) ==
    /\ catchingUp
    /\ elapsed' = Ran(RunOrder(tree["fixed"], closed), step)
    /\ since' = since - step
    /\ catchingUp' = (since - step > step)
    /\ UNCHANGED <<tree, pools, query, offered, joined, asked, step, passed>>

\* ... and one round of the loop.
FixedUpdate(closed) ==
    /\ catchingUp
    /\ elapsed' = Ran(RunOrder(tree["fixed"], closed), step)
    /\ since' = since - step
    /\ catchingUp' = (since - step >= step)
    /\ UNCHANGED <<tree, pools, query, offered, joined, asked, step, passed>>

Names == Groups \cup Roots \cup {b[1].group : b \in Branches}

Next ==
    \/ \E t \in Trees, target \in Names, before, inside \in BOOLEAN :
           \/ \E new \in Groups : RegisterSystemGroup(t, target, new, before, inside)
           \/ \E b \in Branches : RegisterSystemNode(t, b, target, before, inside)
    \/ \E t \in Trees, s \in Systems, group \in Names, atStart \in BOOLEAN :
           RegisterSystem(t, s, group, atStart)
    \/ \E p \in Pools : RegisterEntityPool(p)
    \/ \E q \in Queries : InitializeQuery(q)
    \/ \E closed \in SUBSET Hooked :
           \/ \E dt \in FrameTimes : AddTime(dt, closed) \/ AddTimeUnfixed(dt, closed)
           \/ FixedUpdate(closed)

Spec == Init /\ [][Next]_vars

-----------------------------------------------------------------------------
TypeOK ==
    /\ DOMAIN tree = Trees /\ \A t \in Trees : IsTree(tree[t])
    /\ pools \in Seq(Pools)
    /\ query \in [Subscribers -> Seq(Pools)]
    /\ DOMAIN joined = SystemsIn(tree["main"]) \cup SystemsIn(tree["fixed"])
    /\ step \in Steps
    /\ passed \in 0 .. MaxTime
    /\ since \in 0 .. MaxTime
    /\ catchingUp = (step > 0 /\ since >= step)
    /\ elapsed \in [AllSystems -> 0 .. MaxTime]

\* Every system that runs holds each pool that has its components once, in the
\* order of their registration, whichever of the two was registered first; so
\* no entity is left out of a run or operated on twice.
QueriesMatchPools ==
    /\ \A s \in DOMAIN joined : query[s] = Matching(s, pools)
    /\ \A s \in Subscribers : IsPrefix(query[s], Matching(s, pools))

\* Groups keep running where the program asked for them, whatever was
\* registered around them since: in full before or after the group they were
\* put next to, or between the first and the last systems of the one they
\* were put into.
GroupsRunWhereAsked ==
    \A a \in asked :
        LET nodes == tree[a.tree]
            order == RunOrder(nodes, {})
            node(g) == CHOOSE i \in DOMAIN nodes : nodes[i].group = g
            below(g) == SystemsIn(SubSeq(nodes, node(g), LastBelow(nodes, node(g))))
            before(ss, us) == \A j, k \in DOMAIN order :
                                  order[j] \in ss /\ order[k] \in us => j < k
        IN CASE a.inside -> /\ before(Range(nodes[node(a.target)].starts), below(a.new))
                            /\ before(below(a.new), Range(nodes[node(a.target)].ends))
             [] ~a.inside /\ a.before -> before(below(a.new), below(a.target))
             [] OTHER -> before(below(a.target), below(a.new))

\* Between two calls of addTime, the time a system was run for is the time
\* that passed since it was registered: all of it for the systems of every
\* frame, all but the rest that waits for the next step for the fixed ones.
TimeAddsUp ==
    Idle =>
        \A s \in DOMAIN joined :
            LET j == joined[s]
                gated == \E i \in DOMAIN tree[j.tree] :
                             /\ tree[j.tree][i].group \in Hooked
                             /\ s \in SystemsIn(SubSeq(tree[j.tree], i,
                                                       LastBelow(tree[j.tree], i)))
                owed == IF j.tree = "main" THEN 0 ELSE since - j.since
            IN IF gated THEN elapsed[s] <= passed - j.passed - owed
               ELSE elapsed[s] = passed - j.passed - owed
=============================================================================
