---------------------------- MODULE EntitySystems ----------------------------
(***************************************************************************)
(* The entity manager of EntityStore with the systems that run over its    *)
(* pools.                                                                  *)
(*                                                                         *)
(* A mono system maps its function over the component columns of the pools *)
(* it has subscribed to: pool by pool, chunk by chunk and slot by slot,    *)
(* whether or not an entity is in the slot.  A status mono system looks at *)
(* the EntityStatus column first and passes the other slots over.  With    *)
(* isParallel each pool has a thread of its own; no two share a column, so *)
(* that the result is the same.                                            *)
(*                                                                         *)
(* Scheduler shows that a query holds each registered pool that has its    *)
(* components once, so a system here runs over exactly these.              *)
(***************************************************************************)
EXTENDS EntityStore

CONSTANTS
    Systems,       \* the systems of the program
    Watched,       \* the status each of them asks for, AnyStatus if none
    Query,         \* the pools that have the components of each
    Operate        \* what _innerOperate of each makes of the components of a
                   \* slot, a function for each time the step can have

AnyStatus == -1                        \* a plain AMonoSystem

ASSUME SystemsAssumption ==
    /\ Watched \in [Systems -> Statuses \cup {AnyStatus}]
    /\ Query \in [Systems -> SUBSET PoolIds]
    /\ Operate \in [Systems -> SUBSET [Data -> Data]]

-----------------------------------------------------------------------------
\* AStatusMonoSystem::_innerOperate
Accepts(s, id, p) == Watched[s] \in {AnyStatus, status[id][p]}

\* AMonoSystem::run, through map, cMap and pMap of its query.
RunSystem(s) ==
    /\ \E f \in Operate[s] :
           data' = [id \in PoolIds |->
               IF id < registered /\ id \in Query[s]
               THEN [p \in Allocated(id) |->
                        IF Accepts(s, id, p) THEN f[data[id][p]] ELSE data[id][p]]
               ELSE data[id]]
    /\ UNCHANGED <<registered, chunks, free, status, link, poolId>>

SystemsNext == Next \/ \E s \in Systems : RunSystem(s)

SystemsSpec == Init /\ [][SystemsNext]_vars

-----------------------------------------------------------------------------
\* The systems that run on the free slots of pool id as on the others: the
\* plain ones, and those that ask for the status of a reset slot.
VisitFreeSlots(id) ==
    {s \in Systems : id \in Query[s] /\ Watched[s] \in {AnyStatus, ENT_NONE}}

Closed(id, values) ==
    \A s \in VisitFreeSlots(id) : \A f \in Operate[s] : \A v \in values : f[v] \in values

\* What these systems can make of the components of a reset slot.
FromReset(id) ==
    {v \in Data : \A values \in SUBSET Data : 0 \in values /\ Closed(id, values) => v \in values}

\* Creation stores no component but the status and the link: an entity starts
\* with what is in its slot.  That is never anything of the slot's last entity,
\* nor of the systems that ask for a status only entities have, but a reset
\* value or what the systems that visit free slots made of one in the time the
\* slot was free (_createEntities, resetComponentAtIndexes, AMonoSystem::run).
EntitiesStartAnew ==
    [][\A id \in PoolIds : \A p \in Live(id)' \ Live(id) : data'[id][p] \in FromReset(id)]_vars
=============================================================================
