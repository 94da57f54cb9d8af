----------------------------- MODULE EntityStore -----------------------------
(***************************************************************************)
(* The entity manager of lib_ecs and the pools it hands entities out of.   *)
(*                                                                         *)
(* An archetype pool stores its entities in chunks of ChunkSize slots, one *)
(* column per component, and keeps the free slots in a list used first in  *)
(* first out.  The manager owns one more pool, of entity pointers: a slot  *)
(* of it is the handle a caller keeps.  A live entity and its handle point *)
(* at each other through their ChunkPos columns, and the handle also holds *)
(* the number of the entity's pool.  Everything runs on one thread.        *)
(***************************************************************************)
EXTENDS Integers, Sequences, Functions

CONSTANTS
    NumPools,      \* archetype pools of the program, registered as 0, 1, ...
    PoolName,      \* the archetype name of each pool, as a template argument
    ChunkSize,     \* slots per chunk, of each pool and of the pointer pool
    PoolIdRange,   \* values of entity_pool_id_t, a uint8_t: 256
    Statuses,      \* the values of EntityStatusEnum
    CreatedAs,     \* those callers create entities with
    Data,          \* values of the remaining components, 0 the initial one
    MaxChunks,     \* bound: chunks a pool may grow to
    MaxBatch       \* bound: entities created or destroyed by one call

PoolIds == 0 .. NumPools - 1
Ptr == -1                              \* the pool of entity pointers
Stores == PoolIds \cup {Ptr}

ENT_NONE == 0
ENT_ALIVE == 3
Pos == Nat \X Nat                      \* chunkPos_t: chunk index, slot index
NoPos == <<0, 0>>                      \* what a reset ChunkPos column holds

ASSUME PoolsAssumption ==
    /\ NumPools \in Nat \ {0}
    /\ PoolIdRange \in Nat \ {0}
    /\ NumPools <= PoolIdRange
    /\ ChunkSize \in [Stores -> Nat \ {0}]
    /\ DOMAIN PoolName = PoolIds

ASSUME ValuesAssumption ==
    /\ Statuses \subseteq Int
    /\ {ENT_NONE, ENT_ALIVE} \subseteq Statuses
    /\ CreatedAs \subseteq Statuses
    /\ 0 \in Data
    /\ MaxChunks \in Nat
    /\ MaxBatch \in Nat

VARIABLES
    registered,    \* how many pools _entityPools holds
    chunks,        \* chunkCount() of each pool
    free,          \* _freePos of each pool
    status,        \* EntityStatus column of each pool
    link,          \* ChunkPos column: the handle of an entity and back
    poolId,        \* EntityPoolId column of the pointer pool
    data           \* the other components of the archetype pools

vars == <<registered, chunks, free, status, link, poolId, data>>

-----------------------------------------------------------------------------
Slots(x, count) == (0 .. count - 1) \X (0 .. ChunkSize[x] - 1)

Allocated(x) == Slots(x, chunks[x])

Live(x) == Allocated(x) \ Range(free[x])

\* The positions m calls of addChunk append to _freePos, in their order.
NewPositions(x, m) ==
    [j \in 1 .. m * ChunkSize[x] |->
        <<chunks[x] + ((j - 1) \div ChunkSize[x]), (j - 1) % ChunkSize[x]>>]

Grown(x, m) == free[x] \o NewPositions(x, m)

\* m is the number of times `while (freePos.size() < k) addChunk()` loops.
Grows(x, k, m) ==
    /\ Len(free[x]) + m * ChunkSize[x] >= k
    /\ m = 0 \/ Len(free[x]) + (m - 1) * ChunkSize[x] < k
    /\ chunks[x] + m <= MaxChunks

\* A column after new chunks zeroed it over dom and vals was stored at slots.
Stored(column, dom, zero, slots, vals) ==
    [p \in dom |->
        IF p \in Range(slots) THEN vals[CHOOSE j \in DOMAIN slots : slots[j] = p]
        ELSE IF p \in DOMAIN column THEN column[p] ELSE zero]

\* resetComponentAtIndexes
Reset(column, zero, slots) ==
    [p \in DOMAIN column |-> IF p \in Range(slots) THEN zero ELSE column[p]]

Constantly(v, k) == [j \in 1 .. k |-> v]

\* _getEntityPool: the first registered pool of that name.
IsPoolOf(id, name) ==
    /\ id < registered
    /\ PoolName[id] = name
    /\ \A i \in 0 .. id - 1 : PoolName[i] # name

-----------------------------------------------------------------------------
Init ==
    /\ registered = 0
    /\ chunks = [x \in Stores |-> 0]
    /\ free = [x \in Stores |-> <<>>]
    /\ status = [x \in Stores |-> [p \in {} |-> ENT_NONE]]
    /\ link = [x \in Stores |-> [p \in {} |-> NoPos]]
    /\ poolId = [p \in {} |-> 0]
    /\ data = [id \in PoolIds |-> [p \in {} |-> 0]]

\* registerEntityPool appends the next pool of the program.
RegisterEntityPool ==
    /\ registered < NumPools
    /\ registered' = registered + 1
    /\ UNCHANGED <<chunks, free, status, link, poolId, data>>

\* Mutant of AddChunk: one column does not grow with the others.
AddChunkForgetsData(id) ==
    /\ chunks[id] < MaxChunks
    /\ LET dom == Slots(id, chunks[id] + 1) IN
       /\ chunks' = [chunks EXCEPT ![id] = @ + 1]
       /\ free' = [free EXCEPT ![id] = Grown(id, 1)]
       /\ status' = [status EXCEPT ![id] = Stored(@, dom, ENT_NONE, <<>>, <<>>)]
       /\ link' = [link EXCEPT ![id] = Stored(@, dom, NoPos, <<>>, <<>>)]
    /\ UNCHANGED <<registered, poolId, data>>

\* ArchetypePool::addChunk, which a program may call to reserve slots.
AddChunk(id) ==
    /\ chunks[id] < MaxChunks
    /\ LET dom == Slots(id, chunks[id] + 1) IN
       /\ chunks' = [chunks EXCEPT ![id] = @ + 1]
       /\ free' = [free EXCEPT ![id] = Grown(id, 1)]
       /\ status' = [status EXCEPT ![id] = Stored(@, dom, ENT_NONE, <<>>, <<>>)]
       /\ link' = [link EXCEPT ![id] = Stored(@, dom, NoPos, <<>>, <<>>)]
       /\ data' = [data EXCEPT ![id] = Stored(@, dom, 0, <<>>, <<>>)]
    /\ UNCHANGED <<registered, poolId>>

\* Mutant of Create: the handles are stored in the entities back to front.
CreateLinksBackwards(id, k, st, m, n) ==
    /\ Grows(id, k, m)
    /\ Grows(Ptr, k, n)
    /\ LET ents == SubSeq(Grown(id, m), 1, k)
           ptrs == SubSeq(Grown(Ptr, n), 1, k)
           entDom == Slots(id, chunks[id] + m)
           ptrDom == Slots(Ptr, chunks[Ptr] + n)
       IN /\ chunks' = [chunks EXCEPT ![id] = @ + m, ![Ptr] = @ + n]
          /\ free' = [free EXCEPT
                ![id] = SubSeq(Grown(id, m), k + 1, Len(Grown(id, m))),
                ![Ptr] = SubSeq(Grown(Ptr, n), k + 1, Len(Grown(Ptr, n)))]
          /\ status' = [status EXCEPT
                ![id] = Stored(@, entDom, ENT_NONE, ents, Constantly(st, k)),
                ![Ptr] = Stored(@, ptrDom, ENT_NONE, ptrs, Constantly(ENT_ALIVE, k))]
          /\ link' = [link EXCEPT
                ![id] = Stored(@, entDom, NoPos, ents, [j \in 1 .. k |-> ptrs[k + 1 - j]]),
                ![Ptr] = Stored(@, ptrDom, NoPos, ptrs, ents)]
          /\ poolId' = Stored(poolId, ptrDom, 0, ptrs, Constantly(id % PoolIdRange, k))
          /\ data' = [data EXCEPT ![id] = Stored(@, entDom, 0, <<>>, <<>>)]
    /\ UNCHANGED registered

\* Both pools grow until k slots are free, the first k of each are linked
\* pairwise and leave the free lists.
Create(id, k, st, m, n) ==
    /\ Grows(id, k, m)
    /\ Grows(Ptr, k, n)
    /\ LET ents == SubSeq(Grown(id, m), 1, k)
           ptrs == SubSeq(Grown(Ptr, n), 1, k)
           entDom == Slots(id, chunks[id] + m)
           ptrDom == Slots(Ptr, chunks[Ptr] + n)
       IN /\ chunks' = [chunks EXCEPT ![id] = @ + m, ![Ptr] = @ + n]
          /\ free' = [free EXCEPT
                ![id] = SubSeq(Grown(id, m), k + 1, Len(Grown(id, m))),
                ![Ptr] = SubSeq(Grown(Ptr, n), k + 1, Len(Grown(Ptr, n)))]
          /\ status' = [status EXCEPT
                ![id] = Stored(@, entDom, ENT_NONE, ents, Constantly(st, k)),
                ![Ptr] = Stored(@, ptrDom, ENT_NONE, ptrs, Constantly(ENT_ALIVE, k))]
          /\ link' = [link EXCEPT
                ![id] = Stored(@, entDom, NoPos, ents, ptrs),
                ![Ptr] = Stored(@, ptrDom, NoPos, ptrs, ents)]
          /\ poolId' = Stored(poolId, ptrDom, 0, ptrs, Constantly(id % PoolIdRange, k))
          /\ data' = [data EXCEPT ![id] = Stored(@, entDom, 0, <<>>, <<>>)]
    /\ UNCHANGED registered

CreateEntity(name, st) ==
    \E id \in PoolIds, m, n \in 0 .. 1 :
        IsPoolOf(id, name) /\ Create(id, 1, st, m, n)

CreateEntities(name, k, st) ==
    \E id \in PoolIds, m, n \in 0 .. k :
        IsPoolOf(id, name) /\ Create(id, k, st, m, n)

\* Mutants of Destroy: the positions go back to the wrong lists, the handle
\* is not given back, the entity keeps its components, or all it has.
DestroySwapsLists(id, handles) ==
    LET ents == [j \in 1 .. Len(handles) |-> link[Ptr][handles[j]]] IN
    /\ free' = [free EXCEPT ![Ptr] = @ \o ents, ![id] = @ \o handles]
    /\ status' = [status EXCEPT ![Ptr] = Reset(@, ENT_NONE, handles),
                                ![id] = Reset(@, ENT_NONE, ents)]
    /\ link' = [link EXCEPT ![Ptr] = Reset(@, NoPos, handles),
                            ![id] = Reset(@, NoPos, ents)]
    /\ poolId' = Reset(poolId, 0, handles)
    /\ data' = [data EXCEPT ![id] = Reset(@, 0, ents)]
    /\ UNCHANGED <<registered, chunks>>

DestroyKeepsHandle(id, handles) ==
    LET ents == [j \in 1 .. Len(handles) |-> link[Ptr][handles[j]]] IN
    /\ free' = [free EXCEPT ![id] = @ \o ents]
    /\ status' = [status EXCEPT ![Ptr] = Reset(@, ENT_NONE, handles),
                                ![id] = Reset(@, ENT_NONE, ents)]
    /\ link' = [link EXCEPT ![Ptr] = Reset(@, NoPos, handles),
                            ![id] = Reset(@, NoPos, ents)]
    /\ poolId' = Reset(poolId, 0, handles)
    /\ data' = [data EXCEPT ![id] = Reset(@, 0, ents)]
    /\ UNCHANGED <<registered, chunks>>

DestroyKeepsData(id, handles) ==
    LET ents == [j \in 1 .. Len(handles) |-> link[Ptr][handles[j]]] IN
    /\ free' = [free EXCEPT ![Ptr] = @ \o handles, ![id] = @ \o ents]
    /\ status' = [status EXCEPT ![Ptr] = Reset(@, ENT_NONE, handles),
                                ![id] = Reset(@, ENT_NONE, ents)]
    /\ link' = [link EXCEPT ![Ptr] = Reset(@, NoPos, handles),
                            ![id] = Reset(@, NoPos, ents)]
    /\ poolId' = Reset(poolId, 0, handles)
    /\ UNCHANGED <<registered, chunks, data>>

DestroyKeepsEntity(id, handles) ==
    LET ents == [j \in 1 .. Len(handles) |-> link[Ptr][handles[j]]] IN
    /\ free' = [free EXCEPT ![Ptr] = @ \o handles, ![id] = @ \o ents]
    /\ status' = [status EXCEPT ![Ptr] = Reset(@, ENT_NONE, handles)]
    /\ link' = [link EXCEPT ![Ptr] = Reset(@, NoPos, handles)]
    /\ poolId' = Reset(poolId, 0, handles)
    /\ UNCHANGED <<registered, chunks, data>>

\* The handles go back to the pointer pool's free list, the entities they
\* point at to the list of pool id, and both are zeroed.
Destroy(id, handles) ==
    LET ents == [j \in 1 .. Len(handles) |-> link[Ptr][handles[j]]] IN
    /\ free' = [free EXCEPT ![Ptr] = @ \o handles, ![id] = @ \o ents]
    /\ status' = [status EXCEPT ![Ptr] = Reset(@, ENT_NONE, handles),
                                ![id] = Reset(@, ENT_NONE, ents)]
    /\ link' = [link EXCEPT ![Ptr] = Reset(@, NoPos, handles),
                            ![id] = Reset(@, NoPos, ents)]
    /\ poolId' = Reset(poolId, 0, handles)
    /\ data' = [data EXCEPT ![id] = Reset(@, 0, ents)]
    /\ UNCHANGED <<registered, chunks>>

\* destroyEntity takes the pool from the handle.
DestroyEntity(h) ==
    /\ h \in Live(Ptr)
    /\ Destroy(poolId[h], <<h>>)

\* What a caller may pass to destroyEntities: different handles of entities
\* of the archetype it names, in any order.
IsBatchOf(id, handles) ==
    /\ Range(handles) \subseteq {h \in Live(Ptr) : poolId[h] = id}
    /\ IsInjective(handles)

DestroyEntities(handles, name) ==
    \E id \in PoolIds :
        /\ IsPoolOf(id, name)
        /\ IsBatchOf(id, handles)
        /\ Destroy(id, handles)

\* ArchetypePool::deleteEverything, of the pointer pool and of the registered
\* ones: their chunks and their free lists go.
Emptied(f, zero) == [x \in DOMAIN f |-> IF x < registered THEN zero ELSE f[x]]

DeleteEverything ==
    /\ chunks' = Emptied(chunks, 0)
    /\ free' = Emptied(free, <<>>)
    /\ status' = Emptied(status, [p \in {} |-> ENT_NONE])
    /\ link' = Emptied(link, [p \in {} |-> NoPos])
    /\ poolId' = [p \in {} |-> 0]
    /\ data' = Emptied(data, [p \in {} |-> 0])
    /\ UNCHANGED registered

\* A caller writes a component through the reference of a live entity.
SetData(id, p, v) ==
    /\ p \in Live(id)
    /\ data' = [data EXCEPT ![id][p] = v]
    /\ UNCHANGED <<registered, chunks, free, status, link, poolId>>

Batches == UNION {[1 .. k -> Live(Ptr)] : k \in 0 .. MaxBatch}

Next ==
    \/ RegisterEntityPool
    \/ \E id \in PoolIds : AddChunk(id)
    \/ \E name \in Range(PoolName), st \in CreatedAs : CreateEntity(name, st)
    \/ \E name \in Range(PoolName), k \in 0 .. MaxBatch, st \in CreatedAs :
           CreateEntities(name, k, st)
    \/ \E h \in Live(Ptr) : DestroyEntity(h)
    \/ \E name \in Range(PoolName), handles \in Batches : DestroyEntities(handles, name)
    \/ DeleteEverything
    \/ \E id \in PoolIds : \E p \in Live(id), v \in Data : SetData(id, p, v)

Spec == Init /\ [][Next]_vars

-----------------------------------------------------------------------------
\* Every column covers exactly the slots of the chunks, and holds values of
\* its type.
TypeOK ==
    /\ registered \in 0 .. NumPools
    /\ chunks \in [Stores -> 0 .. MaxChunks]
    /\ free \in [Stores -> Seq(Pos)]
    /\ DOMAIN status = Stores
    /\ DOMAIN link = Stores
    /\ DOMAIN data = PoolIds
    /\ \A x \in Stores : /\ status[x] \in [Allocated(x) -> Statuses]
                         /\ link[x] \in [Allocated(x) -> Pos]
    /\ \A id \in PoolIds : data[id] \in [Allocated(id) -> Data]
    /\ poolId \in [Allocated(Ptr) -> 0 .. PoolIdRange - 1]

\* No slot is on a free list twice and none is off the chunks: otherwise two
\* entities would be created in one slot (getFreePos, addChunk, the inserts
\* of _destroyEntities and the erases of _createEntities).
FreeListsSound ==
    \A x \in Stores :
        /\ Range(free[x]) \subseteq Allocated(x)
        /\ IsInjective(free[x])

\* A handle in use names a registered pool and a live entity of it that names
\* the handle back, and every live entity has such a handle: create links the
\* two pools' slots pairwise and destroy frees both sides.
HandlesAndEntitiesPaired ==
    /\ \A h \in Live(Ptr) :
        /\ poolId[h] \in 0 .. registered - 1
        /\ link[Ptr][h] \in Live(poolId[h])
        /\ link[poolId[h]][link[Ptr][h]] = h
    /\ \A id \in PoolIds : \A p \in Live(id) :
        /\ link[id][p] \in Live(Ptr)
        /\ poolId[link[id][p]] = id
        /\ link[Ptr][link[id][p]] = p

\* A slot on a free list looks free: the systems that ask for a status pass it
\* over, and it names no handle (the resets of _destroyEntities, the T{0} of
\* StandardChunk).
FreeSlotsAreFree ==
    \A id \in PoolIds : \A p \in Range(free[id]) :
        /\ status[id][p] = ENT_NONE
        /\ link[id][p] = NoPos

\* As far as the manager's own operations go, it also holds no component of
\* the entity it last held.  EntitySystems asks what the systems make of it.
FreeSlotsAreBlank ==
    /\ FreeSlotsAreFree
    /\ \A id \in PoolIds : \A p \in Range(free[id]) : data[id][p] = 0

\* The manager as its callers see it (EntityTable): the handles in use, with
\* the entity each stands for.
Handles == [h \in Live(Ptr) |-> <<poolId[h], link[Ptr][h]>>]

Abstract == INSTANCE EntityTable WITH Pools <- PoolIds, table <- Handles

\* Every operation of the manager adds fresh handles, or removes the ones it
\* was given, and moves no other handle to another entity.
ImplementsEntityTable == Abstract!Spec
=============================================================================
