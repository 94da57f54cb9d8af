--------------------------- MODULE MCEntitySystems ---------------------------
(* Two archetypes whose chunks differ in size from the pointer pool's, so    *)
(* that the pools grow at other moments.  A plain system visits the first,   *)
(* used slots and free ones, as IncrementTimerSystem does; one that asks for *)
(* live entities visits both.  2 is the value only an entity can have.       *)
EXTENDS EntitySystems

MCPoolName == [id \in PoolIds |-> IF id = 0 THEN "player" ELSE "bullet"]
MCChunkSize == [x \in Stores |-> IF x = Ptr THEN 2 ELSE 1]
MCWatched == [s \in Systems |-> IF s = "timers" THEN AnyStatus ELSE ENT_ALIVE]
MCQuery == [s \in Systems |-> IF s = "timers" THEN {0} ELSE PoolIds]
MCOperate == [s \in Systems |->
    IF s = "timers" THEN {[v \in Data |-> IF v = 0 THEN 1 ELSE v]} ELSE {[v \in Data |-> 2]}]
=============================================================================
