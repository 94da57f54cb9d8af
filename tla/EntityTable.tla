----------------------------- MODULE EntityTable -----------------------------
(***************************************************************************)
(* What the entity manager promises to its callers, without chunks, free   *)
(* lists or component columns: a table of the handles handed out and not   *)
(* yet destroyed, each naming one entity of one pool.  Creating never      *)
(* reuses a name that is in use, destroying forgets the handles it is      *)
(* given and disturbs no other.                                            *)
(***************************************************************************)
EXTENDS Integers

CONSTANT Pools      \* the archetype pools an entity can belong to

VARIABLE table      \* handle -> <<pool, position of the entity in it>>

Empty == [h \in {} |-> <<>>]

IsInjectiveTable(t) == \A g, h \in DOMAIN t : t[g] = t[h] => g = h

Kept(t, u) == \A h \in DOMAIN t \cap DOMAIN u : t[h] = u[h]

Init == table = Empty

\* New handles, all for entities of one pool that no handle names yet.
Add(pool) ==
    /\ DOMAIN table \subseteq DOMAIN table'
    /\ Kept(table, table')
    /\ \A h \in DOMAIN table' \ DOMAIN table : table'[h][1] = pool
    /\ IsInjectiveTable(table')

\* Some handles of one pool disappear, the others keep their entity.
Remove(pool) ==
    /\ DOMAIN table' \subseteq DOMAIN table
    /\ Kept(table, table')
    /\ \A h \in DOMAIN table \ DOMAIN table' : table[h][1] = pool

Clear == table' = Empty

Next == Clear \/ \E pool \in Pools : Add(pool) \/ Remove(pool)

Spec == Init /\ [][Next]_table
=============================================================================
