------------------------------- MODULE MCQuery -------------------------------
(* Pools with one and two chunks, of one size and of two.                    *)
EXTENDS Query

CONSTANTS ship, shot, wall

MCPools == {ship, shot, wall}
MCChunks == [p \in MCPools |-> CASE p = ship -> <<2, 2>> [] p = shot -> <<2>> [] p = wall -> <<1, 3>>]
Walk(kind, first, second) == [kind |-> kind, first |-> first, second |-> second]

MCWalks == {Walk("map", <<ship, wall, shot>>, <<>>),
            Walk("cross", <<ship, wall>>, <<shot, wall>>),
            Walk("selfCross", <<ship, shot>>, <<ship, shot>>)}
=============================================================================
