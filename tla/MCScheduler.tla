----------------------------- MODULE MCScheduler -----------------------------
(* A branch like the render module's: a system before the children, and a    *)
(* child whose callback decides whether it runs.  The pools are alike.       *)
EXTENDS Scheduler

MCBranches == {<<Node("RENDER", 0, <<"animate">>, <<>>),
                 Node("DEBUG", 1, <<>>, <<"outline">>)>>}
MCMatches == [s \in Subscribers |-> IF s = "outline" THEN {} ELSE Pools]
ASSUME MCSchedulerAssumption == NothingTwice

PoolSymmetry == Permutations(Pools)
=============================================================================
