---------------------------- MODULE MCChainParts ----------------------------
(* Parts of the block chain that keep state of their own, one of which a   *)
(* behaviour is about: the orphan pool, the levels of the address index,   *)
(* the index manager with the transaction and the address index, the same  *)
(* with the filter index, or the states of the rule changes.               *)
EXTENDS OrphanPool, Indexes, Deployments, TLC

\* Five orphans of two parents that have not arrived; one orphan is the
\* parent of another.
MCHashes == {"o1", "o2", "o3", "o4", "o5"}

MCPrevBlock ==
    [h \in MCHashes |-> CASE h \in {"o1", "o2", "o5"} -> "p1" [] h = "o3" -> "p2" [] h = "o4" -> "o1"]

\* Two branches, the longer of which orphans two blocks of the other.
MCIdxBlocks == {"g", "a1", "a2", "b1", "b2", "b3"}
MCIdxPrev == "a1" :> "g" @@ "a2" :> "a1" @@ "b1" :> "g" @@ "b2" :> "b1" @@ "b3" :> "b2"

\* A chain of four windows of two blocks, and a branch of it from the middle of the second;
\* one change expires early, the other does not.
MCNoNode == -1
MCNodes == 0 .. 7 \cup {13}
MCNodeParent == [n \in MCNodes |-> IF n = 13 THEN 2 ELSE n - 1]
MCChanges == {[BitNumber |-> 1, StartTime |-> 1, ExpireTime |-> 4],
              [BitNumber |-> 2, StartTime |-> 2, ExpireTime |-> 100]}

Voting(one, two, legacy) ==
    [n \in MCNodes |-> [top |-> n \notin legacy,
                        bits |-> {bit \in {1, 2} : n \in IF bit = 1 THEN one ELSE two}]]

MCNodeVersions == {Voting({2, 3, 4, 5, 13}, {2, 3, 4, 5}, {}), Voting({2, 4, 5, 13}, {4, 5, 6, 13}, {4})}

\* In the second the median times fall: that of block 5 to before the end of the change that
\* block 3 has seen expire, that of block 7 to before the start of the change that is active.
MCNodeTimes == {[n \in MCNodes |-> IF n = 13 THEN 3 ELSE n],
                [n \in MCNodes |-> CASE n \in {0, 13} -> 0 [] n \in {1, 4, 5} -> 2 [] n = 2 -> 5 [] n = 3 -> 4 [] OTHER -> 1]}

VARIABLE part

pool == <<poolVars, index>>

\* No chain of any length is a part of its own.
NoDeployments ==
    /\ version = << >> /\ medianTime = << >> /\ deploymentCaches = << >>
    /\ warningCaches = << >> /\ unknownRulesWarned = FALSE

PartsInit ==
    /\ part \in {"orphans", "levels", "ids", "filters", "deployments"}
    /\ PoolStart /\ LevelsInit /\ IdxInit
    /\ IF part = "deployments" THEN DeployInit ELSE NoDeployments

\* The filter index has nothing in common with the other two.
Maintained ==
    LET used == ToSet(enabledIndexes') \cup ToSet(toDrop')
    IN  step = "down" => IF part = "filters" THEN used \subseteq {"cf"} ELSE "cf" \notin used

PartsNext ==
    /\ part' = part
    /\ \/ part = "orphans" /\ PoolNext /\ UNCHANGED <<levelVars, idxVars, deployVars>>
       \/ part = "levels" /\ LevelsNext /\ UNCHANGED <<pool, idxVars, deployVars>>
       \/ part \in {"ids", "filters"} /\ IdxNext /\ Maintained /\ UNCHANGED <<pool, levelVars, deployVars>>
       \/ part = "deployments" /\ DeployNext /\ UNCHANGED <<pool, levelVars, idxVars>>

PartsSpec == PartsInit /\ [][PartsNext]_<<pool, levelVars, idxVars, deployVars, part>> /\ IdxFairness
=============================================================================
