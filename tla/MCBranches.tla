----------------------------- MODULE MCBranches -----------------------------
(***************************************************************************)
(* Small block trees of MCBlockChain, one of which Init chooses: a branch  *)
(* that overtakes another twice, a branch that spends what only the other  *)
(* branch has, the descendants of an invalid block, forks with fast-added, *)
(* insane and blacklisted blocks and orphans that expire, and a branch     *)
(* with the same coinbase twice.                                           *)
(***************************************************************************)
EXTENDS MCBlockChain

CONSTANT TreesUsed      \* the trees Init chooses from

VARIABLE tree

branchVars == <<vars, tree>>

Trees ==
    [reorg     |-> [blocks |-> ReorgBlocks, fastAdd |-> {FALSE},
                    crash |-> TRUE],
     offBranch |-> [blocks |-> OffBranchBlocks, fastAdd |-> {FALSE},
                    crash |-> TRUE],
     invalid   |-> [blocks |-> InvalidParentBlocks, fastAdd |-> {FALSE},
                    crash |-> TRUE],
     repeat    |-> [blocks |-> RepeatBlocks, fastAdd |-> {FALSE},
                    crash |-> TRUE],
     fork      |-> [blocks |-> ForkBlocks, fastAdd |-> {FALSE, TRUE},
                    crash |-> FALSE]]

BranchBlocks == UNION {Trees[t].blocks : t \in TreesUsed}

BranchInit == Init /\ tree \in TreesUsed

Arrivals == Trees[tree].blocks \ {Genesis}

BranchNext ==
    \/ \E b \in Arrivals : ProcessRejected(b) /\ UNCHANGED tree
    \/ \E b \in Arrivals : ProcessOrphanBlock(b) /\ UNCHANGED tree
    \/ \E b \in Arrivals, f \in Trees[tree].fastAdd :
          ProcessBlock(b, f) /\ UNCHANGED tree
    \/ RejectBlock /\ UNCHANGED tree
    \/ StoreBlock /\ UNCHANGED tree
    \/ AddNode /\ UNCHANGED tree
    \/ CheckFails /\ UNCHANGED tree
    \/ CheckPasses /\ UNCHANGED tree
    \/ ConnectToTip /\ UNCHANGED tree
    \/ KeepBestChain /\ UNCHANGED tree
    \/ RefuseBranch /\ UNCHANGED tree
    \/ StartReorganize /\ UNCHANGED tree
    \/ VerifyDetach /\ UNCHANGED tree
    \/ VerifyAttach /\ UNCHANGED tree
    \/ VerifyFails /\ UNCHANGED tree
    \/ VerifyDone /\ UNCHANGED tree
    \/ FlushStatuses /\ UNCHANGED tree
    \/ DetachBlock /\ UNCHANGED tree
    \/ AttachBlock /\ UNCHANGED tree
    \/ StopReorganize /\ UNCHANGED tree
    \/ EndReorganize /\ UNCHANGED tree
    \/ BlockAccepted /\ UNCHANGED tree
    \/ NextOrphan /\ UNCHANGED tree
    \/ NextHash /\ UNCHANGED tree
    \/ FinishProcess /\ UNCHANGED tree
    \/ Trees[tree].crash /\ FlushCache /\ UNCHANGED tree
    \/ Trees[tree].crash /\ Crash /\ UNCHANGED tree
    \/ Restart /\ UNCHANGED tree
    \/ ~Trees[tree].crash /\ ClockTick /\ UNCHANGED tree

BranchSpec ==
    /\ BranchInit /\ [][BranchNext]_branchVars
    /\ WF_branchVars(Continue /\ UNCHANGED tree)
    /\ WF_branchVars(Restart /\ UNCHANGED tree)
=============================================================================
