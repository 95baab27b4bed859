---------------------------- MODULE Deployments -----------------------------
(***************************************************************************)
(* The rule changes that miners vote on with bits of the block version     *)
(* (pkg/chain/thresholdstate.go, versionbits.go).  The state of a change   *)
(* is that of a whole window of blocks; it is computed from the state of   *)
(* the window before and kept in a cache per change, filled in by whoever  *)
(* asks first and for whatever branch: the rules, the miner, the warnings. *)
(***************************************************************************)
EXTENDS Integers, Sequences, SequencesExt, FiniteSets, FiniteSetsExt

CONSTANTS
    Nodes,          \* the nodes of the block index, numbers
    NodeParent,     \* blockNode.parent
    NoNode,         \* the nil *blockNode
    MinerConfirmationWindow,
    RuleChangeActivationThreshold,
    medianTimeBlocks,
    Changes,        \* params.Deployments: number, BitNumber, StartTime and ExpireTime
    VersionBits,    \* the bits of a version that are modelled
    NodeVersions,   \* the versions the nodes may have
    NodeTimes       \* the timestamps the nodes may have, in any order: no received block
                    \* reaches the rule on median times of checkBlockHeaderContext

ASSUME DeploymentsAssumption ==
    /\ MinerConfirmationWindow \in Nat \ {0}
    /\ RuleChangeActivationThreshold \in Nat
    /\ medianTimeBlocks \in Nat \ {0}
    /\ Nodes \subseteq Nat /\ IsFiniteSet(Nodes) /\ NoNode \notin Nodes
    /\ DOMAIN NodeParent = Nodes
    /\ \A n \in Nodes : NodeParent[n] # NoNode => NodeParent[n] \in Nodes /\ NodeParent[n] < n
    /\ \A d \in Changes : d.BitNumber \in VersionBits /\ d.StartTime \in Nat /\ d.ExpireTime \in Nat
    /\ IsFiniteSet(VersionBits)
    /\ \A v \in NodeVersions : DOMAIN v = Nodes
    /\ NodeTimes \subseteq [Nodes -> Nat]

VARIABLES
    version,            \* per node, whether it signals by bits and which
    medianTime,         \* per node, CalcPastMedianTime
    deploymentCaches,   \* per change, the states of the windows that have been computed
    warningCaches,      \* the same per bit, for changes this node does not know
    unknownRulesWarned

deployVars == <<version, medianTime, deploymentCaches, warningCaches, unknownRulesWarned>>

NoState == "none"
Forever == 1000000   \* math.MaxUint64

-----------------------------------------------------------------------------
BranchOf == LET up[n \in Nodes] == {n} \cup IF NodeParent[n] = NoNode THEN {} ELSE up[NodeParent[n]]
            IN  [n \in Nodes |-> up[n]]

HeightOf == [n \in Nodes |-> Cardinality(BranchOf[n]) - 1]
NodeHeight(n) == HeightOf[n]

AncestorAt(n, height) ==
    LET found == {a \in BranchOf[n] : NodeHeight(a) = height}
    IN  IF found = {} THEN NoNode ELSE CHOOSE a \in found : TRUE

\* The blocks that a window ending with n counts.
LastBlocks(n, count) == {a \in BranchOf[n] : NodeHeight(a) > NodeHeight(n) - count}

\* The upper of the middle two when their number is even.
CalcPastMedianTime(timestamp, n) ==
    LET nodes == LastBlocks(n, medianTimeBlocks)
        below(t) == Cardinality({a \in nodes : timestamp[a] < t})
        upTo(t) == Cardinality({a \in nodes : timestamp[a] <= t})
        middle == Cardinality(nodes) \div 2
    IN  CHOOSE t \in {timestamp[a] : a \in nodes} : below(t) <= middle /\ middle < upTo(t)

\* The last block of the window before the one that the block after n is in.
WindowEnd(n) ==
    IF n = NoNode THEN NoNode
    ELSE IF NodeHeight(n) + 1 < MinerConfirmationWindow THEN NoNode
    ELSE AncestorAt(n, NodeHeight(n) - ((NodeHeight(n) + 1) % MinerConfirmationWindow))

PrevWindow(n) == AncestorAt(n, NodeHeight(n) - MinerConfirmationWindow)

-----------------------------------------------------------------------------
Votes(end, votes) == Cardinality(LastBlocks(end, MinerConfirmationWindow) \cap votes)

NextThreshold(end, state, change, votes) ==
    LET expired == medianTime[end] >= change.ExpireTime
    IN  CASE state = "Defined" -> IF expired THEN "Failed" ELSE IF medianTime[end] >= change.StartTime THEN "Started" ELSE "Defined"
          [] state = "Started" -> IF expired THEN "Failed"
                                  ELSE IF Votes(end, votes) >= RuleChangeActivationThreshold THEN "LockedIn" ELSE "Started"
          [] state = "LockedIn" -> "Active"
          [] OTHER -> state

\* Every window walked is given the state of the one asked for.
CacheUpdateLast(cache, walked, at) ==
    [n \in Nodes |-> IF n \in walked THEN at[CHOOSE m \in walked : \A o \in walked : NodeHeight(o) <= NodeHeight(m)] ELSE cache[n]]

\* What is computed is kept for the window it is of.
CacheUpdate(cache, walked, at) == [n \in Nodes |-> IF n \in walked THEN at[n] ELSE cache[n]]

\* thresholdState: back over the windows to one that is cached or whose median
\* time is before the start, then forwards from there.
thresholdState(cache, prevNode, change, votes) ==
    LET Early(n) == medianTime[n] < change.StartTime
        Stops(n) == cache[n] # NoState \/ Early(n)
        before(at, n) == IF PrevWindow(n) = NoNode THEN "Defined" ELSE at[PrevWindow(n)]
        walk[n \in Nodes] == {n} \cup IF Stops(n) \/ PrevWindow(n) = NoNode THEN {} ELSE walk[PrevWindow(n)]
        at[n \in Nodes] == IF cache[n] # NoState THEN cache[n]
                           ELSE IF Early(n) THEN "Defined"
                           ELSE NextThreshold(n, before(at, n), change, votes)
        counted(walked) == {n \in walked : ~Stops(n) /\ before(at, n) = "Started" /\ medianTime[n] < change.ExpireTime}
        from(end, walked) ==
            [state |-> at[end],
             cache |-> CacheUpdate(cache, walked, at),
             asked |-> UNION {LastBlocks(n, MinerConfirmationWindow) : n \in counted(walked)}]
        of(end) == IF end = NoNode THEN [state |-> "Defined", cache |-> cache, asked |-> {}] ELSE from(end, walk[end])
    IN  of(WindowEnd(prevNode))

-----------------------------------------------------------------------------
\* deploymentChecker.Condition
Signals(bit) == {n \in Nodes : version[n].top /\ bit \in version[n].bits}

deploymentState(caches, prevNode, d) == thresholdState(caches[d], prevNode, d, Signals(d.BitNumber))

\* calcNextBlockVersion: the bits of the changes that are voted on or locked in.
calcNextBlockVersion(caches, prevNode) ==
    {d.BitNumber : d \in {c \in Changes : deploymentState(caches, prevNode, c).state \in {"Started", "LockedIn"}}}

CachesAfter(caches, prevNode) == [d \in Changes |-> deploymentState(caches, prevNode, d).cache]

\* A bit that no change this node knows would set: always started, never expired.
UnknownChange(bit) == [BitNumber |-> bit, StartTime |-> 0, ExpireTime |-> Forever]

\* bitConditionChecker.Condition
Unexpected(caches, bit) == {n \in Signals(bit) : bit \notin calcNextBlockVersion(caches, NodeParent[n])}

\* The state for a bit, and what asking for the expected versions has put into
\* the caches of the changes.
warningState(caches, warnings, prevNode, bit) ==
    LET with(r) ==
            [state |-> r.state,
             warnings |-> [warnings EXCEPT ![bit] = r.cache],
             caches |-> FoldSet(LAMBDA n, c : CachesAfter(c, NodeParent[n]), caches, r.asked \cap Signals(bit))]
    IN  with(thresholdState(warnings[bit], prevNode, UnknownChange(bit), Unexpected(caches, bit)))

AllWarnings(caches, warnings, prevNode) ==
    LET with(s, r) == [caches |-> r.caches, warnings |-> r.warnings, active |-> s.active \/ r.state = "Active"]
    IN  FoldSet(LAMBDA bit, s : with(s, warningState(s.caches, s.warnings, prevNode, bit)),
                [caches |-> caches, warnings |-> warnings, active |-> FALSE], VersionBits)

-----------------------------------------------------------------------------
NoCache == [n \in Nodes |-> NoState]

DeployInit ==
    /\ version \in NodeVersions
    /\ \E timestamp \in NodeTimes : medianTime = [n \in Nodes |-> CalcPastMedianTime(timestamp, n)]
    /\ deploymentCaches = [d \in Changes |-> NoCache]
    /\ warningCaches = [bit \in VersionBits |-> NoCache]
    /\ unknownRulesWarned = FALSE

\* The rules ask for the block after a node of any branch, the mempool and the
\* peers for the block after the tip.
AskDeployment(d, n) ==
    /\ deploymentCaches' = [deploymentCaches EXCEPT ![d] = deploymentState(deploymentCaches, n, d).cache]
    /\ UNCHANGED <<version, medianTime, warningCaches, unknownRulesWarned>>

\* CalcNextBlockVersion, of the block after the tip.
AskVersion(n) ==
    /\ deploymentCaches' = CachesAfter(deploymentCaches, n)
    /\ UNCHANGED <<version, medianTime, warningCaches, unknownRulesWarned>>

\* warnUnknownRuleActivations, when a block is connected and the chain is current.
warnUnknownRuleActivations(n) ==
    \E all \in {AllWarnings(deploymentCaches, warningCaches, NodeParent[n])} :
        /\ deploymentCaches' = all.caches
        /\ warningCaches' = all.warnings
        /\ unknownRulesWarned' = (unknownRulesWarned \/ all.active)
        /\ UNCHANGED <<version, medianTime>>

\* The program starts again with n for its tip: the caches are empty, then
\* initThresholdCaches fills them for the block before the tip, and warns if
\* the chain is current.
initThresholdCaches(n) ==
    \E all \in {AllWarnings([d \in Changes |-> NoCache], [bit \in VersionBits |-> NoCache], NodeParent[n])} :
        /\ deploymentCaches' = CachesAfter(all.caches, NodeParent[n])
        /\ warningCaches' = all.warnings
        /\ \E isCurrent \in BOOLEAN : unknownRulesWarned' = (isCurrent /\ all.active)
        /\ UNCHANGED <<version, medianTime>>

DeployNext ==
    \/ \E d \in Changes, n \in Nodes : AskDeployment(d, n)
    \/ \E n \in Nodes : AskVersion(n)
    \/ \E n \in Nodes : warnUnknownRuleActivations(n)
    \/ \E n \in Nodes : initThresholdCaches(n)

DeploySpec == DeployInit /\ [][DeployNext]_deployVars

-----------------------------------------------------------------------------
(* What the state for the block after n is, of the branch alone: the windows
   since the last one whose median time is before the start, the first of them,
   and the first after that one with enough votes while none had expired. *)

StateOf(n, change, votes) ==
    LET ends == IF WindowEnd(n) = NoNode THEN {}
                ELSE {e \in BranchOf[WindowEnd(n)] : WindowEnd(e) = e}
        time(e) == medianTime[e]
        first(set) == CHOOSE e \in set : \A o \in set : NodeHeight(e) <= NodeHeight(o)
        locked(started) == {e \in started \ {first(started)} :
                               /\ \A o \in started : NodeHeight(o) <= NodeHeight(e) => time(o) < change.ExpireTime
                               /\ Votes(e, votes) >= RuleChangeActivationThreshold}
        after(started, lock) ==
            IF lock # {} THEN IF first(lock) = WindowEnd(n) THEN "LockedIn" ELSE "Active"
            ELSE IF \E e \in started : time(e) >= change.ExpireTime THEN "Failed" ELSE "Started"
        of(started) == IF started = {} THEN "Defined" ELSE after(started, locked(started))
    IN  of({e \in ends : \A o \in ends : NodeHeight(o) >= NodeHeight(e) => time(o) >= change.StartTime})

ExpectedBits(n) ==
    {d.BitNumber : d \in {c \in Changes : StateOf(n, c, Signals(c.BitNumber)) \in {"Started", "LockedIn"}}}

UnknownVotes(bit) == {n \in Signals(bit) : bit \notin ExpectedBits(NodeParent[n])}

(* Whatever was asked before, in whatever order and for whichever branch,
   thresholdState gives the state that follows from the branch alone: what is
   in the caches, and what a question asked now would be told. *)

StatesFollowTheBranch ==
    /\ \A d \in Changes, n \in DOMAIN version :
        \A is \in {StateOf(n, d, Signals(d.BitNumber))} :
            /\ deploymentState(deploymentCaches, n, d).state = is
            /\ deploymentCaches[d][n] # NoState => WindowEnd(n) = n /\ deploymentCaches[d][n] = is
    /\ \A bit \in VersionBits, n \in DOMAIN version :
        warningCaches[bit][n] # NoState =>
            WindowEnd(n) = n /\ warningCaches[bit][n] = StateOf(n, UnknownChange(bit), UnknownVotes(bit))

(* The warning about unknown rules in force is given only when some branch
   really has locked in a change that no deployment of this node explains:
   warnUnknownRuleActivations leaves out the votes that calcNextBlockVersion
   expected, although it asks for them in the middle of its own count. *)

WarnedForACause ==
    unknownRulesWarned => \E bit \in VersionBits, n \in DOMAIN version : StateOf(n, UnknownChange(bit), UnknownVotes(bit)) = "Active"

(* From one window to the next a deployment moves at most one step, skips none
   and leaves no final state, which is what lets a rule that validate.go has
   begun to enforce stay enforced.  The only way back is a window whose median
   time is before the start of the change: the walk stops there, and all that
   the branch had decided is forgotten, an active rule too. *)

RulesStayEnforced ==
    \A d \in Changes, n \in DOMAIN version :
        NodeParent[n] # NoNode =>
            \A from \in {deploymentState(deploymentCaches, NodeParent[n], d).state},
               to \in {deploymentState(deploymentCaches, n, d).state} :
                \/ from = to
                \/ WindowEnd(n) = n /\ <<from, to>> \in {<<"Defined", "Started">>, <<"Defined", "Failed">>, <<"Started", "LockedIn">>,
                                                        <<"Started", "Failed">>, <<"LockedIn", "Active">>}
                \/ WindowEnd(n) = n /\ to = "Defined" /\ medianTime[n] < d.StartTime

(* Every question about a rule change is answered as for its branch alone, an    *)
(* active rule stays active on the branch until a median time before its start,  *)
(* and a warning has a cause.                                                    *)
RuleChangesAreSound == StatesFollowTheBranch /\ RulesStayEnforced /\ WarnedForACause

=============================================================================
