---------------------------- MODULE AddrManager ----------------------------
(***************************************************************************)
(* The addresses the node knows (pkg/peer/addrmgr): an index, buckets of   *)
(* new and of tried addresses, the counters that GetAddress goes by, and   *)
(* the file they are saved to every few minutes; and the addresses of the  *)
(* node itself.                                                            *)
(*                                                                         *)
(* Timestamps come from other nodes and time passes between any two steps, *)
(* so which addresses are bad, and which of them is the oldest, is a       *)
(* choice.  Every exported method holds the mutex from start to end.       *)
(***************************************************************************)
EXTENDS Integers, FiniteSets, Sequences, SequencesExt

CONSTANTS Addrs, Sources,          \* addresses, and the peers that report them
          Keys,                    \* values of the random key
          NewBuckets, TriedBuckets,
          NewBucketOf, TriedBucketOf,   \* the hashes that pick a bucket, by key
          newBucketSize, triedBucketSize, newBucketsPerAddress

ASSUME AddrManagerConstants ==
    /\ newBucketSize \in Nat /\ triedBucketSize \in Nat \ {0}
    /\ newBucketsPerAddress \in Nat \ {0}
    /\ IsFiniteSet(Addrs)
    /\ NewBuckets \subseteq Nat /\ IsFiniteSet(NewBuckets)
    /\ NewBucketOf \in [Keys -> [Addrs -> [Sources -> NewBuckets]]]
    /\ TriedBucketOf \in [Keys -> [Addrs -> TriedBuckets]]

VARIABLES am,          \* the manager: index, new, tried, nNew, nTried, key
          peersFile,   \* "none", "cut" while it is written, or what was saved
          amPhase,     \* "running", "saving" or "down"
          localAddresses   \* the score of each address of the node

addrVars == <<am, peersFile, amPhase, localAddresses>>

(* reset, of a manager that has counted nothing.                           *)
EmptyManager(k) == [index |-> [a \in {} |-> 0], key |-> k, nNew |-> 0, nTried |-> 0,
                    new |-> [b \in NewBuckets |-> {}], tried |-> [b \in TriedBuckets |-> {}]]

NoAddresses == [k \in {} |-> 0]

AddrInit ==
    /\ \E k \in Keys : am = EmptyManager(k)
    /\ peersFile = [written |-> "none"] /\ amPhase = "running" /\ localAddresses = NoAddresses

getNewBucket(a, s) == NewBucketOf[am.key][a][s]
getTriedBucket(a) == TriedBucketOf[am.key][a]

Known(a) == a \in DOMAIN am.index

-----------------------------------------------------------------------------
(* Take the addresses of gone out of bucket b; one that is in no other     *)
(* bucket is forgotten.                                                    *)
Expire(m, b, gone) ==
    LET last == {a \in gone : m.index[a].refs = 1}
    IN  [m EXCEPT !.new[b] = @ \ gone,
                  !.nNew = @ - Cardinality(last),
                  !.index = [a \in DOMAIN m.index \ last |->
                               IF a \in gone THEN [m.index[a] EXCEPT !.refs = @ - 1]
                               ELSE m.index[a]]]

(* expireNew drops every bad address, and the oldest of the others.        *)
expireNew(m, b) == {Expire(m, b, gone) : gone \in (SUBSET m.new[b]) \ {{}}}

(* The second half of updateAddress: put address a in a new bucket.        *)
PutInBucket(m, a, b) ==
    IF a \in m.new[b] THEN {m}
    ELSE {[n EXCEPT !.index[a].refs = @ + 1, !.new[b] = @ \cup {a}] :
            n \in IF Cardinality(m.new[b]) > newBucketSize THEN expireNew(m, b) ELSE {m}}

(* A known address may get one more bucket; chance decides, so either.     *)
updateAddress(a, s) ==
    IF Known(a)
    THEN IF am.index[a].tried \/ am.index[a].refs = newBucketsPerAddress THEN {am}
         ELSE {am} \cup PutInBucket(am, a, getNewBucket(a, s))
    ELSE PutInBucket([am EXCEPT !.nNew = @ + 1,
                                !.index = [x \in DOMAIN am.index \cup {a} |->
                                             IF x = a THEN [refs |-> 0, tried |-> FALSE, src |-> s]
                                             ELSE am.index[x]]],
                     a, getNewBucket(a, s))

AddAddress(a, s) ==
    /\ amPhase = "running"
    /\ am' \in updateAddress(a, s)
    /\ UNCHANGED <<peersFile, amPhase, localAddresses>>

-----------------------------------------------------------------------------
(* Good: move a known address to its tried bucket.  When that is full, an  *)
(* address of it goes back to its new bucket, or to one that a has left.   *)
LeavesNew(a) == [am EXCEPT !.new = [b \in NewBuckets |-> am.new[b] \ {a}],
                           !.index[a].refs = 0, !.nNew = @ - 1]

BucketForEvicted(m, r, old) ==
    LET b == NewBucketOf[m.key][r][m.index[r].src]
    IN  IF Cardinality(m.new[b]) >= newBucketSize THEN old ELSE b

Good(a) ==
    /\ amPhase = "running" /\ Known(a)
    /\ LET t == getTriedBucket(a)
           m == LeavesNew(a)
           held == {b \in NewBuckets : a \in am.new[b]}
           first == CHOOSE b \in held : \A c \in held : b <= c
       IN  CASE am.index[a].tried -> UNCHANGED am
             [] ~am.index[a].tried /\ held = {} -> am' = m
             [] ~am.index[a].tried /\ held # {} /\ Cardinality(m.tried[t]) < triedBucketSize ->
                  am' = [m EXCEPT !.tried[t] = @ \cup {a}, !.index[a].tried = TRUE, !.nTried = @ + 1]
             [] OTHER ->
                  \E r \in m.tried[t] :
                    am' = [m EXCEPT !.tried[t] = (@ \ {r}) \cup {a},
                                    !.index[a].tried = TRUE,
                                    !.index[r] = [refs |-> @.refs + 1, tried |-> FALSE, src |-> @.src],
                                    !.nNew = @ + 1,
                                    !.new[BucketForEvicted(m, r, first)] = @ \cup {r}]
    /\ UNCHANGED <<peersFile, amPhase, localAddresses>>

-----------------------------------------------------------------------------
(* What savePeers writes: neither the counters nor the references.         *)
Serialized(m) == [written |-> "all", key |-> m.key, new |-> m.new, tried |-> m.tried,
                  srcs |-> [a \in DOMAIN m.index |-> m.index[a].src]]

(* savePeers truncates the file and then writes it.                        *)
savePeers ==
    /\ amPhase = "running"
    /\ amPhase' = "saving" /\ peersFile' = [written |-> "cut"]
    /\ UNCHANGED <<am, localAddresses>>

Saved ==
    /\ amPhase = "saving"
    /\ amPhase' = "running"
    /\ peersFile' = Serialized(am)
    /\ UNCHANGED <<am, localAddresses>>

(* Stop, or the end of the process at any point of a save.                 *)
AddrCrash ==
    /\ amPhase # "down"
    /\ amPhase' = "down" /\ localAddresses' = NoAddresses
    /\ UNCHANGED <<am, peersFile>>

Refs(f, a) == Cardinality({b \in NewBuckets : a \in f.new[b]})

CountEveryRef(f) == {p \in NewBuckets \X DOMAIN f.srcs : p[2] \in f.new[p[1]]}   \* mutant

(* deserializePeers counts an address once, at its first reference.        *)
NewCounts(f) == {a \in DOMAIN f.srcs : Refs(f, a) > 0}

deserializePeers(f) ==
    LET isTried(a) == \E b \in TriedBuckets : a \in f.tried[b]
    IN  [key |-> f.key, new |-> f.new, tried |-> f.tried,
         index |-> [a \in DOMAIN f.srcs |-> [refs |-> Refs(f, a), tried |-> isTried(a),
                                             src |-> f.srcs[a]]],
         nNew |-> Cardinality(NewCounts(f)),
         nTried |-> Cardinality({a \in DOMAIN f.srcs : isTried(a)})]

Loadable(m) == \A a \in DOMAIN m.index : m.index[a].tried <=> m.index[a].refs = 0

(* loadPeers at the next start: a file that does not parse is removed and  *)
(* the manager starts empty, as it does without one.                       *)
loadPeers ==
    /\ amPhase = "down"
    /\ amPhase' = "running"
    /\ IF peersFile.written = "all" /\ Loadable(deserializePeers(peersFile))
       THEN am' = deserializePeers(peersFile) /\ UNCHANGED peersFile
       ELSE /\ peersFile' = [written |-> "none"]
            /\ \E k \in Keys : am' = EmptyManager(k)
    /\ UNCHANGED localAddresses

-----------------------------------------------------------------------------
(* Addresses by the kind of network they belong to; the ranges that        *)
(* nothing here tells apart are one kind.                                  *)
Kinds == {"ipv4", "reserved", "tor", "teredo", "tunnelled", "ipv6"}
Priorities == 0..4

IsRoutable(k) == k # "reserved"

(* Unreachable 0, Default 1, Teredo 2, Ipv6Weak 3, Ipv4 4, Ipv6Strong 5,   *)
(* Private 6.                                                              *)
getReachabilityFrom(local, remote) ==
    CASE ~IsRoutable(remote) -> 0
      [] remote = "tor" -> CASE local = "tor" -> 6 [] local = "ipv4" -> 4 [] OTHER -> 1
      [] remote = "teredo" -> CASE local = "reserved" -> 1 [] local = "teredo" -> 2
                                [] local = "ipv4" -> 4 [] OTHER -> 3
      [] remote = "ipv4" -> IF local = "ipv4" THEN 4 ELSE 0
      [] OTHER -> CASE local = "reserved" -> 1 [] local = "teredo" -> 2 [] local = "ipv4" -> 4
                    [] local = "tunnelled" -> 3 [] OTHER -> 5

(* A higher priority than the recorded one counts one more.                *)
AddLocalAddress(k, priority) ==
    /\ amPhase = "running" /\ IsRoutable(k)
    /\ localAddresses' =
         IF k \notin DOMAIN localAddresses
         THEN [x \in DOMAIN localAddresses \cup {k} |-> IF x = k THEN priority ELSE localAddresses[x]]
         ELSE [localAddresses EXCEPT ![k] = IF @ < priority THEN priority + 1 ELSE @]
    /\ UNCHANGED <<am, peersFile, amPhase>>

Prefers(b, reach, score) == reach > b.reach \/ (reach = b.reach /\ score > b.score)

NoBest == [addr |-> "none", reach |-> 0, score |-> 0]

(* The better of the best so far and address k.                            *)
BetterOf(b, k, remote) ==
    LET reach == getReachabilityFrom(k, remote)
    IN  IF Prefers(b, reach, localAddresses[k])
        THEN [addr |-> k, reach |-> reach, score |-> localAddresses[k]] ELSE b

(* order is the order in which the map happens to be walked.               *)
GetBestLocalAddress(remote, order) ==
    LET best[n \in 0 .. Len(order)] ==
            IF n = 0 THEN NoBest ELSE BetterOf(best[n - 1], order[n], remote)
    IN  best[Len(order)].addr

AddrNext ==
    \/ \E a \in Addrs, s \in Sources : AddAddress(a, s)
    \/ \E a \in Addrs : Good(a)
    \/ savePeers
    \/ Saved
    \/ AddrCrash
    \/ loadPeers
    \/ \E k \in Kinds, priority \in Priorities : AddLocalAddress(k, priority)

AddrSpec == AddrInit /\ [][AddrNext]_addrVars

-----------------------------------------------------------------------------
(* The index, the buckets and the counters agree: every known address is   *)
(* in its tried bucket or in as many new buckets as it counts, never in    *)
(* both, and nNew and nTried are exact, also after expiry, eviction and a  *)
(* restart.  GetAddress, which loops over random buckets with the mutex    *)
(* held until it meets an address, ends because of it, and updateAddress   *)
(* never asks for a random number below zero.                              *)
AddressesAreAccounted ==
    LET triedAddrs == UNION {am.tried[b] : b \in TriedBuckets}
        newAddrs == UNION {am.new[b] : b \in NewBuckets}
    IN  /\ DOMAIN am.index = triedAddrs \cup newAddrs
        /\ \A a \in DOMAIN am.index :
             /\ am.index[a].refs = Refs(am, a)
             /\ am.index[a].tried <=> a \in triedAddrs
        /\ triedAddrs \cap newAddrs = {}
        /\ am.nNew = Cardinality(newAddrs) /\ am.nTried = Cardinality(triedAddrs)

(* No bucket outgrows its size by more than the one address that           *)
(* updateAddress lets in before it expires, whatever an eviction from a    *)
(* tried bucket puts back; and no address takes more buckets than its      *)
(* share.                                                                  *)
BucketsAreBounded ==
    /\ \A b \in NewBuckets : Cardinality(am.new[b]) <= newBucketSize + 1
    /\ \A b \in TriedBuckets : Cardinality(am.tried[b]) <= triedBucketSize
    /\ \A a \in DOMAIN am.index : am.index[a].refs <= newBucketsPerAddress

(* The address a node advertises to a remote one is the best it has, first *)
(* by how reachable it is from there and then by how it was learned,       *)
(* whatever order the map is walked in; and with none worth anything it    *)
(* suggests none.                                                          *)
SuggestsTheBest ==
    \A remote \in Kinds : \A order \in SetToSeqs(DOMAIN localAddresses) :
        LET best == GetBestLocalAddress(remote, order)
            Rank(k) == <<getReachabilityFrom(k, remote), localAddresses[k]>>
            Above(r, q) == r[1] > q[1] \/ (r[1] = q[1] /\ r[2] > q[2])
        IN  IF best = "none" THEN \A k \in DOMAIN localAddresses : ~Above(Rank(k), <<0, 0>>)
            ELSE \A k \in DOMAIN localAddresses : ~Above(Rank(k), Rank(best))

(* Index, buckets and counters of the known addresses describe the same    *)
(* addresses within their bounds, and the best local address is announced. *)
AddressesAreKept == AddressesAreAccounted /\ BucketsAreBounded /\ SuggestsTheBest

=============================================================================
