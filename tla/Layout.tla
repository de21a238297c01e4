-------------------------------- MODULE Layout ---------------------------------
(* Where keys live: the regions of the configuration that clients route by    *)
(* (encode_legacy_space), beside the placement of the daemons                 *)
(* (legacy_locate_string_key), and the two strategies of placement-core.      *)
(*                                                                            *)
(* Daemons register in any order and a space is created and dropped.  Spaces  *)
(* says what a request defines and what the configuration can carry of it.    *)
(* What hashing makes of a key, a node or a token is chosen at the start; the *)
(* hash space is 0 .. Size - 1.                                               *)
EXTENDS Placement

CONSTANTS Size,     \* the number of hashes
          NodeIds,
          Plans,    \* what a behaviour may start from: a set of hashes for the
                    \* strategies, the daemons that register and their sorts of
                    \* host, and the requests to create a space
          Definition(_),   \* request -> the set of its definition, if it can be read
          Encodable(_),    \* definition -> whether the configuration can carry it
          MaxU8,    \* the largest u8
          NoSpace

ASSUME SizeAssumption == Size \in Nat \ {0} /\ Size % 2 = 0
ASSUME NodeIdsAssumption == NodeIds \subseteq Nat
ASSUME MaxU8Assumption == MaxU8 \in Nat \ {0}

\* Scores and positions are numbers, and every node has the same number of tokens, at
\* least one.
ASSUME HashesAssumption ==
    \A p \in DOMAIN Plans : \A h \in Plans[p].hashes :
        /\ h.replicas \in Nat /\ h.key \in Nat /\ h.tokens \in Nat \ {0}
        /\ h.score \in [NodeIds -> Nat] /\ h.token \in [NodeIds -> [1..h.tokens -> Nat]]
ASSUME NodesAssumption == \A p \in DOMAIN Plans : Plans[p].nodes \subseteq NodeIds

\* The counts of a definition are unsigned, and one that is encoded has partitions, and
\* dimensions in every subspace.
ASSUME DefinitionAssumption ==
    \A p \in DOMAIN Plans : \A request \in Plans[p].requests : \A def \in Definition(request) :
        /\ def.partitions \in Nat /\ def.fault_tolerance \in Nat
        /\ def.subspaces \in Seq(Seq(STRING))
        /\ Encodable(def) => def.partitions > 0 /\ <<>> \notin ToSet(def.subspaces)

VARIABLES plan, hash,
          order,    \* the registered daemons, in the order they came
          named,    \* those that gave a host name and not an address
          space     \* the definition, the request it came with, and the cuts of its
                    \* subspaces' dimensions

vars == <<plan, hash, order, named, space>>

Hashes == 0..(Size - 1)

-------------------------------------------------------------------------------
(* The regions of a subspace                                                  *)

Total(numbers) == FoldLeft(LAMBDA x, y : x + y, 0, numbers)
Product(numbers) == FoldLeft(LAMBDA x, y : x * y, 1, numbers)
Power(r, n) == Product([d \in 1..n |-> r])

\* The n-th root of partitions rounded down, as f64::powf and the cast give it: from
\* three dimensions on, a root that is exact may come out just below.
RootOf(n, partitions) ==
    CHOOSE r \in 1..partitions : Power(r, n) <= partitions /\ Power(r + 1, n) > partitions
Sides(n, partitions) ==
    LET r == RootOf(n, partitions)
    IN  IF n >= 3 /\ r > 1 /\ Power(r, n) = partitions THEN {r - 1, r} ELSE {r}

\* legacy_partition_regions: cuts per dimension, the leading ones raised by one until
\* a count that starts at n times the side reaches the partitions.
Dimensions(n, partitions, side) ==
    LET Raise(acc, d) ==
            IF acc.count >= partitions THEN acc
            ELSE [count |-> (acc.count \div acc.cuts[d]) * (acc.cuts[d] + 1),
                  cuts |-> [acc.cuts EXCEPT ![d] = @ + 1]]
    IN  FoldLeft(Raise, [count |-> n * side, cuts |-> [d \in 1..n |-> side]],
                 [d \in 1..n |-> d]).cuts

\* Mutant: an interval ends where the next one begins.
TouchingPoints(intervals) ==
    LET interval == ((Size \div 2) \div intervals) * 2
    IN  [i \in 1..intervals |->
           <<(i - 1) * interval, IF i = intervals THEN Size - 1 ELSE i * interval>>]

\* legacy_partition_points: the last interval takes what rounding left over.
PartitionPoints(intervals) ==
    LET interval == ((Size \div 2) \div intervals) * 2
    IN  [i \in 1..intervals |->
           <<(i - 1) * interval, IF i = intervals THEN Size - 1 ELSE i * interval - 1>>]

\* legacy_generate_regions: the boxes in order, the last dimension fastest.  A
\* dimension has the cuts of the first or else those of the last.
RegionsOf(cuts) ==
    LET n == Len(cuts)
        Points(d) == PartitionPoints(IF cuts[d] = cuts[1] THEN cuts[1] ELSE cuts[n])
        Extend(boxes, d) ==
            FlattenSeq([i \in DOMAIN boxes |->
                          [j \in DOMAIN Points(d) |-> Append(boxes[i], Points(d)[j])]])
    IN  FoldLeft(Extend, <<<<>>>>, [d \in 1..n |-> d])

-------------------------------------------------------------------------------
(* The configuration of a space                                               *)

\* default_legacy_config_encoder goes through the daemons by id.
Ids == Sorted(order, LAMBDA x, y : x < y)

CountOf(s) == ReplicaCount(Len(Ids), s.fault_tolerance)
SetsOf(s) == LegacyReplicaSets(Ids, CountOf(s), s.partitions)

\* encode_legacy_subspace: each region with its daemons, the leader first.
EncodeSubspace(cuts, sets) ==
    LET boxes == RegionsOf(cuts)
    IN  [i \in DOMAIN boxes |->
           [box |-> boxes[i],
            servers |-> IF sets = <<>> THEN <<>>
                        ELSE sets[(((i - 1) * Len(sets)) \div Len(boxes)) + 1]]]

\* encode_legacy_space: the subspace of the key, then the others.
EncodeSpace(s) ==
    [i \in DOMAIN s.cuts |-> EncodeSubspace(s.cuts[i], SetsOf(s.def))]

\* encode_legacy_location refuses a host that is not an address.
LocationsEncode == named = {}

\* default_legacy_config_encoder fails as a whole: for a daemon, for a space, or for a
\* region with more daemons than a u8 counts (encode_legacy_subspace).
Encodes ==
    /\ LocationsEncode
    /\ space # NoSpace => Encodable(space.def) /\ CountOf(space.def) <= MaxU8

\* Mutant: the largest hash lies outside every region.
RegionForHashShort(h, partitions) == (h * partitions) \div (Size - 1)

\* legacy_region_for_hash
RegionForHash(h, partitions) == (h * partitions) \div Size

\* The region a client finds a key's hash in.
ClientRegion(subspace, h) ==
    CHOOSE i \in DOMAIN subspace : subspace[i].box[1][1] <= h /\ h <= subspace[i].box[1][2]

-------------------------------------------------------------------------------
(* placement-core                                                             *)

Desired(nodes) == Min({Max({hash.replicas, 1}), Len(nodes)})

\* Mutant: nodes with one score keep the order of the list.
HigherScore(a, b) == hash.score[a] > hash.score[b]

\* RendezvousPlacement::locate, build_decision
RanksBefore(a, b) == hash.score[a] > hash.score[b] \/ (hash.score[a] = hash.score[b] /\ a < b)
Rendezvous(nodes) == SubSeq(Sorted(nodes, RanksBefore), 1, Desired(nodes))

\* build_hyperspace_ring: the tokens of all nodes by position, owner and index.
Token(owner, i) == [pos |-> hash.token[owner][i], owner |-> owner, index |-> i]
TokenBefore(s, t) ==
    \/ s.pos < t.pos
    \/ s.pos = t.pos /\ s.owner < t.owner
    \/ s.pos = t.pos /\ s.owner = t.owner /\ s.index < t.index
Tokens(nodes) ==
    FlattenSeq([i \in DOMAIN nodes |-> [j \in 1..hash.tokens |-> Token(nodes[i], j)]])
Ring(nodes) == Sorted(Tokens(nodes), TokenBefore)

\* Mutant: the key's position counts tokens from the beginning.
RingStartModulo(ring) == hash.key % Len(ring)

\* hyperspace_ring_start: the first token at or after the key, or the first of all.
RingStart(ring) == Cardinality({i \in DOMAIN ring : ring[i].pos < hash.key}) % Len(ring)

\* HyperSpacePlacement::locate: the next owners on the ring, each once.
HyperSpace(nodes) ==
    LET ring == Ring(nodes)
        start == RingStart(ring)
        owners == [i \in DOMAIN ring |-> ring[((start + i - 1) % Len(ring)) + 1].owner]
        firsts == {i \in DOMAIN ring : \A j \in 1..(i - 1) : owners[j] # owners[i]}
    IN  [k \in 1..Desired(nodes) |->
           owners[CHOOSE i \in firsts : Cardinality({j \in firsts : j < i}) = k - 1]]

Strategies(nodes) == <<Rendezvous(nodes), HyperSpace(nodes)>>

-------------------------------------------------------------------------------
Init ==
    /\ plan \in DOMAIN Plans /\ hash \in Plans[plan].hashes
    /\ order = <<>> /\ named = {} /\ space = NoSpace

\* Mutant: a daemon that registers again is added again.
RegisterAgain(n, host) ==
    order' = Append(order, n) /\ UNCHANGED <<plan, hash, named, space>>

\* register_daemon of a new id, or of a known one at another host.
Register(n, host) ==
    /\ order' = IF n \in ToSet(order) THEN order ELSE Append(order, n)
    /\ named' = IF host = "name" THEN named \cup {n} ELSE named \ {n}
    /\ UNCHANGED <<plan, hash, space>>

\* The number of dimensions of each encoded subspace; the key's is the first.
DimensionCounts(s) == <<1>> \o [i \in DOMAIN s.subspaces |-> Len(s.subspaces[i])]

\* The cuts rounding may give the subspaces of a definition.
CutsOf(s) ==
    LET counts == DimensionCounts(s)
        possible == UNION {Sides(counts[i], s.partitions) : i \in DOMAIN counts}
        chosen == {sides \in [DOMAIN counts -> possible] :
                      \A i \in DOMAIN counts : sides[i] \in Sides(counts[i], s.partitions)}
    IN  IF Encodable(s)
        THEN {[i \in DOMAIN counts |-> Dimensions(counts[i], s.partitions, sides[i])] : sides \in chosen}
        ELSE {<<>>}

\* create_space
CreateSpace(request) ==
    /\ space = NoSpace
    /\ \E def \in Definition(request) : \E cuts \in CutsOf(def) :
          space' = [def |-> def, request |-> request, cuts |-> cuts]
    /\ UNCHANGED <<plan, hash, order, named>>

DropSpace ==
    /\ space # NoSpace /\ space' = NoSpace
    /\ UNCHANGED <<plan, hash, order, named>>

Next ==
    \/ \E n \in Plans[plan].nodes, host \in Plans[plan].hosts : Register(n, host)
    \/ \E request \in Plans[plan].requests : CreateSpace(request)
    \/ DropSpace

Spec == Init /\ [][Next]_vars

-------------------------------------------------------------------------------
TypeOK ==
    /\ plan \in DOMAIN Plans /\ hash \in Plans[plan].hashes
    /\ order \in Seq(NodeIds) /\ \A i, j \in DOMAIN order : order[i] = order[j] => i = j
    /\ named \subseteq ToSet(order)
    /\ space # NoSpace =>
          \A i \in DOMAIN space.cuts : \A d \in DOMAIN space.cuts[i] : space.cuts[i][d] > 0

Apart(p, q) == p[2] < q[1] \/ q[2] < p[1]
Disjoint(b, c) == \E d \in DOMAIN b : Apart(b[d], c[d])
Volume(box) == Product([d \in DOMAIN box |-> box[d][2] - box[d][1] + 1])
TotalVolume(regions) == Total([r \in DOMAIN regions |-> Volume(regions[r].box)])

\* A client finds exactly one region for every point of every subspace, whatever the
\* partitions are and however their root was rounded: no two regions overlap and
\* together they fill the space.  Each has as many different daemons as the space's
\* fault tolerance asks for, or all there are.
RegionsTile ==
    space # NoSpace =>
        \A i \in DOMAIN space.cuts :
            LET regions == EncodeSpace(space)[i] IN
            /\ \A r, s \in DOMAIN regions : r < s => Disjoint(regions[r].box, regions[s].box)
            /\ TotalVolume(regions) = Power(Size, Len(space.cuts[i]))
            /\ \A r \in DOMAIN regions :
                  Cardinality({regions[r].servers[k] : k \in DOMAIN regions[r].servers})
                  = Min({Len(order), space.def.fault_tolerance + 1})

\* A client sends a key to the daemon that the daemons take for its primary: the
\* regions have the same replicas in the same order, and a hash falls into the same
\* region on both sides, always when the partitions divide half the hashes (when they
\* are a power of two), and else (the partitions few beside the hashes) except for hashes
\* just below a cut of the daemons, by less than two per partition, where the client is
\* one region ahead.
CutsEvenly(p) == (Size \div 2) % p = 0
JustBelowCut(h, p, region) == (h + 2 * p) * p >= region * Size
ClientRoutesToPrimary ==
    (space # NoSpace /\ order # <<>> /\ Encodes) =>
        LET subspace == EncodeSpace(space)[1]
            p == space.def.partitions
        IN  /\ \A r \in DOMAIN subspace :
                  subspace[r].servers = LegacyLocate(Ids, space.def.fault_tolerance, p, r - 1)
            /\ \A h \in Hashes :
                  LET client == ClientRegion(subspace, h)
                      server == RegionForHash(h, p) + 1
                  IN  \/ client = server
                      \/ /\ ~CutsEvenly(p)
                         /\ 4 * p * p <= Size => client = server + 1 /\ JustBelowCut(h, p, server)

\* Both strategies place a key on the same replicas whatever order the daemons are
\* listed in, also when hashes collide, and on as many different ones as asked for.
Replicas(list) == {list[i] : i \in DOMAIN list}
PlacementIgnoresOrder ==
    order # <<>> =>
        LET placed == Strategies(order) IN
        /\ placed = Strategies(Ids)
        /\ \A i \in 1..2 : Cardinality(Replicas(placed[i])) = Desired(order)

\* A daemon that joins moves a key only to itself: the other replicas of the key,
\* under either strategy, are the first of those it had, in the same order.
JoinMovesToNewcomer ==
    [][\A n \in NodeIds :
          (order' = Append(order, n) /\ order # <<>>) =>
             LET old == Strategies(order)
                 new == Strategies(order')
                 kept(i, k) == k - Cardinality({j \in 1..k : new[i][j] = n})
             IN  \A i \in 1..2 : \A k \in DOMAIN new[i] :
                    new[i][k] = n \/ new[i][k] = old[i][kept(i, k)]]_vars
===============================================================================
