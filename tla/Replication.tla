------------------------------ MODULE Replication ------------------------------
(* One key, its primary and its secondaries: the data path of ClusterRuntime. *)
(*                                                                            *)
(* A client request enters at any daemon, is routed to the node that daemon   *)
(* believes to be primary, and is executed there: the peers are asked whether *)
(* they agree on the primary, the local record is written, the write is sent  *)
(* to the secondaries one by one, and a failure restores the local record.    *)
(* Nothing locks the key, so operations interleave between any two steps.  An *)
(* internode call is one step: the peer's handler takes one lock and the      *)
(* caller does nothing until it is answered.                                  *)
EXTENDS Naturals, Sequences, FiniteSets

CONSTANTS Nodes,         \* the daemons
          Views,         \* the node lists of successive configurations
          Replicas,      \* the key's replicas in each of them, primary first
          Start,         \* node -> the configuration it starts with; 0 is "only me"
          HasSpace,      \* the nodes that know the space at the start
          Syncing,       \* the nodes whose sync loop reaches the coordinator
          Values, NoRec, \* contents of the record, and its absence
          Initial,       \* the record every node starts with
          Unread,        \* no replica has answered yet
          Entry,         \* the nodes clients send requests to
          Ops,           \* client operations; each runs once
          Menu,          \* operation -> the requests it may be
          MaxConcurrent, \* bound on operations in flight
          MaxRefused,    \* bound on calls that fail before they reach the peer
          MaxLost        \* bound on calls whose effect stays and whose answer is lost

Kinds == {"put", "cput", "delete", "get"}
Records == Values \cup {NoRec}
ViewIds == 1..Len(Views)
RequestType == [kind : Kinds, value : Values, expect : Values]

ASSUME ViewsAssumption ==
    /\ Views \in Seq(Seq(Nodes))
    /\ Replicas \in [ViewIds -> Seq(Nodes)]
    /\ \A v \in ViewIds : Len(Replicas[v]) > 0
    /\ \A v \in ViewIds : \A i, j \in 1..Len(Replicas[v]) :
          Replicas[v][i] = Replicas[v][j] => i = j
    /\ \A v \in ViewIds : \A i \in 1..Len(Replicas[v]) :
          \E k \in 1..Len(Views[v]) : Views[v][k] = Replicas[v][i]
\* The coordinator registers daemons and never removes one.
ASSUME GrowthAssumption ==
    \A v, w \in ViewIds : v <= w => 0 < Len(Views[v]) /\ Len(Views[v]) <= Len(Views[w])
ASSUME StartAssumption ==
    /\ Start \in [Nodes -> 0..Len(Views)]
    /\ HasSpace \subseteq {n \in Nodes : Start[n] > 0}
    /\ Syncing \subseteq Nodes /\ Entry \subseteq Nodes
ASSUME RecordAssumption ==
    /\ NoRec \notin Values /\ Initial \in Records
    /\ Unread \notin Records /\ Unread \notin RequestType
ASSUME MenuAssumption == IsFiniteSet(Ops) /\ Menu \in [Ops -> SUBSET RequestType]
ASSUME SomeAssumption == Nodes # {} /\ Values # {}
ASSUME BoundAssumption ==
    MaxConcurrent \in Nat /\ MaxRefused \in Nat /\ MaxLost \in Nat

VARIABLES rec,      \* node -> the record in its storage engine
          layout,   \* node -> configuration of its catalog's nodes (routing)
          conf,     \* node -> configuration of its cluster_config (peers, addresses)
          schema,   \* node -> does its catalog have the space
          op,       \* operation -> its progress
          refused, lost

vars == <<rec, layout, conf, schema, op, refused, lost>>
nodeVars == <<layout, conf, schema>>

Phases == {"new", "forward", "confirm_start", "confirm_peers", "confirm", "read", "locate_get", "get",
           "write", "locate_secondaries", "replicate", "rollback", "restore",
           "reply", "done"}
Results == {"none", "ok", "condition_failed", "err"}

OpType ==
    [pc : Phases, kind : Kinds, value : Values, expect : Values,
     via : Nodes, at : Nodes,      \* where the request entered, where it executes
     counted : 0..Len(Views),      \* configuration the primary counted the nodes of
     view : 0..Len(Views),         \* configuration of the node list being visited
     todo : SUBSET Nat,            \* positions of that list still to visit
     confirmed : BOOLEAN, skipped : BOOLEAN,
     previous : Records, agreed : Records \cup {Unread},
     result : Results]

\* The node list of a configuration, as one node sees it.
NodeList(n, v) == IF v = 0 THEN <<n>> ELSE Views[v]
Knows(n, p) == \E i \in 1..Len(NodeList(n, conf[n])) : NodeList(n, conf[n])[i] = p

\* locate_key needs the space; a node without it answers "unknown space".
Primary(n) == Replicas[layout[n]][1]
IsPrimary(n) == schema[n] /\ Primary(n) = n

Least(S) == CHOOSE i \in S : \A j \in S : i <= j

InFlight == {o \in Ops : op[o].pc \notin {"new", "done"}}

Init ==
    /\ rec = [n \in Nodes |-> IF n \in HasSpace THEN Initial ELSE NoRec]
    /\ layout = Start
    /\ conf = Start
    /\ schema = [n \in Nodes |-> n \in HasSpace]
    /\ op \in [Ops -> {[pc |-> "new", kind |-> "get", value |-> v, expect |-> v,
                        via |-> n, at |-> n, counted |-> 0, view |-> 0, todo |-> {},
                        confirmed |-> FALSE, skipped |-> FALSE,
                        previous |-> NoRec, agreed |-> Unread, result |-> "none"]
                       : v \in {CHOOSE v \in Values : TRUE},
                         n \in {CHOOSE n \in Nodes : TRUE}}]
    /\ refused = 0
    /\ lost = 0

Fail(o) == op' = [op EXCEPT ![o].pc = "done", ![o].result = "err"]

\* The executing node answers; a forwarded request's answer has to travel.
Finish(o, result) ==
    op' = [op EXCEPT ![o].pc = IF op[o].via = op[o].at THEN "done" ELSE "reply",
                     ![o].result = result]

\* A call to a peer that never reaches it.
Refuse == refused < MaxRefused /\ refused' = refused + 1 /\ UNCHANGED <<lost, rec>>
NoFault == UNCHANGED <<refused, lost>>

-------------------------------------------------------------------------------
(* Entry: HyperdexClientService::handle.                                      *)

\* A client sends a request to node n.
Begin(o, n, q) ==
    /\ op[o].pc = "new"
    /\ Cardinality(InFlight) < MaxConcurrent
    /\ op' = [op EXCEPT ![o] =
                [@ EXCEPT !.kind = q.kind, !.value = q.value, !.expect = q.expect,
                          !.via = n,
                          !.at = IF schema[n] /\ q.kind # "get" THEN Primary(n) ELSE n,
                          !.pc = IF ~schema[n] THEN "done"
                                 ELSE IF q.kind = "get" THEN "locate_get"
                                 ELSE IF Primary(n) = n THEN "confirm_start"
                                 ELSE "forward",
                          !.result = IF schema[n] THEN "none" ELSE "err"]]
    /\ UNCHANGED <<rec, nodeVars, refused, lost>>

\* forward_data_request to the supposed primary, whose handler first checks that
\* it is one (ensure_local_primary_for_key).
Forward(o) ==
    /\ op[o].pc = "forward"
    /\ UNCHANGED nodeVars
    /\ \/ /\ Knows(op[o].via, op[o].at)
          /\ IsPrimary(op[o].at)
          /\ op' = [op EXCEPT ![o].pc = "confirm_start"]
          /\ NoFault /\ UNCHANGED rec
       \/ /\ ~Knows(op[o].via, op[o].at) \/ ~IsPrimary(op[o].at)
          /\ Fail(o)
          /\ NoFault /\ UNCHANGED rec
       \/ Refuse /\ Fail(o)

\* A forwarded request's answer arrives or is lost on the way back.
Reply(o) ==
    /\ op[o].pc = "reply"
    /\ \/ op' = [op EXCEPT ![o].pc = "done"] /\ NoFault
       \/ /\ lost < MaxLost /\ lost' = lost + 1 /\ UNCHANGED refused
          /\ Fail(o)
    /\ UNCHANGED <<rec, nodeVars>>

-------------------------------------------------------------------------------
(* confirm_local_primary_with_peers                                           *)

\* The nodes are counted in one reading of cluster_config, and visited in the order of
\* another.
ConfirmStart(o) ==
    /\ LET n == op[o].at
           list == NodeList(n, conf[n])
       IN  \/ /\ op[o].pc = "confirm_start"
              /\ op' = [op EXCEPT ![o].pc = "confirm_peers", ![o].counted = conf[n]]
           \/ /\ op[o].pc = "confirm_peers"
              /\ op' = [op EXCEPT ![o].pc = "confirm", ![o].view = conf[n],
                                  ![o].todo = {i \in 1..Len(list) : list[i] # n}]
    /\ UNCHANGED <<rec, nodeVars, refused, lost>>

\* The peer the loop asks next.
NextPeer(o) == NodeList(op[o].at, op[o].view)[Least(op[o].todo)]

\* Mutant: a peer with as many nodes as the caller counts as one that lags behind.
ValidateSameSize(p, caller, size) ==
    IF Len(NodeList(p, conf[p])) <= size THEN "unit"
    ELSE IF ~schema[p] THEN "schema_gap"
    ELSE IF Primary(p) = caller THEN "unit" ELSE "condition_failed"

\* What ValidatePrimary answers at p to a caller that counts `size` nodes.
Validate(p, caller, size) ==
    IF Len(NodeList(p, conf[p])) < size THEN "unit"
    ELSE IF ~schema[p] THEN "schema_gap"
    ELSE IF Primary(p) = caller THEN "unit" ELSE "condition_failed"

ConfirmPeer(o) ==
    /\ op[o].pc = "confirm" /\ op[o].todo # {}
    /\ UNCHANGED nodeVars
    /\ LET n == op[o].at
           p == NextPeer(o)
           rest == op[o].todo \ {Least(op[o].todo)}
           answer == Validate(p, n, Len(NodeList(n, op[o].counted)))
       IN  \/ /\ Knows(n, p) /\ answer = "unit"
              /\ op' = [op EXCEPT ![o].todo = rest, ![o].confirmed = TRUE]
              /\ NoFault /\ UNCHANGED rec
           \/ /\ Knows(n, p) /\ answer = "schema_gap"
              /\ op' = [op EXCEPT ![o].todo = rest]
              /\ NoFault /\ UNCHANGED rec
           \/ /\ ~Knows(n, p) \/ answer = "condition_failed"
              /\ Fail(o)
              /\ NoFault /\ UNCHANGED rec
           \/ /\ Refuse
              /\ op' = [op EXCEPT ![o].todo = rest, ![o].skipped = TRUE]

ConfirmDone(o) ==
    /\ op[o].pc = "confirm" /\ op[o].todo = {}
    /\ IF op[o].skipped /\ ~op[o].confirmed
       THEN Fail(o)
       ELSE op' = [op EXCEPT ![o].pc = IF op[o].kind = "cput" THEN "locate_get" ELSE "read",
                             ![o].skipped = FALSE]
    /\ UNCHANGED <<rec, nodeVars, refused, lost>>

-------------------------------------------------------------------------------
(* execute_get_with_replica_fallback: a get, or the record a conditional put  *)
(* starts from.                                                               *)

LocateGet(o) ==
    /\ op[o].pc = "locate_get"
    /\ LET v == layout[op[o].at]
       IN  op' = [op EXCEPT ![o].pc = "get", ![o].view = v,
                            ![o].todo = 1..Len(Replicas[v])]
    /\ UNCHANGED <<rec, nodeVars, refused, lost>>

NextReplica(o) == Replicas[op[o].view][Least(op[o].todo)]

\* Mutant: the first answer wins and divergence goes unnoticed.
FirstAnswer(o, record) ==
    op' = [op EXCEPT ![o].todo = @ \ {Least(@)},
                     ![o].agreed = IF @ = Unread THEN record ELSE @]

\* Two replicas that answered must agree.
Compare(o, record) ==
    IF op[o].agreed \in {Unread, record}
    THEN op' = [op EXCEPT ![o].todo = @ \ {Least(@)}, ![o].agreed = record]
    ELSE Fail(o)

GetReplica(o) ==
    /\ op[o].pc = "get" /\ op[o].todo # {}
    /\ UNCHANGED nodeVars
    /\ LET n == op[o].at
           p == NextReplica(o)
           Skip == op' = [op EXCEPT ![o].todo = @ \ {Least(@)}, ![o].skipped = TRUE]
       IN  \/ /\ p = n \/ (Knows(n, p) /\ schema[p])
              /\ Compare(o, rec[p])
              /\ NoFault /\ UNCHANGED rec
           \/ /\ p # n /\ Knows(n, p) /\ ~schema[p]
              /\ Skip
              /\ NoFault /\ UNCHANGED rec
           \/ /\ p # n /\ ~Knows(n, p)
              /\ Fail(o)
              /\ NoFault /\ UNCHANGED rec
           \/ /\ p # n
              /\ Refuse
              /\ Skip

GetDone(o) ==
    /\ op[o].pc = "get" /\ op[o].todo = {}
    /\ IF op[o].agreed = Unread THEN Fail(o)
       ELSE IF op[o].kind = "get"
       THEN op' = [op EXCEPT ![o].pc = "done", ![o].result = "ok"]
       ELSE op' = [op EXCEPT ![o].pc = "write", ![o].previous = op[o].agreed]
    /\ UNCHANGED <<rec, nodeVars, refused, lost>>

-------------------------------------------------------------------------------
(* apply_primary_put, apply_primary_delete, apply_primary_conditional_put     *)

\* Mutant: the previous record is the replicas' agreement, which a put never asked for.
ReadAgreed(o) ==
    /\ op[o].pc = "read"
    /\ op' = [op EXCEPT ![o].pc = "write", ![o].previous = op[o].agreed]
    /\ UNCHANGED <<rec, nodeVars, refused, lost>>

ReadPrevious(o) ==
    /\ op[o].pc = "read"
    /\ op' = [op EXCEPT ![o].pc = "write", ![o].previous = rec[op[o].at]]
    /\ UNCHANGED <<rec, nodeVars, refused, lost>>

\* What the mutation leaves behind.
Written(o) == IF op[o].kind = "delete" THEN NoRec ELSE op[o].value

\* Mutant: the condition is evaluated on the record the replicas agreed on earlier.
PassesOnAgreed(o) == op[o].kind = "cput" => op[o].previous = op[o].expect

\* The condition is evaluated under the storage engine's lock, on the record as
\* it is now and not as the replicas reported it.
Passes(o) == op[o].kind = "cput" => rec[op[o].at] = op[o].expect

\* The engine merges the mutations into the record.  The record here is the one thing
\* every put sets, so that a put replaces it.
WriteLocal(o) ==
    /\ op[o].pc = "write"
    /\ \/ /\ Passes(o)
          /\ rec' = [rec EXCEPT ![op[o].at] = Written(o)]
          /\ op' = [op EXCEPT ![o].pc = "locate_secondaries"]
       \/ /\ ~Passes(o)
          /\ Finish(o, "condition_failed")
          /\ UNCHANGED rec
    /\ UNCHANGED <<nodeVars, refused, lost>>

\* replicate_*_to_secondaries locates the key again.
LocateSecondaries(o) ==
    /\ op[o].pc = "locate_secondaries"
    /\ LET v == layout[op[o].at]
       IN  op' = [op EXCEPT ![o].pc = "replicate", ![o].view = v,
                            ![o].todo = {i \in 1..Len(Replicas[v]) :
                                            Replicas[v][i] # op[o].at}]
    /\ UNCHANGED <<rec, nodeVars, refused, lost>>

\* Mutant: a failed fan-out is reported without restoring the local record.
ReplicateNoRollback(o) ==
    /\ op[o].pc = "replicate" /\ op[o].todo # {}
    /\ UNCHANGED nodeVars
    /\ \/ /\ rec' = [rec EXCEPT ![NextReplica(o)] = Written(o)]
          /\ op' = [op EXCEPT ![o].todo = @ \ {Least(@)}]
          /\ NoFault
       \/ Refuse /\ Finish(o, "err")

\* Mutant: an unavailable secondary is skipped, as a read skips it.
ReplicateSkips(o) ==
    /\ op[o].pc = "replicate" /\ op[o].todo # {}
    /\ UNCHANGED nodeVars
    /\ op' = [op EXCEPT ![o].todo = @ \ {Least(@)}]
    /\ \/ /\ rec' = [rec EXCEPT ![NextReplica(o)] = Written(o)]
          /\ NoFault
       \/ Refuse

\* One secondary; the first failure of any sort ends the fan-out.
ReplicateTo(o) ==
    /\ op[o].pc = "replicate" /\ op[o].todo # {}
    /\ UNCHANGED nodeVars
    /\ LET p == NextReplica(o)
           Reached == Knows(op[o].at, p) /\ schema[p]
           Applied == rec' = [rec EXCEPT ![p] = Written(o)]
           Abort == op' = [op EXCEPT ![o].pc = "rollback"]
       IN  \/ /\ Reached /\ Applied
              /\ op' = [op EXCEPT ![o].todo = @ \ {Least(@)}]
              /\ NoFault
           \/ /\ ~Reached /\ Abort
              /\ NoFault /\ UNCHANGED rec
           \/ Refuse /\ Abort
           \/ /\ Reached /\ Applied /\ Abort
              /\ lost < MaxLost /\ lost' = lost + 1 /\ UNCHANGED refused

ReplicateDone(o) ==
    /\ op[o].pc = "replicate" /\ op[o].todo = {}
    /\ Finish(o, "ok")
    /\ UNCHANGED <<rec, nodeVars, refused, lost>>

\* Mutant: the record that was there is not put back.
RollbackForgets(o) ==
    /\ op[o].pc = "rollback"
    /\ rec' = [rec EXCEPT ![op[o].at] = NoRec]
    /\ Finish(o, "err")
    /\ UNCHANGED <<nodeVars, refused, lost>>

\* restore_local_record: delete, then put the previous record if there was one.
RollbackDelete(o) ==
    /\ op[o].pc = "rollback"
    /\ rec' = [rec EXCEPT ![op[o].at] = NoRec]
    /\ IF op[o].previous = NoRec
       THEN Finish(o, "err")
       ELSE op' = [op EXCEPT ![o].pc = "restore"]
    /\ UNCHANGED <<nodeVars, refused, lost>>

RestorePut(o) ==
    /\ op[o].pc = "restore"
    /\ rec' = [rec EXCEPT ![op[o].at] = op[o].previous]
    /\ Finish(o, "err")
    /\ UNCHANGED <<nodeVars, refused, lost>>

-------------------------------------------------------------------------------
(* A node applies a newer configuration: routing first, then peers, then the  *)
(* space (apply_config_view).                                                 *)

AdoptLayout(n, v) ==
    /\ n \in Syncing /\ layout[n] = conf[n]
    /\ layout[n] < v
    /\ layout' = [layout EXCEPT ![n] = v]
    /\ UNCHANGED <<rec, conf, schema, op, refused, lost>>

AdoptConf(n) ==
    /\ conf[n] # layout[n]
    /\ conf' = [conf EXCEPT ![n] = layout[n]]
    /\ UNCHANGED <<rec, layout, schema, op, refused, lost>>

AdoptSpace(n) ==
    /\ n \in Syncing /\ ~schema[n]
    /\ layout[n] = conf[n] /\ layout[n] > 0
    /\ schema' = [schema EXCEPT ![n] = TRUE]
    /\ UNCHANGED <<rec, layout, conf, op, refused, lost>>

-------------------------------------------------------------------------------
Step(o) ==
    \/ Forward(o) \/ Reply(o)
    \/ ConfirmStart(o) \/ ConfirmPeer(o) \/ ConfirmDone(o)
    \/ LocateGet(o) \/ GetReplica(o) \/ GetDone(o)
    \/ ReadPrevious(o) \/ WriteLocal(o) \/ LocateSecondaries(o)
    \/ ReplicateTo(o) \/ ReplicateDone(o) \/ RollbackDelete(o) \/ RestorePut(o)

Adopt(n) == AdoptConf(n) \/ AdoptSpace(n) \/ \E v \in ViewIds : AdoptLayout(n, v)

Next ==
    \/ \E o \in Ops : Step(o) \/ \E n \in Entry, q \in Menu[o] : Begin(o, n, q)
    \/ \E n \in Nodes : Adopt(n)

Spec == Init /\ [][Next]_vars

-------------------------------------------------------------------------------
TypeOK ==
    /\ rec \in [Nodes -> Records]
    /\ layout \in [Nodes -> 0..Len(Views)]
    /\ conf \in [Nodes -> 0..Len(Views)]
    /\ schema \in [Nodes -> BOOLEAN]
    /\ op \in [Ops -> OpType]
    /\ refused \in 0..MaxRefused
    /\ lost \in 0..MaxLost

Done(o, result) == op[o].pc = "done" /\ op[o].result = result

\* With one secondary at most, a mutation that reports an error has left its value nowhere:
\* the fan-out of a pair fails before anything was replicated, and the primary's rollback
\* undoes the rest.  (One operation at a time, values used once, calls that fail do so
\* before they reach the peer.  With more secondaries FailedMutationLeavesPrefix is what
\* is left.)
PairFailureLeavesNoTrace ==
    \A o \in Ops : Done(o, "err") /\ op[o].kind \in {"put", "cput"}
        => \A n \in Nodes : rec[n] # op[o].value

\* A rollback undoes the write at the primary only, whatever the number of secondaries.
\* While no other operation has started, a mutation that reports an error has either
\* happened everywhere, its answer being lost on the way to where the client asked, or
\* left the primary with the record it had, and its write with the secondaries that
\* come before the one that failed.  (One configuration.)
Alone(o) == \A p \in Ops \ {o} : op[p].pc = "new"
FailedMutationLeavesPrefix ==
    \A o \in Ops : Done(o, "err") /\ op[o].kind # "get" /\ Alone(o) =>
        LET replica == Replicas[1]
            left == {i \in DOMAIN replica : rec[replica[i]] = Written(o)}
        IN  \/ left = DOMAIN replica /\ lost > 0
            \/ /\ \E last \in DOMAIN replica : left = 2..last
               /\ \A i \in DOMAIN replica \ left : rec[replica[i]] = Initial

\* A mutation is acknowledged only while every replica of the configuration it
\* was replicated under holds what it wrote, whatever failed before.  (One
\* operation at a time.)
AckMeansEveryReplica ==
    [][\A o \in Ops :
          op[o].pc = "replicate" /\ op'[o].result = "ok"
              => \A i \in 1..Len(Replicas[op[o].view]) :
                    rec[Replicas[op[o].view][i]] = Written(o)]_vars

\* The record as the clients know it: while a mutation is between its local write and
\* its answer, what was there before.
Unanswered == {o \in Ops : op[o].pc \in {"locate_secondaries", "replicate", "rollback", "restore"}}
Committed ==
    IF Unanswered = {} THEN rec[Replicas[1][1]]
    ELSE op[CHOOSE o \in Unanswered : TRUE].previous
Asked(o) == [kind |-> op[o].kind, value |-> op[o].value, expect |-> op[o].expect]
Answered(o) ==
    [status |-> op[o].result,
     record |-> IF op[o].kind = "get" /\ op[o].result = "ok" THEN op[o].agreed ELSE NoRec]
Abstract == INSTANCE Register WITH
    NoRequest <- Unread,
    value <- Committed,
    request <- [o \in Ops |-> IF op[o].pc = "new" THEN Unread ELSE Asked(o)],
    answer <- [o \in Ops |-> Answered(o)]

\* To clients that take turns the replicas are one register: through forwarding,
\* confirmation, fan-out and rollback a mutation happens completely or, when it
\* reports an error, not at all, and a get returns the last one that happened, also
\* when it reached some of the replicas only.  (One configuration, one secondary, calls
\* that fail do so before they reach the peer.)
ImplementsRegister == Abstract!Spec

\* Conditional puts that expect the same record, and write another, race.
Racers == {o \in Ops : op[o].kind = "cput"}
Race ==
    /\ \A o \in Ops : op[o].kind \in {"cput", "get"}
    /\ \A o \in Racers : op[o].value # op[o].expect
    /\ \A o1, o2 \in Racers : op[o1].expect = op[o2].expect

\* Of any number of conditional puts that expect the same record, only one is
\* ever acknowledged, however their agreement reads, writes, fan-outs and rollbacks
\* interleave with each other and with gets.  (One configuration.  Another mutation
\* could bring the expected record back: a put, and also a delete or a conditional
\* put of the next record, whose rollback restores what was there before.)
CasExclusion ==
    Race => \A o1, o2 \in Racers : Done(o1, "ok") /\ Done(o2, "ok") => o1 = o2

\* A value names the operation that writes it, and is not what was there before.
Writes(q) == q.kind \in {"put", "cput"}
ValuesNameWriters ==
    /\ \A o \in Ops : \A q \in Menu[o] : Writes(q) => q.value # Initial
    /\ \A o1, o2 \in Ops : \A q1 \in Menu[o1], q2 \in Menu[o2] :
          Writes(q1) /\ Writes(q2) /\ q1.value = q2.value => o1 = o2

\* A get that heard from every replica never returns a value whose writer goes on
\* to fail: agreement of all replicas means the fan-out was complete.  (One
\* configuration, values that name their writers; as long as no answer was lost.)
CompleteGetIsCommitted ==
    lost = 0 => \A g, w \in Ops :
        /\ Done(g, "ok") /\ op[g].kind = "get" /\ ~op[g].skipped
        /\ op[w].kind \in {"put", "cput"} /\ op[w].value = op[g].agreed
        => ~Done(w, "err")

\* A peer whose routing is newer than the caller's, and has another primary,
\* always stops the mutation when it answers: comparing cluster sizes never
\* mistakes it for a peer that lags behind, not even while it is between
\* adopting the new routing and the new node list.  (As long as the list it has
\* is not older than the caller's routing: a peer that skips a configuration may
\* for that moment count fewer nodes than the caller, and agrees.)
NewerPeerVetoes ==
    [][\A o \in Ops :
          /\ op[o].pc = "confirm" /\ op[o].todo # {} /\ op'[o] # op[o]
          /\ layout[NextPeer(o)] > layout[op[o].at]
          /\ conf[NextPeer(o)] >= layout[op[o].at]
          /\ schema[NextPeer(o)] /\ Primary(NextPeer(o)) # op[o].at
          => Done(o, "err")' \/ op'[o].skipped]_vars

\* A node whose routing is stale never writes locally while a peer of its own
\* node list has newer routing that names another primary.
StalePrimaryRejected ==
    [][\A o \in Ops :
          op[o].pc = "write" /\ op'[o].pc = "locate_secondaries"
              => \A p \in Nodes :
                    /\ Knows(op[o].at, p) /\ schema[p]
                    /\ layout[p] > layout[op[o].at]
                    => Primary(p) = op[o].at]_vars
===============================================================================
