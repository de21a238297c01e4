--------------------------- MODULE ReplicationProofs ---------------------------
(* Proofs about Replication, for every number of daemons, replicas, values,   *)
(* operations and configurations, and for every bound.                        *)
EXTENDS Replication, TLAPS, WellFoundedInduction

\* A node adopts routing before peers and peers before the space.
NodesInOrder ==
    \A n \in Nodes : conf[n] <= layout[n] /\ (schema[n] => conf[n] > 0)

\* The progress r of an operation: the executing node knows the space, the positions
\* still to visit exist in the list being visited, the lists a primary counts and
\* confirms with are not newer than its routing, and nothing is answered early.
Sound(r) ==
    /\ r \in OpType
    /\ r.pc \notin {"new", "forward", "done"} => schema[r.at]
    /\ r.pc \in {"confirm_peers", "confirm"} => r.counted <= layout[r.at]
    /\ r.pc = "confirm" =>
          /\ r.view <= layout[r.at]
          /\ r.todo \subseteq 1..Len(NodeList(r.at, r.view))
    /\ r.pc \in {"get", "replicate"} =>
          r.view \in ViewIds /\ r.todo \subseteq 1..Len(Replicas[r.view])
    /\ r.pc \notin {"reply", "done"} => r.result = "none"
    /\ r.pc = "new" => r.kind = "get"
    /\ r.kind = "get" => r.pc \in {"new", "locate_get", "get", "done"}

BaseInv == TypeOK /\ NodesInOrder /\ \A o \in Ops : Sound(op[o])

-------------------------------------------------------------------------------
\* A non-empty set of positions has a least one.
LEMMA LeastIsMinimum ==
    ASSUME NEW S \in SUBSET Nat, S # {}
    PROVE  Least(S) \in S /\ \A j \in S : Least(S) <= j
<1> DEFINE R == OpToRel(<, Nat)
<1>1. R = {ss \in Nat \X Nat : ss[1] < ss[2]}
    BY Zenon DEF OpToRel
<1>2. PICK x \in S : \A y \in S : ~ (<<y, x>> \in R)
    BY NatLessThanWellFounded, WFMin
<1> HIDE DEF R
<1>3. \A y \in S : x <= y
  <2> SUFFICES ASSUME NEW y \in S, ~(x <= y) PROVE FALSE
    OBVIOUS
  <2>1. <<y, x>> \in Nat \X Nat /\ <<y, x>>[1] < <<y, x>>[2]
    OBVIOUS
  <2>2. <<y, x>> \in R
    BY <1>1, <2>1, Zenon
  <2>3. QED
    BY <1>2, <2>2
<1>4. QED
    BY <1>3 DEF Least

\* Failing and answering keep an operation's progress sound.
LEMMA EndIsSound ==
    ASSUME NEW r, Sound(r)
    PROVE  /\ Sound([r EXCEPT !.pc = "done", !.result = "err"])
           /\ r.pc = "reply" => Sound([r EXCEPT !.pc = "done"])
           /\ r.pc \notin {"new", "forward", "done"} /\ r.kind # "get" =>
                 \A answer \in Results :
                    Sound([r EXCEPT !.pc = IF r.via = r.at THEN "done" ELSE "reply",
                                    !.result = answer])
<1>1. Sound([r EXCEPT !.pc = "done", !.result = "err"])
    BY DEF Sound, OpType, Phases, Results
<1>2. ASSUME r.pc = "reply" PROVE Sound([r EXCEPT !.pc = "done"])
    BY <1>2 DEF Sound, OpType, Phases, Results
<1>3. ASSUME r.pc \notin {"new", "forward", "done"}, r.kind # "get", NEW answer \in Results,
             NEW x \in {"done", "reply"}
      PROVE  Sound([r EXCEPT !.pc = x, !.result = answer])
    BY <1>3 DEF Sound, OpType, Phases
<1>4. QED
    BY <1>1, <1>2, <1>3

\* Failing and answering change the progress of one operation.
LEMMA EndOfOne ==
    ASSUME NEW o \in Ops, op \in [Ops -> OpType]
    PROVE  /\ Fail(o) => op' = [op EXCEPT ![o] = [op[o] EXCEPT !.pc = "done", !.result = "err"]]
           /\ \A answer : Finish(o, answer) =>
                 op' = [op EXCEPT ![o] = [op[o] EXCEPT
                           !.pc = IF op[o].via = op[o].at THEN "done" ELSE "reply",
                           !.result = answer]]
BY DEF Fail, Finish, OpType

\* An operation that starts to visit a list.
LEMMA VisitType ==
    ASSUME NEW c \in OpType, NEW x \in Phases, NEW v \in 0..Len(Views), NEW left \in SUBSET Nat
    PROVE  [c EXCEPT !.pc = x, !.view = v, !.todo = left] \in OpType
BY DEF OpType

\* An operation that moves on soundly leaves the rest as it was.
LEMMA OneMoves ==
    ASSUME BaseInv, NEW o \in Ops, NEW r, Sound(r), op' = [op EXCEPT ![o] = r],
           UNCHANGED nodeVars, rec' \in [Nodes -> Records],
           refused' \in 0..MaxRefused, lost' \in 0..MaxLost
    PROVE  BaseInv'
<1>1. NodesInOrder'
    BY DEF BaseInv, NodesInOrder, nodeVars
<1>2. \A x : Sound(x)' <=> Sound(x)
    BY DEF Sound, nodeVars, NodeList
<1>3. op' \in [Ops -> OpType] /\ \A x \in Ops : Sound(op'[x])
    BY DEF BaseInv, TypeOK, Sound
<1>4. QED
    BY <1>1, <1>2, <1>3 DEF BaseInv, TypeOK, nodeVars

\* The bounds on faults are kept.
LEMMA FaultsBounded ==
    ASSUME TypeOK
    PROVE  /\ Refuse => refused' \in 0..MaxRefused /\ lost' \in 0..MaxLost
                        /\ rec' \in [Nodes -> Records]
           /\ NoFault => refused' \in 0..MaxRefused /\ lost' \in 0..MaxLost
           /\ lost < MaxLost /\ lost' = lost + 1 => lost' \in 0..MaxLost
BY BoundAssumption DEF TypeOK, Refuse, NoFault

\* An operation that fails leaves the rest as it was.
LEMMA OneFails ==
    ASSUME BaseInv, NEW o \in Ops, Fail(o), UNCHANGED nodeVars,
           Refuse \/ (NoFault /\ UNCHANGED rec)
    PROVE  BaseInv'
<1> DEFINE r == [op[o] EXCEPT !.pc = "done", !.result = "err"]
<1>1. Sound(r) /\ op' = [op EXCEPT ![o] = r]
    BY EndIsSound, EndOfOne DEF BaseInv, TypeOK
<1>2. rec' \in [Nodes -> Records] /\ refused' \in 0..MaxRefused /\ lost' \in 0..MaxLost
    BY FaultsBounded DEF BaseInv, TypeOK
<1> HIDE DEF r
<1>3. QED
    BY <1>1, <1>2, OneMoves

\* The configuration a node routes by, once it knows the space.
LEMMA RoutingExists ==
    ASSUME BaseInv, NEW n \in Nodes, schema[n]
    PROVE  layout[n] \in ViewIds /\ conf[n] \in ViewIds
BY ViewsAssumption DEF BaseInv, TypeOK, NodesInOrder, ViewIds

\* The replica visited next is one of the positions to visit.
LEMMA ReplicaIsNode ==
    ASSUME BaseInv, NEW o \in Ops, op[o].pc \in {"get", "replicate"}, op[o].todo # {}
    PROVE  /\ op[o].view \in ViewIds
           /\ Least(op[o].todo) \in op[o].todo
           /\ Least(op[o].todo) \in 1..Len(Replicas[op[o].view])
           /\ NextReplica(o) \in Nodes
<1>1. op[o].view \in ViewIds /\ op[o].todo \subseteq 1..Len(Replicas[op[o].view])
    BY DEF BaseInv, Sound
<1>2. op[o].todo \in SUBSET Nat
    BY DEF BaseInv, Sound, OpType
<1>3. Least(op[o].todo) \in op[o].todo
    BY <1>2, LeastIsMinimum
<1>4. QED
    BY <1>1, <1>3, ViewsAssumption DEF NextReplica

\* A change of the phase changes nothing else.
LEMMA PhaseOfOne ==
    ASSUME NEW c \in OpType, NEW x \in Phases
    PROVE  /\ [c EXCEPT !.pc = x] \in OpType /\ [c EXCEPT !.pc = x].pc = x
           /\ \A f \in {"at", "kind", "result", "counted", "view", "todo"} :
                 [c EXCEPT !.pc = x][f] = c[f]
BY DEF OpType

\* The invariant holds at the start.
LEMMA BaseInit == Init => BaseInv
<1> SUFFICES ASSUME Init PROVE BaseInv
    OBVIOUS
<1> DEFINE v == CHOOSE v \in Values : TRUE
           n == CHOOSE n \in Nodes : TRUE
           blank == [pc |-> "new", kind |-> "get", value |-> v, expect |-> v,
                     via |-> n, at |-> n, counted |-> 0, view |-> 0, todo |-> {},
                     confirmed |-> FALSE, skipped |-> FALSE,
                     previous |-> NoRec, agreed |-> Unread, result |-> "none"]
<1>1. v \in Values /\ n \in Nodes
    BY SomeAssumption
<1>2. Sound(blank)
  <2> HIDE DEF v, n
  <2> QED
    BY <1>1, ViewsAssumption DEF Sound, OpType, Phases, Kinds, Records, Results
<1>3. op \in [Ops -> {blank}]
    BY DEF Init
<1> HIDE DEF blank
<1>4. op \in [Ops -> OpType] /\ \A o \in Ops : Sound(op[o])
    BY <1>2, <1>3 DEF Sound
<1>5. TypeOK
    BY <1>4, StartAssumption, RecordAssumption, BoundAssumption DEF Init, TypeOK, Records
<1>6. NodesInOrder
  <2>1. \A m \in Nodes : Start[m] \in Nat
    BY StartAssumption, ViewsAssumption
  <2>2. \A m \in Nodes : schema[m] => Start[m] > 0
    BY StartAssumption, Zenon DEF Init
  <2>3. conf = Start /\ layout = Start
    BY DEF Init
  <2>4. QED
    BY <2>1, <2>2, <2>3 DEF NodesInOrder
<1>7. QED
    BY <1>4, <1>5, <1>6 DEF BaseInv

\* Every step of every operation, and every adoption, preserves it.
LEMMA BaseStep == BaseInv /\ [Next]_vars => BaseInv'
<1> SUFFICES ASSUME BaseInv, [Next]_vars PROVE BaseInv'
    OBVIOUS
<1>0. /\ TypeOK /\ NodesInOrder /\ op \in [Ops -> OpType]
      /\ \A o \in Ops : Sound(op[o])
    BY DEF BaseInv, TypeOK
<1>1. ASSUME NEW o \in Ops, Forward(o) PROVE BaseInv'
  <2> DEFINE r == [op[o] EXCEPT !.pc = "confirm_start"]
  <2>1. UNCHANGED nodeVars /\ op[o].pc = "forward" /\ op[o].kind # "get"
    BY <1>0, <1>1 DEF Forward, Sound
  <2>2. CASE op' = [op EXCEPT ![o].pc = "confirm_start"] /\ IsPrimary(op[o].at) /\ NoFault /\ UNCHANGED rec
    <3>1. Sound(r)
      <4>1. op[o] \in OpType /\ Sound(op[o]) /\ "confirm_start" \in Phases /\ schema[op[o].at]
        BY <1>0, <2>2 DEF Phases, IsPrimary
      <4>2. QED
        BY <2>1, <4>1, PhaseOfOne DEF Sound
    <3>2. op' = [op EXCEPT ![o] = r]
        BY <1>0, <2>2 DEF OpType
    <3>3. QED
        BY <1>0, <2>1, <2>2, <3>1, <3>2, OneMoves, FaultsBounded DEF TypeOK
  <2>3. CASE Fail(o) /\ (Refuse \/ (NoFault /\ UNCHANGED rec))
    BY <2>1, <2>3, OneFails
  <2>4. QED
    BY <1>1, <2>2, <2>3 DEF Forward
<1>2. ASSUME NEW o \in Ops, Reply(o) PROVE BaseInv'
  <2>1. UNCHANGED <<rec, nodeVars>> /\ op[o].pc = "reply"
    BY <1>2 DEF Reply
  <2>2. CASE op' = [op EXCEPT ![o].pc = "done"] /\ NoFault
    <3> DEFINE r == [op[o] EXCEPT !.pc = "done"]
    <3>1. Sound(r) /\ op' = [op EXCEPT ![o] = r]
        BY <1>0, <2>1, <2>2, EndIsSound DEF OpType
    <3> HIDE DEF r
    <3>2. QED
        BY <1>0, <2>1, <2>2, <3>1, OneMoves, FaultsBounded DEF TypeOK
  <2>3. CASE lost < MaxLost /\ lost' = lost + 1 /\ UNCHANGED refused /\ Fail(o)
    <3> DEFINE r == [op[o] EXCEPT !.pc = "done", !.result = "err"]
    <3>1. Sound(r) /\ op' = [op EXCEPT ![o] = r]
        BY <1>0, <2>3, EndIsSound, EndOfOne
    <3> HIDE DEF r
    <3>2. QED
        BY <1>0, <2>1, <2>3, <3>1, OneMoves, FaultsBounded DEF TypeOK
  <2>4. QED
    BY <1>2, <2>2, <2>3 DEF Reply
<1>3. ASSUME NEW o \in Ops, ConfirmStart(o) PROVE BaseInv'
  <2> DEFINE n == op[o].at
             list == NodeList(n, conf[n])
             left == {i \in 1..Len(list) : list[i] # n}
             r == [op[o] EXCEPT !.pc = "confirm", !.view = conf[n], !.todo = left]
             c == [op[o] EXCEPT !.pc = "confirm_peers", !.counted = conf[n]]
  <2>1. /\ op[o].pc \in {"confirm_start", "confirm_peers"}
        /\ UNCHANGED <<rec, nodeVars, refused, lost>>
    BY <1>3 DEF ConfirmStart
  <2>2. n \in Nodes /\ schema[n] /\ conf[n] \in 0..Len(Views) /\ conf[n] <= layout[n]
    BY <1>0, <2>1 DEF Sound, OpType, TypeOK, NodesInOrder
  <2>3. left \subseteq 1..Len(list) /\ left \in SUBSET Nat
    OBVIOUS
  <2>4. CASE op[o].pc = "confirm_start"
    <3>1. op' = [op EXCEPT ![o].pc = "confirm_peers", ![o].counted = conf[n]]
        BY <1>3, <2>4 DEF ConfirmStart
    <3>2. op' = [op EXCEPT ![o] = c]
        BY <1>0, <3>1 DEF OpType
    <3>3. /\ c \in OpType /\ c.at = n /\ c.result = op[o].result /\ c.kind = op[o].kind
          /\ c.pc = "confirm_peers" /\ c.counted = conf[n]
      <4>1. op[o] \in OpType /\ "confirm_peers" \in Phases
        BY <1>0 DEF Phases
      <4>2. QED
        BY <2>2, <4>1 DEF OpType
    <3> HIDE DEF c
    <3>4. Sound(c)
        BY <1>0, <2>2, <2>4, <3>3 DEF Sound
    <3>5. QED
        BY <1>0, <2>1, <3>2, <3>4, OneMoves DEF TypeOK
  <2> SUFFICES ASSUME op[o].pc = "confirm_peers" PROVE BaseInv'
    BY <2>1, <2>4
  <2>9. op' = [op EXCEPT ![o].pc = "confirm", ![o].view = conf[n], ![o].todo = left]
    BY <1>3 DEF ConfirmStart
  <2> HIDE DEF left
  <2>5. op' = [op EXCEPT ![o] = r]
    BY <1>0, <2>9 DEF OpType
  <2>6. /\ r \in OpType /\ r.at = n /\ r.result = op[o].result /\ r.kind = op[o].kind
        /\ r.pc = "confirm" /\ r.view = conf[n] /\ r.todo = left /\ r.counted = op[o].counted
    <3>1. op[o] \in OpType /\ "confirm" \in Phases
        BY <1>0 DEF Phases
    <3>2. r \in OpType
        BY <2>2, <2>3, <3>1, VisitType
    <3>3. QED
        BY <3>1, <3>2 DEF OpType
  <2> HIDE DEF r
  <2>7. Sound(r)
    BY <1>0, <2>1, <2>2, <2>3, <2>6 DEF Sound
  <2>8. QED
    BY <1>0, <2>1, <2>5, <2>7, OneMoves DEF TypeOK
<1>4. ASSUME NEW o \in Ops, ConfirmPeer(o) PROVE BaseInv'
  <2> DEFINE rest == op[o].todo \ {Least(op[o].todo)}
             faulty == Refuse \/ (NoFault /\ UNCHANGED rec)
  <2>1. op[o].pc = "confirm" /\ UNCHANGED nodeVars
    BY <1>4 DEF ConfirmPeer
  <2>2. ASSUME NEW c \in BOOLEAN, NEW s \in BOOLEAN, faulty,
               op' = [op EXCEPT ![o] = [op[o] EXCEPT !.todo = rest, !.confirmed = c, !.skipped = s]]
        PROVE  BaseInv'
    <3> DEFINE r == [op[o] EXCEPT !.todo = rest, !.confirmed = c, !.skipped = s]
    <3>1. Sound(r)
        BY <1>0, <2>1, ZenonT(30) DEF Sound, OpType
    <3>2. rec' \in [Nodes -> Records] /\ refused' \in 0..MaxRefused /\ lost' \in 0..MaxLost
        BY <1>0, <2>2, FaultsBounded DEF TypeOK
    <3> HIDE DEF r
    <3>3. QED
        BY <1>0, <2>1, <2>2, <3>1, <3>2, OneMoves DEF r
  <2> HIDE DEF rest, faulty
  <2>3. ASSUME faulty,
               \/ op' = [op EXCEPT ![o].todo = rest, ![o].confirmed = TRUE]
               \/ op' = [op EXCEPT ![o].todo = rest]
               \/ op' = [op EXCEPT ![o].todo = rest, ![o].skipped = TRUE]
        PROVE  BaseInv'
    <3> DEFINE c == op'[o].confirmed
               s == op'[o].skipped
    <3>1. c \in BOOLEAN /\ s \in BOOLEAN
        BY <1>0, <2>3 DEF OpType
    <3>2. op' = [op EXCEPT ![o] = [op[o] EXCEPT !.todo = rest, !.confirmed = c, !.skipped = s]]
        BY <1>0, <2>3 DEF OpType
    <3> HIDE DEF c, s
    <3>3. QED
        BY <2>2, <2>3, <3>1, <3>2
  <2>4. CASE Fail(o) /\ faulty
    BY <2>1, <2>4, OneFails DEF faulty
  <2>5. QED
    BY <1>4, <2>3, <2>4 DEF ConfirmPeer, rest, faulty
<1>5. ASSUME NEW o \in Ops, ConfirmDone(o) PROVE BaseInv'
  <2>1. op[o].pc = "confirm" /\ UNCHANGED <<rec, nodeVars, refused, lost>>
    BY <1>5 DEF ConfirmDone
  <2>2. CASE Fail(o)
    BY <2>1, <2>2, OneFails DEF NoFault, nodeVars
  <2>3. ASSUME NEW x \in {"locate_get", "read"},
               op' = [op EXCEPT ![o].pc = x, ![o].skipped = FALSE]
        PROVE  BaseInv'
    <3> DEFINE r == [op[o] EXCEPT !.pc = x, !.skipped = FALSE]
    <3>1. Sound(r) /\ op' = [op EXCEPT ![o] = r]
        BY <1>0, <2>1, <2>3, ZenonT(30) DEF Sound, OpType, Phases
    <3> HIDE DEF r
    <3>2. QED
        BY <1>0, <2>1, <3>1, OneMoves DEF TypeOK
  <2>4. QED
    BY <1>5, <2>2, <2>3 DEF ConfirmDone
<1>6. ASSUME NEW o \in Ops, LocateGet(o) PROVE BaseInv'
  <2> DEFINE v == layout[op[o].at]
             r == [op[o] EXCEPT !.pc = "get", !.view = v, !.todo = 1..Len(Replicas[v])]
  <2>1. op[o].pc = "locate_get" /\ UNCHANGED <<rec, nodeVars, refused, lost>>
    BY <1>6 DEF LocateGet
  <2>2. v \in ViewIds
    BY <1>0, <2>1, RoutingExists DEF Sound, OpType
  <2>3. 1..Len(Replicas[v]) \in SUBSET Nat
    BY <2>2, ViewsAssumption
  <2>4. op' = [op EXCEPT ![o] = r]
    BY <1>0, <1>6 DEF LocateGet, OpType
  <2> HIDE DEF r, v
  <2>5. Sound(r)
    <3>1. /\ r \in OpType /\ r.at = op[o].at /\ r.result = op[o].result /\ r.kind = op[o].kind
          /\ r.pc = "get" /\ r.view = v /\ r.todo = 1..Len(Replicas[v])
      <4>1. op[o] \in OpType /\ "get" \in Phases /\ v \in 0..Len(Views)
        BY <1>0, <2>2, ViewsAssumption DEF Phases, ViewIds
      <4>2. r \in OpType
        BY <2>3, <4>1, VisitType DEF r
      <4>3. QED
        BY <4>1, <4>2 DEF r, OpType
    <3>2. QED
        BY <1>0, <2>1, <2>2, <3>1 DEF Sound
  <2>6. QED
    BY <1>0, <2>1, <2>4, <2>5, OneMoves DEF TypeOK
<1>7. ASSUME NEW o \in Ops, GetReplica(o) PROVE BaseInv'
  <2> DEFINE p == NextReplica(o)
             faulty == Refuse \/ (NoFault /\ UNCHANGED rec)
             rest == op[o].todo \ {Least(op[o].todo)}
  <2>1. op[o].pc = "get" /\ op[o].todo # {} /\ UNCHANGED nodeVars
    BY <1>7 DEF GetReplica
  <2>2. rec[p] \in Records
    BY <1>0, <2>1, ReplicaIsNode DEF TypeOK
  <2>3. ASSUME NEW a \in Records \cup {Unread}, NEW s \in BOOLEAN, faulty,
               op' = [op EXCEPT ![o] = [op[o] EXCEPT !.todo = rest, !.agreed = a, !.skipped = s]]
        PROVE  BaseInv'
    <3> DEFINE r == [op[o] EXCEPT !.todo = rest, !.agreed = a, !.skipped = s]
    <3>1. Sound(r)
        BY <1>0, <2>1, ZenonT(30) DEF Sound, OpType
    <3>2. rec' \in [Nodes -> Records] /\ refused' \in 0..MaxRefused /\ lost' \in 0..MaxLost
        BY <1>0, <2>3, FaultsBounded DEF TypeOK
    <3> HIDE DEF r
    <3>3. QED
        BY <1>0, <2>1, <2>3, <3>1, <3>2, OneMoves DEF r
  <2>4. CASE Compare(o, rec[p]) /\ NoFault /\ UNCHANGED rec
    <3>1. CASE op' = [op EXCEPT ![o].todo = @ \ {Least(@)}, ![o].agreed = rec[p]]
      <4> DEFINE a == rec[p]
      <4>1. op' = [op EXCEPT ![o] = [op[o] EXCEPT !.todo = rest, !.agreed = a,
                                                  !.skipped = op[o].skipped]]
        BY <1>0, <3>1 DEF OpType
      <4>2. op[o].skipped \in BOOLEAN /\ a \in Records \cup {Unread}
        BY <1>0, <2>2 DEF OpType
      <4> HIDE DEF a, rest
      <4>3. QED
        BY <2>3, <2>4, <4>1, <4>2
    <3>2. CASE Fail(o)
        BY <2>1, <2>4, <3>2, OneFails
    <3>3. QED
        BY <2>4, <3>1, <3>2 DEF Compare
  <2>5. CASE op' = [op EXCEPT ![o].todo = @ \ {Least(@)}, ![o].skipped = TRUE] /\ faulty
    <3>1. op' = [op EXCEPT ![o] = [op[o] EXCEPT !.todo = rest, !.agreed = op[o].agreed,
                                                !.skipped = TRUE]]
        BY <1>0, <2>5 DEF OpType
    <3>2. op[o].agreed \in Records \cup {Unread}
        BY <1>0 DEF OpType
    <3> HIDE DEF rest, faulty
    <3>3. QED
        BY <2>3, <2>5, <3>1, <3>2
  <2>6. CASE Fail(o) /\ faulty
    BY <2>1, <2>6, OneFails
  <2>7. QED
    BY <1>7, <2>4, <2>5, <2>6 DEF GetReplica
<1>8. ASSUME NEW o \in Ops, GetDone(o) PROVE BaseInv'
  <2>1. op[o].pc = "get" /\ UNCHANGED <<rec, nodeVars, refused, lost>>
    BY <1>8 DEF GetDone
  <2>2. CASE Fail(o)
    BY <2>1, <2>2, OneFails DEF NoFault, nodeVars
  <2>3. CASE op' = [op EXCEPT ![o].pc = "done", ![o].result = "ok"]
    <3> DEFINE r == [op[o] EXCEPT !.pc = "done", !.result = "ok"]
    <3>1. Sound(r) /\ op' = [op EXCEPT ![o] = r]
        BY <1>0, <2>1, <2>3 DEF Sound, OpType, Phases, Results
    <3> HIDE DEF r
    <3>2. QED
        BY <1>0, <2>1, <3>1, OneMoves DEF TypeOK
  <2>4. CASE /\ op[o].agreed # Unread /\ op[o].kind # "get"
             /\ op' = [op EXCEPT ![o].pc = "write", ![o].previous = op[o].agreed]
    <3> DEFINE r == [op[o] EXCEPT !.pc = "write", !.previous = op[o].agreed]
    <3>1. Sound(r) /\ op' = [op EXCEPT ![o] = r]
        BY <1>0, <2>1, <2>4, ZenonT(30) DEF Sound, OpType, Phases
    <3> HIDE DEF r
    <3>2. QED
        BY <1>0, <2>1, <3>1, OneMoves DEF TypeOK
  <2>5. QED
    BY <1>8, <2>2, <2>3, <2>4 DEF GetDone
<1>9. ASSUME NEW o \in Ops, ReadPrevious(o) PROVE BaseInv'
  <2> DEFINE r == [op[o] EXCEPT !.pc = "write", !.previous = rec[op[o].at]]
  <2>1. op[o].pc = "read" /\ UNCHANGED <<rec, nodeVars, refused, lost>>
    BY <1>9 DEF ReadPrevious
  <2>2. rec[op[o].at] \in Records
    BY <1>0 DEF TypeOK, OpType
  <2>3. Sound(r) /\ op' = [op EXCEPT ![o] = r]
    BY <1>0, <1>9, <2>1, <2>2, ZenonT(30) DEF ReadPrevious, Sound, OpType, Phases
  <2> HIDE DEF r
  <2>4. QED
    BY <1>0, <2>1, <2>3, OneMoves DEF TypeOK
<1>10. ASSUME NEW o \in Ops, WriteLocal(o) PROVE BaseInv'
  <2>1. op[o].pc = "write" /\ UNCHANGED <<nodeVars, refused, lost>>
    BY <1>10 DEF WriteLocal
  <2>2. Written(o) \in Records /\ op[o].at \in Nodes /\ op[o].kind # "get"
    BY <1>0, <2>1 DEF Written, Records, OpType, Sound
  <2>3. CASE rec' = [rec EXCEPT ![op[o].at] = Written(o)] /\ op' = [op EXCEPT ![o].pc = "locate_secondaries"]
    <3> DEFINE r == [op[o] EXCEPT !.pc = "locate_secondaries"]
    <3>1. Sound(r) /\ op' = [op EXCEPT ![o] = r]
        BY <1>0, <2>1, <2>3, ZenonT(30) DEF Sound, OpType, Phases
    <3>2. rec' \in [Nodes -> Records]
        BY <1>0, <2>2, <2>3 DEF TypeOK
    <3> HIDE DEF r
    <3>3. QED
        BY <1>0, <2>1, <3>1, <3>2, OneMoves DEF TypeOK
  <2>4. CASE Finish(o, "condition_failed") /\ UNCHANGED rec
    <3> DEFINE r == [op[o] EXCEPT !.pc = IF op[o].via = op[o].at THEN "done" ELSE "reply",
                                  !.result = "condition_failed"]
    <3>1. Sound(r) /\ op' = [op EXCEPT ![o] = r]
        BY <1>0, <2>1, <2>2, <2>4, EndIsSound, EndOfOne DEF Results
    <3> HIDE DEF r
    <3>2. QED
        BY <1>0, <2>1, <2>4, <3>1, OneMoves DEF TypeOK
  <2>5. QED
    BY <1>10, <2>3, <2>4 DEF WriteLocal
<1>11. ASSUME NEW o \in Ops, LocateSecondaries(o) PROVE BaseInv'
  <2> DEFINE v == layout[op[o].at]
             left == {i \in 1..Len(Replicas[v]) : Replicas[v][i] # op[o].at}
             r == [op[o] EXCEPT !.pc = "replicate", !.view = v, !.todo = left]
  <2>1. op[o].pc = "locate_secondaries" /\ UNCHANGED <<rec, nodeVars, refused, lost>>
    BY <1>11 DEF LocateSecondaries
  <2>2. v \in ViewIds
    BY <1>0, <2>1, RoutingExists DEF Sound, OpType
  <2>3. left \in SUBSET Nat /\ left \subseteq 1..Len(Replicas[v])
    BY <2>2, ViewsAssumption
  <2>4. op' = [op EXCEPT ![o].pc = "replicate", ![o].view = v, ![o].todo = left]
    BY <1>11 DEF LocateSecondaries
  <2> HIDE DEF left
  <2>5. op' = [op EXCEPT ![o] = r]
    BY <1>0, <2>4 DEF OpType
  <2> HIDE DEF r, v
  <2>6. Sound(r)
    <3>1. /\ r \in OpType /\ r.at = op[o].at /\ r.result = op[o].result /\ r.kind = op[o].kind
          /\ r.pc = "replicate" /\ r.view = v /\ r.todo = left
      <4>1. op[o] \in OpType /\ "replicate" \in Phases /\ v \in 0..Len(Views)
        BY <1>0, <2>2, ViewsAssumption DEF Phases, ViewIds
      <4>2. r \in OpType
        BY <2>3, <4>1, VisitType DEF r
      <4>3. QED
        BY <4>1, <4>2 DEF r, OpType
    <3>2. QED
        BY <1>0, <2>1, <2>2, <2>3, <3>1 DEF Sound
  <2>7. QED
    BY <1>0, <2>1, <2>5, <2>6, OneMoves DEF TypeOK
<1>12. ASSUME NEW o \in Ops, ReplicateTo(o) PROVE BaseInv'
  <2> DEFINE p == NextReplica(o)
             Applied == rec' = [rec EXCEPT ![p] = Written(o)]
             Abort == op' = [op EXCEPT ![o].pc = "rollback"]
  <2>1. op[o].pc = "replicate" /\ op[o].todo # {} /\ UNCHANGED nodeVars
    BY <1>12 DEF ReplicateTo
  <2>2. Written(o) \in Records /\ p \in Nodes
    BY <1>0, <2>1, ReplicaIsNode DEF Written, Records, OpType
  <2>3. Applied => rec' \in [Nodes -> Records]
    BY <1>0, <2>2 DEF TypeOK
  <2>4. UNCHANGED rec => rec' \in [Nodes -> Records]
    BY <1>0 DEF TypeOK
  <2>5. /\ rec' \in [Nodes -> Records]
        /\ refused' \in 0..MaxRefused /\ lost' \in 0..MaxLost
        /\ Abort \/ op' = [op EXCEPT ![o].todo = @ \ {Least(@)}]
    BY <1>0, <1>12, <2>3, <2>4, FaultsBounded DEF ReplicateTo, TypeOK
  <2>6. CASE Abort
    <3> DEFINE r == [op[o] EXCEPT !.pc = "rollback"]
    <3>1. Sound(r) /\ op' = [op EXCEPT ![o] = r]
        BY <1>0, <2>1, <2>6 DEF Sound, OpType, Phases
    <3> HIDE DEF r
    <3>2. QED
        BY <2>1, <2>5, <3>1, OneMoves
  <2>7. CASE op' = [op EXCEPT ![o].todo = @ \ {Least(@)}]
    <3> DEFINE r == [op[o] EXCEPT !.todo = @ \ {Least(@)}]
    <3>1. Sound(r) /\ op' = [op EXCEPT ![o] = r]
        BY <1>0, <2>1, <2>7 DEF Sound, OpType
    <3> HIDE DEF r
    <3>2. QED
        BY <2>1, <2>5, <3>1, OneMoves
  <2>8. QED
    BY <2>5, <2>6, <2>7
<1>13. ASSUME NEW o \in Ops, ReplicateDone(o) PROVE BaseInv'
  <2> DEFINE r == [op[o] EXCEPT !.pc = IF op[o].via = op[o].at THEN "done" ELSE "reply",
                                !.result = "ok"]
  <2>1. op[o].pc = "replicate" /\ Finish(o, "ok") /\ UNCHANGED <<rec, nodeVars, refused, lost>>
    BY <1>13 DEF ReplicateDone
  <2>2. Sound(r) /\ op' = [op EXCEPT ![o] = r]
    <3>1. op[o].kind # "get" /\ op[o].pc \notin {"new", "forward", "done"}
        BY <1>0, <2>1 DEF Sound
    <3>2. QED
        BY <1>0, <2>1, <3>1, EndIsSound, EndOfOne DEF Results
  <2> HIDE DEF r
  <2>3. QED
    BY <1>0, <2>1, <2>2, OneMoves DEF TypeOK
<1>14. ASSUME NEW o \in Ops, RollbackDelete(o) PROVE BaseInv'
  <2>1. /\ op[o].pc = "rollback" /\ rec' = [rec EXCEPT ![op[o].at] = NoRec]
        /\ UNCHANGED <<nodeVars, refused, lost>>
    BY <1>14 DEF RollbackDelete
  <2>2. rec' \in [Nodes -> Records]
    BY <1>0, <2>1 DEF TypeOK, Records
  <2>3. CASE Finish(o, "err")
    <3> DEFINE r == [op[o] EXCEPT !.pc = IF op[o].via = op[o].at THEN "done" ELSE "reply",
                                  !.result = "err"]
    <3>1. Sound(r) /\ op' = [op EXCEPT ![o] = r]
      <4>1. op[o].kind # "get" /\ op[o].pc \notin {"new", "forward", "done"}
        BY <1>0, <2>1 DEF Sound
      <4>2. QED
        BY <1>0, <2>3, <4>1, EndIsSound, EndOfOne DEF Results
    <3> HIDE DEF r
    <3>2. QED
        BY <1>0, <2>1, <2>2, <3>1, OneMoves DEF TypeOK
  <2>4. CASE op' = [op EXCEPT ![o].pc = "restore"]
    <3> DEFINE r == [op[o] EXCEPT !.pc = "restore"]
    <3>1. Sound(r) /\ op' = [op EXCEPT ![o] = r]
      <4>1. op[o] \in OpType /\ Sound(op[o]) /\ "restore" \in Phases
        BY <1>0 DEF Phases
      <4>2. Sound(r)
        BY <2>1, <4>1, PhaseOfOne DEF Sound
      <4>3. QED
        BY <1>0, <2>4, <4>2 DEF OpType
    <3> HIDE DEF r
    <3>2. QED
        BY <1>0, <2>1, <2>2, <3>1, OneMoves DEF TypeOK
  <2>5. QED
    BY <1>14, <2>3, <2>4 DEF RollbackDelete
<1>15. ASSUME NEW o \in Ops, RestorePut(o) PROVE BaseInv'
  <2> DEFINE r == [op[o] EXCEPT !.pc = IF op[o].via = op[o].at THEN "done" ELSE "reply",
                                !.result = "err"]
  <2>1. /\ op[o].pc = "restore" /\ rec' = [rec EXCEPT ![op[o].at] = op[o].previous]
        /\ Finish(o, "err") /\ UNCHANGED <<nodeVars, refused, lost>>
    BY <1>15 DEF RestorePut
  <2>2. rec' \in [Nodes -> Records]
    BY <1>0, <2>1 DEF TypeOK, OpType
  <2>3. Sound(r) /\ op' = [op EXCEPT ![o] = r]
    <3>1. op[o].kind # "get" /\ op[o].pc \notin {"new", "forward", "done"}
        BY <1>0, <2>1 DEF Sound
    <3>2. QED
        BY <1>0, <2>1, <3>1, EndIsSound, EndOfOne DEF Results
  <2> HIDE DEF r
  <2>4. QED
    BY <1>0, <2>1, <2>2, <2>3, OneMoves DEF TypeOK
<1>16. ASSUME NEW o \in Ops, NEW n \in Entry, NEW q \in Menu[o], Begin(o, n, q)
      PROVE  BaseInv'
  <2> DEFINE at == IF schema[n] /\ q.kind # "get" THEN Primary(n) ELSE n
             pc == IF ~schema[n] THEN "done"
                   ELSE IF q.kind = "get" THEN "locate_get"
                   ELSE IF Primary(n) = n THEN "confirm_start" ELSE "forward"
             result == IF schema[n] THEN "none" ELSE "err"
             r == [op[o] EXCEPT !.kind = q.kind, !.value = q.value, !.expect = q.expect,
                                !.via = n, !.at = at, !.pc = pc, !.result = result]
  <2>1. op[o].pc = "new" /\ UNCHANGED <<rec, nodeVars, refused, lost>>
    BY <1>16 DEF Begin
  <2>2. n \in Nodes /\ q \in RequestType
    BY StartAssumption, MenuAssumption
  <2>3. schema[n] => layout[n] \in ViewIds
    BY <2>2, RoutingExists
  <2>4. schema[n] => Primary(n) \in Nodes
    BY <2>3, ViewsAssumption DEF Primary
  <2>5. at \in Nodes /\ pc \in Phases /\ result \in Results
    BY <2>2, <2>4 DEF Phases, Results
  <2>6. /\ pc \in {"done", "forward", "locate_get", "confirm_start"}
        /\ pc \in {"locate_get", "confirm_start"} => schema[at]
        /\ pc # "done" => result = "none"
        /\ q.kind = "get" => pc \in {"locate_get", "done"}
    OBVIOUS
  <2>7. op' = [op EXCEPT ![o] = [@ EXCEPT !.kind = q.kind, !.value = q.value, !.expect = q.expect,
                                          !.via = n, !.at = at, !.pc = pc, !.result = result]]
    BY <1>16 DEF Begin
  <2> HIDE DEF at, pc, result
  <2>8. op' = [op EXCEPT ![o] = r]
    BY <1>0, <2>7
  <2>9. r \in OpType
    BY <1>0, <2>2, <2>5, ZenonT(30) DEF OpType, RequestType
  <2>10. Sound(r)
    BY <1>0, <2>6, <2>9 DEF Sound, OpType
  <2> HIDE DEF r
  <2>11. QED
    BY <1>0, <2>1, <2>8, <2>10, OneMoves DEF TypeOK
<1>17. ASSUME NEW n \in Nodes, Adopt(n) PROVE BaseInv'
  <2>1. UNCHANGED <<rec, op, refused, lost>>
    BY <1>17 DEF Adopt, AdoptConf, AdoptSpace, AdoptLayout
  <2>2. /\ layout' \in [Nodes -> 0..Len(Views)] /\ conf' \in [Nodes -> 0..Len(Views)]
        /\ schema' \in [Nodes -> BOOLEAN] /\ NodesInOrder'
        /\ \A m \in Nodes : layout[m] <= layout'[m] /\ (schema[m] => schema'[m])
    <3> USE <1>0, ViewsAssumption DEF TypeOK, NodesInOrder, ViewIds
    <3>1. CASE AdoptConf(n)
        BY <3>1 DEF AdoptConf
    <3>2. CASE AdoptSpace(n)
        BY <3>2 DEF AdoptSpace
    <3>3. ASSUME NEW v \in ViewIds, AdoptLayout(n, v)
          PROVE  /\ layout' \in [Nodes -> 0..Len(Views)] /\ conf' \in [Nodes -> 0..Len(Views)]
                 /\ schema' \in [Nodes -> BOOLEAN] /\ NodesInOrder'
                 /\ \A m \in Nodes : layout[m] <= layout'[m] /\ (schema[m] => schema'[m])
        BY <3>3 DEF AdoptLayout
    <3>4. QED
        BY <1>17, <3>1, <3>2, <3>3 DEF Adopt
  <2>5. ASSUME NEW r, Sound(r) PROVE Sound(r)'
    <3>1. /\ r.at \in Nodes /\ r.view \in Nat /\ r.counted \in Nat
          /\ layout[r.at] \in Nat /\ layout'[r.at] \in Nat
        BY <1>0, <2>2, <2>5, ViewsAssumption DEF Sound, OpType, TypeOK
    <3>2. /\ r.view <= layout[r.at] => r.view <= layout'[r.at]
          /\ r.counted <= layout[r.at] => r.counted <= layout'[r.at]
        BY <2>2, <3>1
    <3>3. QED
        BY <2>2, <2>5, <3>1, <3>2 DEF Sound, NodeList
  <2>6. QED
    BY <1>0, <2>1, <2>2, <2>5 DEF BaseInv, TypeOK
<1>18. ASSUME UNCHANGED vars PROVE BaseInv'
    BY <1>18 DEF BaseInv, TypeOK, NodesInOrder, Sound, NodeList, vars
<1>19. QED
    BY <1>1, <1>2, <1>3, <1>4, <1>5, <1>6, <1>7, <1>8, <1>9, <1>10, <1>11, <1>12, <1>13,
       <1>14, <1>15, <1>16, <1>17, <1>18 DEF Next, Step

\* TypeOK: the types hold in every reachable state.  A visit never leaves the
\* list it was given and never starts at a node without the space, so the
\* replicas it names exist (apply_primary_*, execute_get_with_replica_fallback).
THEOREM TypeCorrect == Spec => []TypeOK
<1>1. BaseInv => TypeOK
    BY DEF BaseInv
<1>2. QED
    BY <1>1, BaseInit, BaseStep, PTL DEF Spec

\* A step of one operation changes neither what the operation was asked nor another's progress.
LEMMA StepFrame ==
    ASSUME TypeOK, NEW x \in Ops, Step(x)
    PROVE  /\ \A o \in Ops \ {x} : op'[o] = op[o]
           /\ op'[x].kind = op[x].kind /\ op'[x].value = op[x].value
           /\ op'[x].expect = op[x].expect /\ op'[x].at = op[x].at /\ op'[x].via = op[x].via
           /\ UNCHANGED nodeVars
<1> DEFINE Goal == /\ \A o \in Ops \ {x} : op'[o] = op[o]
                   /\ op'[x].kind = op[x].kind /\ op'[x].value = op[x].value
                   /\ op'[x].expect = op[x].expect /\ op'[x].at = op[x].at
                   /\ op'[x].via = op[x].via
                   /\ UNCHANGED nodeVars
<1> USE DEF TypeOK, OpType, Fail, Finish, nodeVars
<1>1. CASE Forward(x) \/ Reply(x)
    BY <1>1 DEF Forward, Reply
<1>2. CASE ConfirmStart(x)
    BY <1>2 DEF ConfirmStart
<1>3. CASE ConfirmPeer(x)
    BY <1>3 DEF ConfirmPeer
<1>4. CASE ConfirmDone(x) \/ LocateGet(x)
    BY <1>4 DEF ConfirmDone, LocateGet
<1>5. CASE GetReplica(x)
    BY <1>5, SMTT(30) DEF GetReplica, Compare
<1>6. CASE GetDone(x) \/ ReadPrevious(x)
    BY <1>6 DEF GetDone, ReadPrevious
<1>7. CASE WriteLocal(x)
    BY <1>7 DEF WriteLocal
<1>8. CASE LocateSecondaries(x)
    BY <1>8 DEF LocateSecondaries
<1>9. CASE ReplicateTo(x)
    BY <1>9 DEF ReplicateTo
<1>10. CASE ReplicateDone(x)
    BY <1>10 DEF ReplicateDone
<1>11. CASE RollbackDelete(x) \/ RestorePut(x)
    BY <1>11 DEF RollbackDelete, RestorePut
<1>12. QED
    BY <1>1, <1>2, <1>3, <1>4, <1>5, <1>6, <1>7, <1>8, <1>9, <1>10, <1>11 DEF Step

\* NewerPeerVetoes: validate_primary compares the caller's node count with its own.
\* The list a primary counts is never newer than its routing and lists only grow, so a peer whose list is as new as that routing never counts fewer nodes.
THEOREM NewerPeersVeto == Spec => NewerPeerVetoes
<1> DEFINE Veto(o) ==
             /\ op[o].pc = "confirm" /\ op[o].todo # {} /\ op'[o] # op[o]
             /\ layout[NextPeer(o)] > layout[op[o].at]
             /\ conf[NextPeer(o)] >= layout[op[o].at]
             /\ schema[NextPeer(o)] /\ Primary(NextPeer(o)) # op[o].at
             => Done(o, "err")' \/ op'[o].skipped
<1>1. BaseInv /\ [Next]_vars => [\A o \in Ops : Veto(o)]_vars
  <2> SUFFICES ASSUME BaseInv, Next, NEW o \in Ops,
                      op[o].pc = "confirm", op[o].todo # {}, op'[o] # op[o],
                      layout[NextPeer(o)] > layout[op[o].at],
                      conf[NextPeer(o)] >= layout[op[o].at],
                      schema[NextPeer(o)], Primary(NextPeer(o)) # op[o].at
               PROVE  Done(o, "err")' \/ op'[o].skipped
    OBVIOUS
  <2> DEFINE n == op[o].at
             p == NextPeer(o)
  <2>0. TypeOK /\ op \in [Ops -> OpType] /\ Sound(op[o])
    BY DEF BaseInv, TypeOK
  <2>1. ConfirmPeer(o)
    <3>1. PICK x \in Ops : Step(x) \/ \E m \in Entry, q \in Menu[x] : Begin(x, m, q)
        BY DEF Next, Adopt, AdoptConf, AdoptSpace, AdoptLayout
    <3>2. ASSUME Step(x), x = o PROVE ConfirmPeer(o)
        BY <3>2 DEF Step, Forward, Reply, ConfirmStart, ConfirmDone, LocateGet, GetReplica, GetDone,
           ReadPrevious, WriteLocal, LocateSecondaries, ReplicateTo, ReplicateDone, RollbackDelete,
           RestorePut
    <3>3. ASSUME NEW m \in Entry, NEW q \in Menu[x], Begin(x, m, q) PROVE FALSE
        BY <2>0, <3>3 DEF Begin
    <3>4. QED
        BY <2>0, <3>1, <3>2, <3>3, StepFrame
  <2>2. /\ n \in Nodes /\ schema[n]
        /\ op[o].view \in 0..Len(Views)
        /\ op[o].counted \in 0..Len(Views) /\ op[o].counted <= layout[n]
        /\ op[o].todo \subseteq 1..Len(NodeList(n, op[o].view)) /\ op[o].todo \in SUBSET Nat
    BY <2>0 DEF Sound, OpType
  <2>3. Least(op[o].todo) \in 1..Len(NodeList(n, op[o].view))
    BY <2>2, LeastIsMinimum
  <2>4. p \in Nodes
    <3>1. NodeList(n, op[o].view) \in Seq(Nodes)
        BY <2>2, ViewsAssumption DEF NodeList
    <3>2. QED
        BY <2>3, <3>1 DEF NextPeer
  <2>5. Len(NodeList(p, conf[p])) >= Len(NodeList(n, op[o].counted))
    <3>1. conf[p] \in ViewIds /\ layout[n] \in ViewIds
        BY <2>2, <2>4, RoutingExists
    <3>2. conf[p] >= op[o].counted
        BY <2>2, <3>1 DEF ViewIds
    <3>3. CASE op[o].counted = 0
        BY <3>1, <3>3, GrowthAssumption, ViewsAssumption DEF NodeList, ViewIds
    <3>4. CASE op[o].counted # 0
      <4>1. op[o].counted \in ViewIds
        BY <2>2, <3>4 DEF ViewIds
      <4>2. NodeList(p, conf[p]) = Views[conf[p]] /\ NodeList(n, op[o].counted) = Views[op[o].counted]
        BY <3>1, <3>4, ViewsAssumption DEF NodeList, ViewIds
      <4>3. op[o].counted <= conf[p]
        BY <3>1, <3>2, <4>1 DEF ViewIds
      <4>4. Len(Views[op[o].counted]) <= Len(Views[conf[p]])
        BY <3>1, <4>1, <4>3, GrowthAssumption
      <4>5. Len(Views[op[o].counted]) \in Nat /\ Len(Views[conf[p]]) \in Nat
        BY <3>1, <4>1, ViewsAssumption, SMTT(30) DEF ViewIds
      <4>6. QED
        BY <4>2, <4>4, <4>5
    <3>5. QED
        BY <3>3, <3>4
  <2>6. Validate(p, n, Len(NodeList(n, op[o].counted))) = "condition_failed"
    <3>1. Len(NodeList(p, conf[p])) \in Nat /\ Len(NodeList(n, op[o].counted)) \in Nat
        BY <2>2, <2>4, RoutingExists, ViewsAssumption, SMTT(30) DEF NodeList, ViewIds
    <3>2. QED
        BY <2>5, <3>1 DEF Validate
  <2>7. CASE Fail(o)
    BY <2>0, <2>7 DEF Fail, Done, OpType
  <2>8. CASE op' = [op EXCEPT ![o].todo = @ \ {Least(@)}, ![o].skipped = TRUE]
    BY <2>0, <2>8 DEF OpType
  <2>9. QED
    BY <2>1, <2>6, <2>7, <2>8 DEF ConfirmPeer
<1>2. QED
    BY <1>1, BaseInit, BaseStep, PTL DEF Spec, NewerPeerVetoes

-------------------------------------------------------------------------------
(* One configuration: every mutation executes at the one primary.             *)

\* The fan-out leaves the executing node out.
SecondariesOnly ==
    \A o \in Ops : op[o].pc = "replicate" =>
        \A i \in op[o].todo : Replicas[op[o].view][i] # op[o].at

\* The fan-out starts at replicate_*_to_secondaries and only gets shorter.
LEMMA SecondariesOnlyStep ==
    ASSUME BaseInv, SecondariesOnly, [Next]_vars
    PROVE  SecondariesOnly'
<1>0. TypeOK /\ op \in [Ops -> OpType]
    BY DEF BaseInv, TypeOK
<1>1. ASSUME NEW x \in Ops, Step(x) PROVE SecondariesOnly'
  <2>1. CASE LocateSecondaries(x)
    <3> DEFINE v == layout[op[x].at]
               left == {i \in 1..Len(Replicas[v]) : Replicas[v][i] # op[x].at}
    <3>1. op' = [op EXCEPT ![x].pc = "replicate", ![x].view = v, ![x].todo = left]
        BY <2>1 DEF LocateSecondaries
    <3>2. \A i \in left : Replicas[v][i] # op[x].at
        OBVIOUS
    <3> HIDE DEF left, v
    <3>3. QED
        BY <1>0, <3>1, <3>2 DEF SecondariesOnly, OpType
  <2>2. CASE ReplicateTo(x)
    <3>1. op' = [op EXCEPT ![x].pc = "rollback"] \/ op' = [op EXCEPT ![x].todo = @ \ {Least(@)}]
        BY <2>2 DEF ReplicateTo
    <3>2. \/ op'[x].pc = "rollback"
          \/ op'[x].todo \subseteq op[x].todo /\ op'[x].view = op[x].view
        BY <1>0, <3>1 DEF OpType
    <3>3. op[x].pc = "replicate"
        BY <2>2 DEF ReplicateTo
    <3>4. QED
        BY <1>0, <1>1, <3>2, <3>3, StepFrame DEF SecondariesOnly
  <2>3. CASE ~LocateSecondaries(x) /\ ~ReplicateTo(x)
    <3>1. op'[x].pc # "replicate"
      <4>1. CASE Forward(x) \/ Reply(x) \/ ConfirmStart(x)
        BY <1>0, <4>1 DEF Forward, Reply, ConfirmStart, Fail, OpType
      <4>2. CASE ConfirmPeer(x)
        BY <1>0, <4>2 DEF ConfirmPeer, Fail, OpType
      <4>3. CASE ConfirmDone(x) \/ LocateGet(x) \/ GetDone(x)
        BY <1>0, <4>3 DEF ConfirmDone, LocateGet, GetDone, Fail, OpType
      <4>4. CASE GetReplica(x)
        BY <1>0, <4>4 DEF GetReplica, Compare, Fail, OpType
      <4>5. CASE ReadPrevious(x) \/ WriteLocal(x)
        BY <1>0, <4>5 DEF ReadPrevious, WriteLocal, Finish, OpType
      <4>6. CASE ReplicateDone(x)
        BY <1>0, <4>6 DEF ReplicateDone, Finish, OpType
      <4>7. CASE RollbackDelete(x) \/ RestorePut(x)
        BY <1>0, <4>7 DEF RollbackDelete, RestorePut, Finish, OpType
      <4>. QED
        BY <1>1, <2>3, <4>1, <4>2, <4>3, <4>4, <4>5, <4>6, <4>7 DEF Step
    <3>2. QED
        BY <1>0, <1>1, <3>1, StepFrame DEF SecondariesOnly
  <2>4. QED
    BY <2>1, <2>2, <2>3
<1>2. ASSUME NEW x \in Ops, NEW n \in Entry, NEW q \in Menu[x], Begin(x, n, q)
      PROVE  SecondariesOnly'
    BY <1>0, <1>2 DEF Begin, SecondariesOnly, OpType
<1>3. CASE UNCHANGED op
    BY <1>3 DEF SecondariesOnly
<1>4. QED
    BY <1>1, <1>2, <1>3 DEF Next, Adopt, AdoptConf, AdoptSpace, AdoptLayout, vars

ThePrimary == Replicas[1][1]

\* A mutation executes at the primary.
AtPrimary ==
    \A o \in Ops : op[o].kind # "get" /\ op[o].pc # "done" => op[o].at = ThePrimary

\* Conditional puts past their condition, and acknowledged ones.
Holds(o) ==
    /\ op[o].kind = "cput"
    /\ op[o].pc \in {"locate_secondaries", "replicate", "rollback", "restore"} \/ op[o].result = "ok"

\* Routing names the one primary, and a forwarded request stays where it executes.
LEMMA AtPrimaryStep ==
    ASSUME Len(Views) = 1, BaseInv, AtPrimary, [Next]_vars
    PROVE  AtPrimary'
<1>0. TypeOK /\ op \in [Ops -> OpType]
    BY DEF BaseInv, TypeOK
<1>1. ASSUME NEW x \in Ops, Step(x) PROVE AtPrimary'
  <2>1. op'[x].pc # "done" => op[x].pc # "done"
    BY <1>0, <1>1 DEF Step, Forward, Reply, ConfirmStart, ConfirmPeer, ConfirmDone,
           LocateGet, GetReplica, GetDone, ReadPrevious, WriteLocal, ReplicateDone,
           RollbackDelete, RestorePut, LocateSecondaries, ReplicateTo
  <2>2. QED
    BY <1>0, <1>1, <2>1, StepFrame DEF AtPrimary
<1>2. ASSUME NEW x \in Ops, NEW n \in Entry, NEW q \in Menu[x], Begin(x, n, q)
      PROVE  AtPrimary'
  <2>1. schema[n] => layout[n] = 1
    BY StartAssumption, RoutingExists DEF ViewIds
  <2>2. schema[n] => Primary(n) = ThePrimary
    BY <2>1 DEF Primary, ThePrimary
  <2>3. QED
    BY <1>0, <1>2, <2>2 DEF Begin, AtPrimary, OpType
<1>3. CASE UNCHANGED op
    BY <1>3 DEF AtPrimary
<1>4. QED
    BY <1>1, <1>2, <1>3 DEF Next, Adopt, AdoptConf, AdoptSpace, AdoptLayout, vars

\* What was asked stays, so a race now was a race before.
LEMMA RaceGoesOn ==
    ASSUME BaseInv, [Next]_vars, Race'
    PROVE  Race
<1>0. TypeOK /\ op \in [Ops -> OpType]
    BY DEF BaseInv, TypeOK
<1>1. ASSUME NEW x \in Ops, Step(x) PROVE Race
    BY <1>0, <1>1, StepFrame DEF Race, Racers
<1>2. ASSUME NEW x \in Ops, NEW n \in Entry, NEW q \in Menu[x], Begin(x, n, q)
      PROVE  Race
  <2>1. op[x].kind = "get" /\ \A o \in Ops \ {x} : op'[o] = op[o]
    BY <1>0, <1>2 DEF Begin, BaseInv, Sound
  <2>2. QED
    BY <2>1 DEF Race, Racers
<1>3. CASE UNCHANGED op
    BY <1>3 DEF Race, Racers
<1>4. QED
    BY <1>1, <1>2, <1>3 DEF Next, Adopt, AdoptConf, AdoptSpace, AdoptLayout, vars

\* At most one conditional put is past its condition or acknowledged, and while
\* one is, the primary does not hold the record they all expect.
Exclusive ==
    Race => /\ \A o1, o2 \in Racers : Holds(o1) /\ Holds(o2) => o1 = o2
            /\ \A o1, o2 \in Racers : rec[ThePrimary] = op[o1].expect => ~Holds(o2)

CasInv == BaseInv /\ SecondariesOnly /\ AtPrimary /\ Exclusive

\* Every step keeps the race decided.
LEMMA CasStep ==
    ASSUME Len(Views) = 1, CasInv, [Next]_vars
    PROVE  Exclusive'
<1> SUFFICES ASSUME Race' PROVE Exclusive'
    BY DEF Exclusive
<1>0. /\ TypeOK /\ op \in [Ops -> OpType] /\ rec \in [Nodes -> Records]
      /\ \A o \in Ops : Sound(op[o])
      /\ BaseInv /\ Race /\ Exclusive /\ ThePrimary \in Nodes
    BY RaceGoesOn, ViewsAssumption DEF CasInv, BaseInv, TypeOK, ThePrimary, ViewIds
<1>1. ASSUME NEW x \in Ops, \A o \in Ops \ {x} : op'[o] = op[o],
             op'[x].kind = op[x].kind, op'[x].expect = op[x].expect,
             Holds(x)' => Holds(x),
             rec'[ThePrimary] = rec[ThePrimary] \/ rec'[ThePrimary] = NoRec
      PROVE  Exclusive'
  <2>1. Racers' = Racers /\ \A o \in Racers : op'[o].expect = op[o].expect /\ op[o].expect # NoRec
    BY <1>0, <1>1, RecordAssumption DEF Racers, OpType
  <2>2. \A o \in Ops : Holds(o)' => Holds(o)
    BY <1>1 DEF Holds
  <2>3. QED
    BY <1>0, <1>1, <2>1, <2>2 DEF Exclusive, Racers
<1>2. ASSUME NEW x \in Ops, Step(x) PROVE Exclusive'
  <2>0. /\ op[x].kind # "get" /\ op[x].pc # "done" => op[x].at = ThePrimary
        /\ op[x].kind = "get" => op[x].pc \in {"new", "locate_get", "get", "done"}
        /\ op[x].kind \in {"cput", "get"}
    BY <1>0 DEF CasInv, AtPrimary, Sound, Race
  <2>1. CASE WriteLocal(x) /\ Passes(x)
    <3>1. /\ op[x].pc = "write" /\ rec' = [rec EXCEPT ![op[x].at] = Written(x)]
          /\ op' = [op EXCEPT ![x].pc = "locate_secondaries"]
        BY <2>1 DEF WriteLocal
    <3>2. op[x].kind = "cput" /\ op[x].at = ThePrimary /\ Written(x) = op[x].value
        BY <2>0, <3>1 DEF Written
    <3>3. rec[ThePrimary] = op[x].expect /\ rec'[ThePrimary] = op[x].value
        BY <1>0, <2>1, <3>1, <3>2 DEF Passes
    <3>4. x \in Racers /\ \A o \in Racers : ~Holds(o) /\ op[o].expect = op[x].expect
        BY <1>0, <3>2, <3>3 DEF Exclusive, Racers, Race
    <3>5. op[x].value # op[x].expect
        BY <1>0, <3>4 DEF Race
    <3>6. Racers' = Racers /\ \A o \in Racers : op'[o].expect = op[o].expect
        BY <1>0, <1>2, StepFrame DEF Racers
    <3>7. \A o \in Racers : Holds(o)' => o = x
        BY <1>0, <1>2, <3>4, StepFrame DEF Holds, Racers
    <3>8. QED
        BY <3>3, <3>4, <3>5, <3>6, <3>7 DEF Exclusive
  <2>2. CASE RestorePut(x)
    <3>1. op[x].pc = "restore" /\ Finish(x, "err")
        BY <2>2 DEF RestorePut
    <3>2. x \in Racers /\ Holds(x)
        BY <2>0, <3>1 DEF Racers, Holds
    <3>3. ~Holds(x)' /\ Racers' = Racers
        BY <1>0, <1>2, <3>1, StepFrame DEF Finish, Holds, OpType, Racers
    <3>4. \A o \in Racers : ~Holds(o)'
        BY <1>0, <1>2, <3>2, <3>3, StepFrame DEF Holds, Racers, Exclusive
    <3>5. QED
        BY <3>3, <3>4 DEF Exclusive
  <2>3. CASE RollbackDelete(x)
    <3>1. op[x].pc = "rollback" /\ rec' = [rec EXCEPT ![op[x].at] = NoRec]
        BY <2>3 DEF RollbackDelete
    <3>2. Holds(x)
        BY <2>0, <3>1 DEF Holds
    <3>3. rec'[ThePrimary] = NoRec
        BY <1>0, <2>0, <3>1
    <3>4. QED
        BY <1>0, <1>1, <1>2, <3>2, <3>3, StepFrame
  <2>4. CASE ReplicateTo(x)
    <3>1. op[x].pc = "replicate" /\ op[x].todo # {}
        BY <2>4 DEF ReplicateTo
    <3>2. NextReplica(x) # ThePrimary /\ Holds(x)
        BY <1>0, <2>0, <3>1, ReplicaIsNode DEF CasInv, SecondariesOnly, NextReplica, Holds
    <3>3. rec' = rec \/ rec' = [rec EXCEPT ![NextReplica(x)] = Written(x)]
        BY <2>4 DEF ReplicateTo, Refuse
    <3>4. rec'[ThePrimary] = rec[ThePrimary]
        BY <1>0, <3>2, <3>3
    <3>5. QED
        BY <1>0, <1>1, <1>2, <3>2, <3>4, StepFrame
  <2>5. CASE ~(WriteLocal(x) /\ Passes(x)) /\ ~RestorePut(x) /\ ~RollbackDelete(x) /\ ~ReplicateTo(x)
    <3>1. rec' = rec /\ (Holds(x)' => Holds(x))
      <4>1. CASE Forward(x) \/ Reply(x) \/ ConfirmStart(x)
        BY <1>0, <4>1 DEF Forward, Reply, ConfirmStart, Fail, OpType, Holds, Refuse
      <4>2. CASE ConfirmPeer(x)
        BY <1>0, <4>2 DEF ConfirmPeer, Fail, OpType, Holds, Refuse
      <4>3. CASE ConfirmDone(x) \/ LocateGet(x) \/ GetDone(x)
        BY <1>0, <4>3 DEF ConfirmDone, LocateGet, GetDone, Fail, OpType, Holds, Refuse
      <4>4. CASE GetReplica(x)
        BY <1>0, <4>4 DEF GetReplica, Compare, Fail, OpType, Holds, Refuse
      <4>5. CASE ReadPrevious(x) \/ (WriteLocal(x) /\ ~Passes(x))
        BY <1>0, <4>5 DEF ReadPrevious, WriteLocal, Finish, OpType, Holds, Refuse
      <4>6. CASE LocateSecondaries(x) \/ ReplicateDone(x)
        BY <1>0, <4>6 DEF LocateSecondaries, ReplicateDone, Finish, OpType, Holds, Refuse
      <4>. QED
        BY <1>2, <2>5, <4>1, <4>2, <4>3, <4>4, <4>5, <4>6 DEF Step
    <3>2. QED
        BY <1>0, <1>1, <1>2, <3>1, StepFrame
  <2>6. QED
    BY <2>1, <2>2, <2>3, <2>4, <2>5
<1>3. ASSUME NEW x \in Ops, NEW n \in Entry, NEW q \in Menu[x], Begin(x, n, q)
      PROVE  Exclusive'
  <2>1. /\ op[x].kind = "get" /\ rec' = rec /\ \A o \in Ops \ {x} : op'[o] = op[o]
        /\ op'[x].result # "ok"
        /\ op'[x].pc \in {"done", "locate_get", "confirm_start", "forward"}
    BY <1>0, <1>3 DEF Begin, Sound, OpType
  <2>2. ~Holds(x)' /\ \A o \in Ops : Holds(o)' => Holds(o)
    BY <2>1 DEF Holds
  <2>3. \A o \in Racers' : Holds(o)' => o \in Racers /\ op'[o] = op[o]
    BY <2>1, <2>2 DEF Racers, Holds
  <2>4. \A o1, o2 \in Racers' : op'[o1].expect = op'[o2].expect
    BY DEF Race
  <2>5. \A o1, o2 \in Racers' : Holds(o1)' /\ Holds(o2)' => o1 = o2
    BY <1>0, <2>2, <2>3 DEF Exclusive, Racers
  <2>6. ASSUME NEW o1 \in Racers', NEW o2 \in Racers',
               rec'[ThePrimary] = op'[o1].expect, Holds(o2)'
        PROVE  FALSE
    <3>1. o2 \in Racers /\ Holds(o2) /\ op'[o2] = op[o2]
        BY <2>2, <2>3, <2>6 DEF Racers
    <3>2. op'[o1].expect = op[o2].expect
        BY <2>4, <3>1
    <3>3. rec[ThePrimary] = op[o2].expect
        BY <2>1, <2>6, <3>2
    <3>4. QED
        BY <1>0, <3>1, <3>3 DEF Exclusive
  <2>7. QED
    BY <2>5, <2>6 DEF Exclusive
<1>4. CASE UNCHANGED <<op, rec>>
    BY <1>0, <1>4 DEF Exclusive, Racers, Holds
<1>5. QED
    BY <1>2, <1>3, <1>4 DEF Next, Adopt, AdoptConf, AdoptSpace, AdoptLayout, vars

\* CasExclusion: with one configuration, of conditional puts that expect one record
\* only one is acknowledged.  The condition is decided under the primary's lock, and a
\* put past it holds the key until its rollback has ended.
THEOREM CasExcludes == ASSUME Len(Views) = 1 PROVE Spec => []CasExclusion
<1>1. Init => CasInv
  <2> SUFFICES ASSUME Init PROVE CasInv
    OBVIOUS
  <2>1. \A o \in Ops : op[o].pc = "new" /\ op[o].kind = "get"
    BY DEF Init
  <2>2. QED
    BY <2>1, BaseInit DEF CasInv, SecondariesOnly, AtPrimary, Exclusive, Racers
<1>2. CasInv /\ [Next]_vars => CasInv'
    BY BaseStep, SecondariesOnlyStep, AtPrimaryStep, CasStep DEF CasInv
<1>3. CasInv => CasExclusion
    BY DEF CasInv, Exclusive, CasExclusion, Holds, Racers, Done
<1>4. QED
    BY <1>1, <1>2, <1>3, PTL DEF Spec

-------------------------------------------------------------------------------
(* Where records come from.                                                   *)

\* The operations that were asked to write a value, and the records they account for.
Writers == {o \in Ops : op[o].kind \in {"put", "cput"}}
Known == {NoRec, Initial} \cup {op[w].value : w \in Writers}

\* Nodes hold, and operations have seen, nothing but what was there at the
\* start and what was asked to be written.
Provenance ==
    /\ \A w \in Writers : Asked(w) \in Menu[w]
    /\ \A n \in Nodes : rec[n] \in Known
    /\ \A o \in Ops : op[o].previous \in Known /\ op[o].agreed \in Known \cup {Unread}

\* No step forgets a writer or changes what it writes.
LEMMA KnownGrows ==
    ASSUME BaseInv, [Next]_vars
    PROVE  /\ Known \subseteq Known'
           /\ \A w \in Writers : w \in Writers' /\ op'[w].value = op[w].value
<1>0. TypeOK /\ op \in [Ops -> OpType]
    BY DEF BaseInv, TypeOK
<1>1. \A w \in Writers : w \in Writers' /\ op'[w].value = op[w].value
  <2> DEFINE Goal == \A w \in Writers : w \in Writers' /\ op'[w].value = op[w].value
  <2>1. ASSUME NEW x \in Ops, Step(x) PROVE Goal
    BY <1>0, <2>1, StepFrame DEF Writers
  <2>2. ASSUME NEW x \in Ops, NEW n \in Entry, NEW q \in Menu[x], Begin(x, n, q)
        PROVE  Goal
    <3>1. op[x].kind = "get" /\ \A o \in Ops \ {x} : op'[o] = op[o]
        BY <1>0, <2>2 DEF Begin, BaseInv, Sound
    <3>2. QED
        BY <3>1 DEF Writers
  <2>3. CASE UNCHANGED op
    BY <2>3 DEF Writers
  <2>4. QED
    BY <2>1, <2>2, <2>3 DEF Next, Adopt, AdoptConf, AdoptSpace, AdoptLayout, vars
<1>2. QED
    BY <1>1 DEF Known

\* Every record that is written was there before or is its writer's.
LEMMA ProvenanceStep ==
    ASSUME BaseInv, Provenance, [Next]_vars
    PROVE  Provenance'
<1>0. /\ TypeOK /\ op \in [Ops -> OpType] /\ rec \in [Nodes -> Records]
      /\ \A o \in Ops : Sound(op[o])
    BY DEF BaseInv, TypeOK
<1>1. Known \subseteq Known' /\ NoRec \in Known
    BY KnownGrows DEF Known
<1>2. ASSUME NEW x \in Ops, Step(x) PROVE Provenance'
  <2>1. \A w \in Writers' : Asked(w)' \in Menu[w]
    BY <1>0, <1>2, StepFrame DEF Provenance, Writers, Asked
  <2>2. op[x].kind # "get" => Written(x) \in Known
    BY <1>0 DEF Written, Known, Writers, OpType, Kinds
  <2>3. \A n \in Nodes : rec'[n] \in Known
    <3>1. \/ rec' = rec
          \/ \E n \in Nodes : \E r \in Known : rec' = [rec EXCEPT ![n] = r]
      <4>1. CASE WriteLocal(x)
        <5>1. op[x].at \in Nodes /\ op[x].kind # "get"
            BY <1>0, <4>1 DEF WriteLocal, OpType, Sound
        <5>2. QED
            BY <2>2, <4>1, <5>1 DEF WriteLocal
      <4>2. CASE ReplicateTo(x)
        <5>1. op[x].kind # "get" /\ NextReplica(x) \in Nodes
            BY <1>0, <4>2, ReplicaIsNode DEF ReplicateTo, Sound
        <5>2. QED
            BY <2>2, <4>2, <5>1 DEF ReplicateTo, Refuse
      <4>3. CASE RollbackDelete(x)
        BY <1>0, <1>1, <4>3 DEF RollbackDelete, OpType
      <4>4. CASE RestorePut(x)
        BY <1>0, <4>4 DEF RestorePut, OpType, Provenance
      <4>5. CASE ~WriteLocal(x) /\ ~ReplicateTo(x) /\ ~RollbackDelete(x) /\ ~RestorePut(x)
        BY <1>2, <4>5 DEF Step, Forward, Reply, ConfirmStart, ConfirmPeer, ConfirmDone,
           LocateGet, GetReplica, GetDone, ReadPrevious, LocateSecondaries,
           ReplicateDone, Refuse
      <4>6. QED
        BY <4>1, <4>2, <4>3, <4>4, <4>5
    <3>2. QED
        BY <1>0, <3>1 DEF Provenance
  <2>4. op'[x].previous \in Known /\ op'[x].agreed \in Known \cup {Unread}
    <3>0. op[x].previous \in Known /\ op[x].agreed \in Known \cup {Unread}
        BY DEF Provenance
    <3>1. CASE GetReplica(x)
      <4>1. rec[NextReplica(x)] \in Known
        BY <3>1, <1>0, ReplicaIsNode DEF GetReplica, Provenance
      <4>2. QED
        BY <1>0, <3>0, <3>1, <4>1, SMTT(60) DEF GetReplica, Compare, Fail, OpType
    <3>2. CASE ReadPrevious(x)
      <4>1. rec[op[x].at] \in Known
        BY <1>0 DEF Provenance, OpType
      <4>2. QED
        BY <1>0, <3>0, <3>2, <4>1 DEF ReadPrevious, OpType
    <3>3. CASE GetDone(x)
        BY <1>0, <3>0, <3>3, SMTT(60) DEF GetDone, Fail, OpType
    <3>4. CASE ~GetReplica(x) /\ ~ReadPrevious(x) /\ ~GetDone(x)
      <4>1. op'[x].previous = op[x].previous /\ op'[x].agreed = op[x].agreed
        <5>1. CASE Forward(x) \/ Reply(x) \/ ConfirmStart(x)
          BY <1>0, <5>1 DEF Forward, Reply, ConfirmStart, Fail, OpType
        <5>2. CASE ConfirmPeer(x)
          BY <1>0, <5>2 DEF ConfirmPeer, Fail, OpType
        <5>3. CASE ConfirmDone(x) \/ LocateGet(x)
          BY <1>0, <5>3 DEF ConfirmDone, LocateGet, Fail, OpType
        <5>4. CASE WriteLocal(x)
          BY <1>0, <5>4 DEF WriteLocal, Finish, OpType
        <5>5. CASE LocateSecondaries(x) \/ ReplicateDone(x)
          BY <1>0, <5>5 DEF LocateSecondaries, ReplicateDone, Finish, OpType
        <5>6. CASE ReplicateTo(x)
          BY <1>0, <5>6 DEF ReplicateTo, OpType
        <5>7. CASE RollbackDelete(x) \/ RestorePut(x)
          BY <1>0, <5>7 DEF RollbackDelete, RestorePut, Finish, OpType
        <5>. QED
          BY <1>2, <3>4, <5>1, <5>2, <5>3, <5>4, <5>5, <5>6, <5>7 DEF Step
      <4>2. QED
        BY <3>0, <4>1
    <3>5. QED
        BY <3>1, <3>2, <3>3, <3>4
  <2>5. QED
    BY <1>0, <1>1, <1>2, <2>1, <2>3, <2>4, StepFrame DEF Provenance
<1>3. ASSUME NEW x \in Ops, NEW n \in Entry, NEW q \in Menu[x], Begin(x, n, q)
      PROVE  Provenance'
  <2>1. /\ \A o \in Ops \ {x} : op'[o] = op[o]
        /\ op'[x].previous = op[x].previous /\ op'[x].agreed = op[x].agreed
        /\ op'[x].kind = q.kind /\ op'[x].value = q.value /\ op'[x].expect = q.expect
        /\ rec' = rec
    BY <1>0, <1>3 DEF Begin, OpType
  <2>2. Asked(x)' = q
    BY <2>1, MenuAssumption DEF Asked, RequestType
  <2>3. \A w \in Writers' : Asked(w)' \in Menu[w]
    BY <2>1, <2>2 DEF Provenance, Writers, Asked
  <2>4. QED
    BY <1>1, <2>1, <2>3 DEF Provenance
<1>4. CASE UNCHANGED <<op, rec>>
    BY <1>4 DEF Provenance, Known, Writers, Asked
<1>5. QED
    BY <1>2, <1>3, <1>4 DEF Next, Adopt, AdoptConf, AdoptSpace, AdoptLayout, vars

-------------------------------------------------------------------------------
(* Complete gets.                                                             *)

\* How many replicas there are, and the last of them.
Fan == Len(Replicas[1])
LastReplica == Replicas[1][Fan]

\* A visit of replicas ends with the last one.
LastComesLast ==
    \A o \in Ops : op[o].pc \in {"get", "replicate"} /\ op[o].todo # {} => Fan \in op[o].todo

\* Only a fan-out with somebody to reach can fail.
RollbackHasSecondary ==
    \A o \in Ops : op[o].pc \in {"rollback", "restore"} => Fan > 1

\* A mutation that nothing but a lost answer can make fail any more.
Sealed(w) ==
    \/ op[w].pc = "replicate" /\ op[w].todo = {}
    \/ op[w].result = "ok"
    \/ op[w].pc = "locate_secondaries" /\ Fan = 1

\* A get that has heard the last replica and skipped none.
Complete(g) ==
    /\ op[g].kind = "get" /\ ~op[g].skipped
    /\ (op[g].pc = "get" /\ Fan \notin op[g].todo) \/ Done(g, "ok")

\* While no answer was lost, what the last replica holds and what complete gets
\* have heard belongs to a sealed mutation.
LastIsSealed ==
    lost = 0 => \A w \in Writers :
        /\ rec[LastReplica] = op[w].value => Sealed(w)
        /\ \A g \in Ops : Complete(g) /\ op[g].agreed = op[w].value => Sealed(w)

CompleteInv ==
    /\ BaseInv /\ SecondariesOnly /\ AtPrimary /\ Provenance
    /\ LastComesLast /\ RollbackHasSecondary /\ LastIsSealed

\* With one configuration there is one list of replicas.
LEMMA OneList ==
    ASSUME Len(Views) = 1
    PROVE  /\ \A v \in ViewIds : v = 1
           /\ Fan \in Nat \ {0} /\ Fan \in 1..Fan /\ 1 \in 1..Fan
           /\ \A i \in 1..Fan : Replicas[1][i] \in Nodes
           /\ ThePrimary \in Nodes /\ LastReplica \in Nodes
           /\ \A i, j \in 1..Fan : Replicas[1][i] = Replicas[1][j] => i = j
<1>1. ViewIds = {1}
    BY DEF ViewIds
<1>2. Replicas[1] \in Seq(Nodes) /\ Len(Replicas[1]) > 0
    BY <1>1, ViewsAssumption
<1>3. \A i, j \in 1..Fan : Replicas[1][i] = Replicas[1][j] => i = j
    BY <1>1, ViewsAssumption DEF Fan
<1>4. QED
    BY <1>1, <1>2, <1>3 DEF Fan, ThePrimary, LastReplica

\* Visits go through the list in order, and only a fan-out with a secondary left fails.
LEMMA VisitStep ==
    ASSUME Len(Views) = 1, BaseInv, SecondariesOnly, AtPrimary,
           LastComesLast, RollbackHasSecondary, [Next]_vars
    PROVE  LastComesLast' /\ RollbackHasSecondary'
<1>0. /\ BaseInv /\ TypeOK /\ op \in [Ops -> OpType] /\ \A o \in Ops : Sound(op[o])
      /\ LastComesLast /\ RollbackHasSecondary /\ SecondariesOnly /\ AtPrimary
    BY DEF BaseInv, TypeOK
<1>1. ASSUME NEW x \in Ops, op[x].pc \in {"get", "replicate"}, op[x].todo # {},
             op[x].todo \ {Least(op[x].todo)} # {}
      PROVE  Fan \in op[x].todo \ {Least(op[x].todo)}
  <2>1. /\ op[x].view = 1 /\ op[x].todo \subseteq 1..Fan /\ op[x].todo \in SUBSET Nat
        /\ Fan \in op[x].todo
    BY <1>0, <1>1, OneList DEF Sound, OpType, Fan, LastComesLast
  <2>2. \A j \in op[x].todo : Least(op[x].todo) <= j /\ j <= Fan
    BY <2>1, <1>1, LeastIsMinimum, OneList
  <2>3. PICK j \in op[x].todo : j # Least(op[x].todo)
    BY <1>1
  <2>4. Least(op[x].todo) \in op[x].todo
    BY <2>1, <1>1, LeastIsMinimum
  <2>5. Least(op[x].todo) # Fan
    BY <2>1, <2>2, <2>3, <2>4
  <2>6. QED
    BY <2>1, <2>5
<1>2. ASSUME NEW x \in Ops, Step(x) PROVE LastComesLast'
  <2> SUFFICES op'[x].pc \in {"get", "replicate"} /\ op'[x].todo # {} => Fan \in op'[x].todo
    BY <1>0, <1>2, StepFrame DEF LastComesLast
  <2>1. CASE LocateGet(x)
    <3>1. op[x].pc = "locate_get" /\ layout[op[x].at] = 1
        BY <1>0, <2>1, RoutingExists, OneList DEF LocateGet, Sound, OpType
    <3>2. op'[x].todo = 1..Fan
        BY <1>0, <2>1, <3>1 DEF LocateGet, OpType, Fan
    <3>3. QED
        BY <3>2, OneList
  <2>2. CASE LocateSecondaries(x)
    <3>1. op[x].pc = "locate_secondaries" /\ layout[op[x].at] = 1
        BY <1>0, <2>2, RoutingExists, OneList DEF LocateSecondaries, Sound, OpType
    <3>2. op[x].at = ThePrimary
        BY <1>0, <3>1 DEF AtPrimary, Sound
    <3>3. op'[x].todo = {i \in 1..Fan : Replicas[1][i] # ThePrimary}
        BY <1>0, <2>2, <3>1, <3>2 DEF LocateSecondaries, OpType, Fan
    <3>4. ASSUME op'[x].todo # {} PROVE Fan \in op'[x].todo
      <4>1. PICK i \in 1..Fan : Replicas[1][i] # Replicas[1][1]
        BY <3>3, <3>4 DEF ThePrimary
      <4>2. Fan # 1
        BY <4>1
      <4>3. Replicas[1][Fan] # Replicas[1][1]
        BY <4>2, OneList
      <4>4. QED
        BY <3>3, <4>3, OneList DEF ThePrimary
    <3>5. QED
        BY <3>4
  <2>3. CASE GetReplica(x)
    <3>1. op'[x].pc = "done" \/ op'[x].todo = op[x].todo \ {Least(op[x].todo)}
        BY <1>0, <2>3 DEF GetReplica, Compare, Fail, OpType
    <3>2. QED
        BY <1>1, <2>3, <3>1 DEF GetReplica
  <2>4. CASE ReplicateTo(x)
    <3>1. op'[x].pc = "rollback" \/ op'[x].todo = op[x].todo \ {Least(op[x].todo)}
        BY <1>0, <2>4 DEF ReplicateTo, OpType
    <3>2. QED
        BY <1>1, <2>4, <3>1 DEF ReplicateTo
  <2>5. CASE ~LocateGet(x) /\ ~LocateSecondaries(x) /\ ~GetReplica(x) /\ ~ReplicateTo(x)
    <3>1. op'[x].pc \notin {"get", "replicate"}
        BY <1>0, <1>2, <2>5 DEF Step, Forward, Reply, ConfirmStart, ConfirmPeer, ConfirmDone,
           GetDone, ReadPrevious, WriteLocal, ReplicateDone, RollbackDelete, RestorePut,
           Fail, Finish, OpType
    <3>2. QED
        BY <3>1
  <2>6. QED
    BY <2>1, <2>2, <2>3, <2>4, <2>5
<1>3. ASSUME NEW x \in Ops, Step(x) PROVE RollbackHasSecondary'
  <2> SUFFICES op'[x].pc \in {"rollback", "restore"} => Fan > 1
    BY <1>0, <1>3, StepFrame DEF RollbackHasSecondary
  <2>1. CASE ReplicateTo(x)
    <3>1. op[x].pc = "replicate" /\ op[x].todo # {}
        BY <2>1 DEF ReplicateTo
    <3>2. op[x].view = 1 /\ op[x].todo \subseteq 1..Fan /\ op[x].at = ThePrimary
        BY <1>0, <3>1, OneList DEF Sound, AtPrimary, Fan
    <3>3. PICK i \in 1..Fan : Replicas[1][i] # Replicas[1][1]
        BY <1>0, <3>1, <3>2 DEF SecondariesOnly, ThePrimary
    <3>4. QED
        BY <3>3, OneList
  <2>2. CASE RollbackDelete(x)
    BY <1>0, <2>2 DEF RollbackDelete, RollbackHasSecondary
  <2>3. CASE ~ReplicateTo(x) /\ ~RollbackDelete(x)
    <3>1. op'[x].pc \notin {"rollback", "restore"}
      <4>1. CASE Forward(x) \/ Reply(x) \/ ConfirmStart(x)
        BY <1>0, <4>1 DEF Forward, Reply, ConfirmStart, Fail, OpType
      <4>2. CASE ConfirmPeer(x)
        BY <1>0, <4>2 DEF ConfirmPeer, Fail, OpType
      <4>3. CASE ConfirmDone(x) \/ LocateGet(x) \/ GetDone(x)
        BY <1>0, <4>3 DEF ConfirmDone, LocateGet, GetDone, Fail, OpType
      <4>4. CASE GetReplica(x)
        BY <1>0, <4>4 DEF GetReplica, Compare, Fail, OpType
      <4>5. CASE ReadPrevious(x) \/ WriteLocal(x)
        BY <1>0, <4>5 DEF ReadPrevious, WriteLocal, Finish, OpType
      <4>6. CASE LocateSecondaries(x) \/ ReplicateDone(x)
        BY <1>0, <4>6 DEF LocateSecondaries, ReplicateDone, Finish, OpType
      <4>7. CASE RestorePut(x)
        BY <1>0, <4>7 DEF RestorePut, Finish, OpType
      <4>. QED
        BY <1>3, <2>3, <4>1, <4>2, <4>3, <4>4, <4>5, <4>6, <4>7 DEF Step
    <3>2. QED
        BY <3>1
  <2>4. QED
    BY <2>1, <2>2, <2>3
<1>4. ASSUME NEW x \in Ops, NEW n \in Entry, NEW q \in Menu[x], Begin(x, n, q)
      PROVE  LastComesLast' /\ RollbackHasSecondary'
    BY <1>0, <1>4 DEF Begin, LastComesLast, RollbackHasSecondary, OpType
<1>5. CASE UNCHANGED op
    BY <1>0, <1>5 DEF LastComesLast, RollbackHasSecondary
<1>6. QED
    BY <1>2, <1>3, <1>4, <1>5 DEF Next, Adopt, AdoptConf, AdoptSpace, AdoptLayout, vars

\* A value has one writer, and was nowhere before its writer was asked.
LEMMA OneWriter ==
    ASSUME ValuesNameWriters, BaseInv, Provenance
    PROVE  /\ \A w1, w2 \in Writers : op[w1].value = op[w2].value => w1 = w2
           /\ \A w \in Writers : op[w].value \notin {NoRec, Unread, Initial}
           /\ \A x \in Ops \ Writers : \A q \in Menu[x] : Writes(q) => q.value \notin Known \cup {Unread}
<1>0. op \in [Ops -> OpType]
    BY DEF BaseInv, TypeOK
<1>1. \A w \in Writers : /\ Asked(w) \in Menu[w] /\ Writes(Asked(w))
                         /\ Asked(w).value = op[w].value
    BY DEF Provenance, Asked, Writes, Writers
<1>2. \A w1, w2 \in Writers : op[w1].value = op[w2].value => w1 = w2
    BY <1>1 DEF ValuesNameWriters, Writers
<1>3. \A w \in Writers : op[w].value \notin {NoRec, Unread, Initial}
    BY <1>0, <1>1, RecordAssumption DEF ValuesNameWriters, Writers, OpType, Records
<1>4. ASSUME NEW x \in Ops \ Writers, NEW q \in Menu[x], Writes(q)
      PROVE  q.value \notin Known \cup {Unread}
  <2>1. q.value # Initial /\ q.value \in Values
    BY <1>4, MenuAssumption DEF ValuesNameWriters, RequestType
  <2>2. \A w \in Writers : op[w].value # q.value
    BY <1>1, <1>4 DEF ValuesNameWriters, Writers
  <2>3. QED
    BY <2>1, <2>2, RecordAssumption DEF Known, Records
<1>5. QED
    BY <1>2, <1>3, <1>4

\* Every step keeps what the last replica holds, and what complete gets
\* have heard, sealed.
LEMMA SealStep ==
    ASSUME Len(Views) = 1, ValuesNameWriters, CompleteInv, [Next]_vars
    PROVE  LastIsSealed'
<1> SUFFICES ASSUME lost' = 0 PROVE LastIsSealed'
    BY DEF LastIsSealed
<1>0. /\ BaseInv /\ TypeOK /\ op \in [Ops -> OpType] /\ \A o \in Ops : Sound(op[o])
      /\ rec \in [Nodes -> Records] /\ lost \in Nat
      /\ LastComesLast /\ RollbackHasSecondary /\ SecondariesOnly /\ AtPrimary
      /\ Provenance /\ LastIsSealed
    BY BoundAssumption DEF CompleteInv, BaseInv, TypeOK
<1>1. ASSUME NEW x \in Ops, Step(x) PROVE LastIsSealed'
  <2>1. lost = 0
    <3>1. CASE Forward(x) \/ Reply(x) \/ ConfirmStart(x)
      BY <1>0, <3>1 DEF Forward, Reply, ConfirmStart, Fail, NoFault, Refuse
    <3>2. CASE ConfirmPeer(x)
      BY <1>0, <3>2 DEF ConfirmPeer, Fail, NoFault, Refuse
    <3>3. CASE ConfirmDone(x) \/ LocateGet(x) \/ GetDone(x)
      BY <1>0, <3>3 DEF ConfirmDone, LocateGet, GetDone, Fail, NoFault, Refuse
    <3>4. CASE GetReplica(x)
      BY <1>0, <3>4 DEF GetReplica, Compare, Fail, NoFault, Refuse
    <3>5. CASE ReadPrevious(x) \/ WriteLocal(x)
      BY <1>0, <3>5 DEF ReadPrevious, WriteLocal, Finish, NoFault, Refuse
    <3>6. CASE LocateSecondaries(x) \/ ReplicateDone(x)
      BY <1>0, <3>6 DEF LocateSecondaries, ReplicateDone, Finish, NoFault, Refuse
    <3>7. CASE ReplicateTo(x)
      BY <1>0, <3>7 DEF ReplicateTo, NoFault, Refuse
    <3>8. CASE RollbackDelete(x) \/ RestorePut(x)
      BY <1>0, <3>8 DEF RollbackDelete, RestorePut, Finish, NoFault, Refuse
    <3>. QED
      BY <1>1, <3>1, <3>2, <3>3, <3>4, <3>5, <3>6, <3>7, <3>8 DEF Step
  <2>2. Writers' = Writers /\ \A w \in Writers : op'[w].value = op[w].value
    BY <1>0, <1>1, StepFrame DEF Writers
  <2>3. \A w \in Writers : Sealed(w) => Sealed(w)'
    <3>1. ASSUME x \in Writers, Sealed(x) PROVE Sealed(x)'
      <4>1. CASE op[x].pc = "replicate" /\ op[x].todo = {}
        <5>1. ReplicateDone(x)
            BY <1>1, <4>1 DEF Step, Forward, Reply, ConfirmStart, ConfirmPeer, ConfirmDone,
               LocateGet, GetReplica, GetDone, ReadPrevious, WriteLocal, LocateSecondaries,
               ReplicateTo, RollbackDelete, RestorePut
        <5>2. QED
            BY <1>0, <5>1 DEF ReplicateDone, Finish, Sealed, OpType
      <4>2. CASE op[x].result = "ok"
        <5>1. op[x].pc \in {"reply", "done"}
            BY <1>0, <4>2 DEF Sound
        <5>2. Reply(x)
            BY <1>1, <5>1 DEF Step, Forward, ConfirmStart, ConfirmPeer, ConfirmDone,
               LocateGet, GetReplica, GetDone, ReadPrevious, WriteLocal, LocateSecondaries,
               ReplicateTo, ReplicateDone, RollbackDelete, RestorePut
        <5>3. op' = [op EXCEPT ![x].pc = "done"]
            BY <2>1, <5>2 DEF Reply
        <5>4. QED
            BY <1>0, <4>2, <5>3 DEF Sealed, OpType
      <4>3. CASE op[x].pc = "locate_secondaries" /\ Fan = 1
        <5>1. LocateSecondaries(x)
            BY <1>1, <4>3 DEF Step, Forward, Reply, ConfirmStart, ConfirmPeer, ConfirmDone,
               LocateGet, GetReplica, GetDone, ReadPrevious, WriteLocal,
               ReplicateTo, ReplicateDone, RollbackDelete, RestorePut
        <5>2. layout[op[x].at] = 1 /\ op[x].at = Replicas[1][1]
            BY <1>0, <4>3, <3>1, RoutingExists, OneList
               DEF Sound, OpType, AtPrimary, ThePrimary, Writers
        <5>3. /\ op'[x].pc = "replicate"
              /\ op'[x].todo = {i \in 1..1 : Replicas[1][i] # Replicas[1][1]}
            BY <1>0, <4>3, <5>1, <5>2 DEF LocateSecondaries, OpType, Fan
        <5>4. QED
            BY <5>3 DEF Sealed
      <4>4. QED
        BY <3>1, <4>1, <4>2, <4>3 DEF Sealed
    <3>2. QED
        BY <1>0, <1>1, <3>1, StepFrame DEF Sealed, Writers
  <2>4. ASSUME NEW w \in Writers, rec'[LastReplica] = op[w].value
        PROVE  rec[LastReplica] = op[w].value \/ Sealed(w)'
    <3>0. LastReplica \in Nodes /\ op[w].value # NoRec
        BY <1>0, OneList, OneWriter
    <3>1. CASE WriteLocal(x)
      <4>1. CASE rec' = rec
        BY <2>4, <4>1
      <4>2. CASE /\ rec' = [rec EXCEPT ![op[x].at] = Written(x)]
                 /\ op' = [op EXCEPT ![x].pc = "locate_secondaries"]
        <5>1. op[x].at = ThePrimary /\ op[x].at \in Nodes /\ op[x].kind # "get"
            BY <1>0, <3>1 DEF WriteLocal, AtPrimary, Sound, OpType
        <5>2. CASE Fan = 1
          <6>1. rec'[LastReplica] = Written(x)
            BY <1>0, <4>2, <5>1, <5>2 DEF LastReplica, ThePrimary
          <6>2. x \in Writers /\ op[x].value = op[w].value
            BY <1>0, <2>4, <3>0, <5>1, <6>1 DEF Written, Writers, OpType, Kinds
          <6>3. x = w
            BY <1>0, <6>2, OneWriter
          <6>4. QED
            BY <1>0, <4>2, <5>2, <6>3 DEF Sealed, OpType
        <5>3. CASE Fan # 1
          <6>1. LastReplica # ThePrimary
            BY <5>3, OneList DEF LastReplica, ThePrimary
          <6>2. QED
            BY <1>0, <2>4, <3>0, <4>2, <5>1, <6>1
        <5>4. QED
            BY <5>2, <5>3
      <4>3. QED
        BY <3>1, <4>1, <4>2 DEF WriteLocal
    <3>2. CASE ReplicateTo(x)
      <4>0. op[x].pc = "replicate" /\ op[x].todo # {} /\ op[x].kind # "get"
        BY <1>0, <3>2 DEF ReplicateTo, Sound
      <4>1. CASE rec' = rec
        BY <2>4, <4>1
      <4>2. CASE /\ rec' = [rec EXCEPT ![NextReplica(x)] = Written(x)]
                 /\ op' = [op EXCEPT ![x].todo = @ \ {Least(@)}]
        <5>1. CASE NextReplica(x) # LastReplica
            BY <1>0, <2>4, <3>0, <4>2, <5>1
        <5>2. CASE NextReplica(x) = LastReplica
          <6>1. /\ op[x].view = 1 /\ op[x].todo \subseteq 1..Fan /\ op[x].todo \in SUBSET Nat
                /\ Least(op[x].todo) \in op[x].todo
            BY <1>0, <4>0, OneList, LeastIsMinimum DEF Sound, OpType, Fan
          <6>2. Least(op[x].todo) = Fan
            BY <5>2, <6>1, OneList DEF NextReplica, LastReplica
          <6>3. \A j \in op[x].todo : Least(op[x].todo) <= j
            BY <4>0, <6>1, LeastIsMinimum
          <6>4. op[x].todo = {Fan}
            BY <6>1, <6>2, <6>3, OneList
          <6>5. op'[x].todo = {} /\ op'[x].pc = "replicate"
            BY <1>0, <4>0, <4>2, <6>2, <6>4 DEF OpType
          <6>6. rec'[LastReplica] = Written(x)
            BY <1>0, <3>0, <4>2, <5>2
          <6>7. x \in Writers /\ op[x].value = op[w].value
            BY <1>0, <2>4, <3>0, <4>0, <6>6 DEF Written, Writers, OpType, Kinds
          <6>8. x = w
            BY <1>0, <6>7, OneWriter
          <6>9. QED
            BY <6>5, <6>8 DEF Sealed
        <5>3. QED
            BY <5>1, <5>2
      <4>3. lost' # lost + 1
        BY <2>1
      <4>4. QED
        BY <3>2, <4>1, <4>2, <4>3 DEF ReplicateTo, Refuse
    <3>3. CASE RollbackDelete(x)
      <4>1. rec' = [rec EXCEPT ![op[x].at] = NoRec]
        BY <3>3 DEF RollbackDelete
      <4>2. QED
        BY <1>0, <2>4, <3>0, <4>1
    <3>4. CASE RestorePut(x)
      <4>1. /\ op[x].pc = "restore" /\ rec' = [rec EXCEPT ![op[x].at] = op[x].previous]
        BY <3>4 DEF RestorePut
      <4>2. Fan > 1 /\ op[x].at = ThePrimary
        BY <1>0, <4>1 DEF RollbackHasSecondary, AtPrimary, Sound
      <4>3. LastReplica # ThePrimary
        BY <4>2, OneList DEF LastReplica, ThePrimary
      <4>4. QED
        BY <1>0, <2>4, <3>0, <4>1, <4>2, <4>3
    <3>5. CASE ~WriteLocal(x) /\ ~ReplicateTo(x) /\ ~RollbackDelete(x) /\ ~RestorePut(x)
      <4>1. rec' = rec
        BY <1>1, <3>5 DEF Step, Forward, Reply, ConfirmStart, ConfirmPeer, ConfirmDone,
           LocateGet, GetReplica, GetDone, ReadPrevious, LocateSecondaries,
           ReplicateDone, Refuse
      <4>2. QED
        BY <2>4, <4>1
    <3>6. QED
        BY <3>1, <3>2, <3>3, <3>4, <3>5
  <2>5. ASSUME NEW w \in Writers, NEW g \in Ops, Complete(g)', op'[g].agreed = op[w].value
        PROVE  (Complete(g) /\ op[g].agreed = op[w].value) \/ rec[LastReplica] = op[w].value
    <3>1. CASE g # x
      <4>1. op'[g] = op[g]
        BY <1>0, <1>1, <3>1, StepFrame
      <4>2. QED
        BY <2>5, <4>1 DEF Complete, Done
    <3>2. CASE g = x /\ GetReplica(x)
      <4>1. op[x].pc = "get" /\ op[x].todo # {} /\ Fan \in op[x].todo
        BY <1>0, <3>2 DEF GetReplica, LastComesLast
      <4>2. /\ op'[x].todo = op[x].todo \ {Least(op[x].todo)}
            /\ op'[x].agreed = rec[NextReplica(x)]
            /\ op'[x].pc = "get"
        BY <1>0, <2>5, <3>2 DEF GetReplica, Compare, Fail, OpType, Complete, Done
      <4>3. Least(op[x].todo) = Fan
        BY <2>5, <3>2, <4>1, <4>2 DEF Complete, Done
      <4>4. op[x].view = 1
        BY <1>0, <4>1, OneList DEF Sound
      <4>5. NextReplica(x) = LastReplica
        BY <4>3, <4>4 DEF NextReplica, LastReplica
      <4>6. QED
        BY <2>5, <3>2, <4>2, <4>5
    <3>3. CASE g = x /\ GetDone(x)
      <4>1. op[x].pc = "get" /\ op[x].todo = {}
        BY <3>3 DEF GetDone
      <4>2. op'[x].skipped = op[x].skipped /\ op'[x].agreed = op[x].agreed
        BY <1>0, <3>3 DEF GetDone, Fail, OpType
      <4>3. QED
        BY <1>0, <1>1, <2>5, <3>3, <4>1, <4>2, StepFrame DEF Complete
    <3>4. CASE g = x /\ ~GetReplica(x) /\ ~GetDone(x)
      <4>1. op'[x].kind = "get" /\ op[x].kind = "get"
        BY <1>0, <1>1, <2>5, <3>4, StepFrame DEF Complete
      <4>2. LocateGet(x)
        BY <1>0, <1>1, <3>4, <4>1 DEF Sound, Step, Forward, Reply, ConfirmStart, ConfirmPeer,
           ConfirmDone, ReadPrevious, WriteLocal, LocateSecondaries,
           ReplicateTo, ReplicateDone, RollbackDelete, RestorePut
      <4>3. op[x].pc = "locate_get" /\ layout[op[x].at] = 1
        BY <1>0, <4>2, RoutingExists, OneList DEF LocateGet, Sound, OpType
      <4>4. op'[x].pc = "get" /\ op'[x].todo = 1..Fan
        BY <1>0, <4>2, <4>3 DEF LocateGet, OpType, Fan
      <4>5. QED
        BY <2>5, <3>4, <4>4, OneList DEF Complete, Done
    <3>5. QED
        BY <3>1, <3>2, <3>3, <3>4
  <2>6. QED
    BY <1>0, <2>1, <2>2, <2>3, <2>4, <2>5 DEF LastIsSealed
<1>2. ASSUME NEW x \in Ops, NEW n \in Entry, NEW q \in Menu[x], Begin(x, n, q)
      PROVE  LastIsSealed'
  <2>1. /\ op[x].kind = "get" /\ op[x].pc = "new" /\ rec' = rec /\ lost' = lost
        /\ \A o \in Ops \ {x} : op'[o] = op[o]
        /\ op'[x].kind = q.kind /\ op'[x].value = q.value
        /\ op'[x].pc \in {"done", "locate_get", "confirm_start", "forward"}
        /\ op'[x].result # "ok"
    BY <1>0, <1>2 DEF Begin, Sound, OpType
  <2>2. x \notin Writers /\ \A w \in Writers' \ {x} : w \in Writers /\ op'[w] = op[w]
    BY <2>1 DEF Writers
  <2>3. ~Complete(x)' /\ \A g \in Ops \ {x} : Complete(g)' => Complete(g) /\ op'[g] = op[g]
    BY <2>1 DEF Complete, Done
  <2>4. \A w \in Writers' \ {x} : Sealed(w) => Sealed(w)'
    BY <2>2 DEF Sealed
  <2>5. x \in Writers' => op'[x].value \notin Known \cup {Unread}
    BY <1>0, <2>1, <2>2, OneWriter DEF Writers, Writes
  <2>6. rec[LastReplica] \in Known /\ \A g \in Ops : op[g].agreed \in Known \cup {Unread}
    BY <1>0, OneList DEF Provenance
  <2>7. QED
    BY <1>0, <2>1, <2>2, <2>3, <2>4, <2>5, <2>6 DEF LastIsSealed
<1>3. CASE UNCHANGED <<op, rec, lost>>
    BY <1>0, <1>3 DEF LastIsSealed, Writers, Sealed, Complete, Done
<1>4. QED
    BY <1>1, <1>2, <1>3 DEF Next, Adopt, AdoptConf, AdoptSpace, AdoptLayout, vars

\* CompleteGetIsCommitted: with one configuration and values that name their
\* writers, a get that skipped no replica never returns what a failed mutation
\* wrote.  The fan-out and the get visit the replicas in the same order, so the last
\* replica is reached only by a mutation that is about to be acknowledged.
THEOREM CompleteGets ==
    ASSUME Len(Views) = 1, ValuesNameWriters
    PROVE  Spec => []CompleteGetIsCommitted
<1>1. Init => CompleteInv
  <2> SUFFICES ASSUME Init PROVE CompleteInv
    OBVIOUS
  <2>1. \A o \in Ops : /\ op[o].pc = "new" /\ op[o].kind = "get"
                       /\ op[o].previous = NoRec /\ op[o].agreed = Unread
    BY DEF Init
  <2>2. \A n \in Nodes : rec[n] \in {NoRec, Initial}
    BY DEF Init
  <2>3. Writers = {}
    BY <2>1 DEF Writers
  <2>4. QED
    BY <2>1, <2>2, <2>3, BaseInit DEF CompleteInv, SecondariesOnly, AtPrimary, Provenance, Known,
       LastComesLast, RollbackHasSecondary, LastIsSealed
<1>2. CompleteInv /\ [Next]_vars => CompleteInv'
    BY BaseStep, SecondariesOnlyStep, AtPrimaryStep, ProvenanceStep, VisitStep, SealStep
       DEF CompleteInv
<1>3. CompleteInv => CompleteGetIsCommitted
  <2> SUFFICES ASSUME CompleteInv, lost = 0, NEW g \in Ops, NEW w \in Ops,
                      Done(g, "ok"), op[g].kind = "get", ~op[g].skipped,
                      op[w].kind \in {"put", "cput"}, op[w].value = op[g].agreed
               PROVE  ~Done(w, "err")
    BY DEF CompleteGetIsCommitted
  <2>1. Sealed(w)
    BY DEF CompleteInv, LastIsSealed, Writers, Complete
  <2>2. QED
    BY <2>1 DEF Sealed, Done
<1>4. QED
    BY <1>1, <1>2, <1>3, PTL DEF Spec
===============================================================================
