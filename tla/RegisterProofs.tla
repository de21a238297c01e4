----------------------------- MODULE RegisterProofs ----------------------------
(* Proofs about Replication when clients take turns: what an acknowledgement  *)
(* means, that a failed mutation leaves nothing behind, and that a primary    *)
(* and a secondary implement a register.                                      *)
EXTENDS ReplicationProofs, FiniteSetTheorems

-------------------------------------------------------------------------------
(* Clients that take turns.                                                   *)

\* At most one operation is in flight.
OneAtATime == \A o1, o2 \in InFlight : o1 = o2

\* With one operation at a time a request enters only when none is in flight.
LEMMA NothingInFlight ==
    ASSUME MaxConcurrent = 1, Cardinality(InFlight) < MaxConcurrent
    PROVE  InFlight = {}
<1>1. InFlight \in SUBSET Ops /\ IsFiniteSet(Ops)
    BY MenuAssumption DEF InFlight
<1>2. IsFiniteSet(InFlight)
    BY <1>1, FS_Subset
<1>3. Cardinality(InFlight) \in Nat
    BY <1>2, FS_CardinalityType
<1>4. Cardinality(InFlight) = 0
    BY <1>3
<1>5. QED
    BY <1>2, <1>4, FS_EmptySet

\* An operation that takes a step is in flight.
LEMMA SteppingIsInFlight ==
    ASSUME NEW x \in Ops, Step(x)
    PROVE  x \in InFlight
BY DEF Step, Forward, Reply, ConfirmStart, ConfirmPeer, ConfirmDone,
   LocateGet, GetReplica, GetDone, ReadPrevious, WriteLocal, LocateSecondaries,
   ReplicateTo, ReplicateDone, RollbackDelete, RestorePut, InFlight

\* Operations take turns: every step keeps at most one of them in flight.
LEMMA TurnsStep ==
    ASSUME MaxConcurrent = 1, BaseInv, OneAtATime, [Next]_vars
    PROVE  OneAtATime'
<1>0. TypeOK /\ op \in [Ops -> OpType]
    BY DEF BaseInv, TypeOK
<1>1. ASSUME NEW x \in Ops, Step(x) PROVE OneAtATime'
    BY <1>0, <1>1, StepFrame, SteppingIsInFlight DEF OneAtATime, InFlight
<1>2. ASSUME NEW x \in Ops, NEW n \in Entry, NEW q \in Menu[x], Begin(x, n, q)
      PROVE  OneAtATime'
  <2>1. InFlight = {} /\ \A o \in Ops \ {x} : op'[o] = op[o]
    BY <1>0, <1>2, NothingInFlight DEF Begin
  <2>2. QED
    BY <2>1 DEF OneAtATime, InFlight
<1>3. CASE UNCHANGED op
    BY <1>3 DEF OneAtATime, InFlight
<1>4. QED
    BY <1>1, <1>2, <1>3 DEF Next, Adopt, AdoptConf, AdoptSpace, AdoptLayout, vars

\* What a mutation has written so far is still there.
Carried ==
    \A o \in Ops :
        /\ op[o].pc = "locate_secondaries" => rec[op[o].at] = Written(o)
        /\ op[o].pc = "replicate" => \A i \in 1..Len(Replicas[op[o].view]) \ op[o].todo :
              rec[Replicas[op[o].view][i]] = Written(o)

\* The inductive invariant.
AckInv == BaseInv /\ OneAtATime /\ Carried

\* Nobody else writes while a mutation fans out.
LEMMA CarriedStep ==
    ASSUME AckInv, [Next]_vars
    PROVE  Carried'
<1>0. /\ BaseInv /\ TypeOK /\ op \in [Ops -> OpType] /\ rec \in [Nodes -> Records]
      /\ Carried /\ OneAtATime
    BY DEF AckInv, BaseInv, TypeOK
<1>1. ASSUME NEW x \in Ops, Step(x) PROVE Carried'
  <2>0. \A o \in Ops \ {x} : op'[o] = op[o] /\ op[o].pc \in {"new", "done"}
    BY <1>0, <1>1, StepFrame, SteppingIsInFlight DEF OneAtATime, InFlight
  <2> SUFFICES
        /\ op'[x].pc = "locate_secondaries" => rec'[op'[x].at] = Written(x)'
        /\ op'[x].pc = "replicate" => \A i \in 1..Len(Replicas[op'[x].view]) \ op'[x].todo :
              rec'[Replicas[op'[x].view][i]] = Written(x)'
    BY <2>0 DEF Carried
  <2>1. Written(x)' = Written(x) /\ op'[x].at = op[x].at /\ op[x].at \in Nodes
    BY <1>0, <1>1, StepFrame DEF Written, OpType
  <2>2. CASE WriteLocal(x)
    BY <1>0, <2>1, <2>2 DEF WriteLocal, Finish, OpType
  <2>3. CASE LocateSecondaries(x)
    <3> DEFINE v == layout[op[x].at]
    <3>1. /\ op[x].pc = "locate_secondaries" /\ op'[x].pc = "replicate" /\ rec' = rec
          /\ op'[x].view = v
          /\ op'[x].todo = {i \in 1..Len(Replicas[v]) : Replicas[v][i] # op[x].at}
        BY <1>0, <2>3 DEF LocateSecondaries, OpType
    <3>2. rec[op[x].at] = Written(x)
        BY <1>0, <3>1 DEF Carried
    <3>3. QED
        BY <2>1, <3>1, <3>2
  <2>4. CASE ReplicateTo(x)
    <3>1. CASE op' = [op EXCEPT ![x].pc = "rollback"]
        BY <1>0, <3>1 DEF OpType
    <3>2. CASE /\ rec' = [rec EXCEPT ![NextReplica(x)] = Written(x)]
               /\ op' = [op EXCEPT ![x].todo = @ \ {Least(@)}]
      <4>1. op[x].pc = "replicate" /\ op[x].todo # {} /\ NextReplica(x) \in Nodes
        BY <1>0, <2>4, ReplicaIsNode DEF ReplicateTo
      <4>2. /\ op'[x].pc = "replicate" /\ op'[x].view = op[x].view
            /\ op'[x].todo = op[x].todo \ {Least(op[x].todo)}
        BY <1>0, <3>2, <4>1 DEF OpType
      <4>3. op[x].view \in ViewIds
        BY <1>0, <4>1, ReplicaIsNode
      <4>4. ASSUME NEW i \in 1..Len(Replicas[op[x].view]), i \notin op'[x].todo
            PROVE  rec'[Replicas[op[x].view][i]] = Written(x)
        <5>1. Replicas[op[x].view][i] \in Nodes
            BY <4>3, ViewsAssumption
        <5>2. CASE i \notin op[x].todo
          <6>1. rec[Replicas[op[x].view][i]] = Written(x)
            BY <1>0, <4>1, <5>2 DEF Carried
          <6>2. QED
            BY <1>0, <3>2, <5>1, <6>1
        <5>3. CASE i = Least(op[x].todo)
          <6>1. Replicas[op[x].view][i] = NextReplica(x)
            BY <5>3 DEF NextReplica
          <6>2. QED
            BY <1>0, <3>2, <4>1, <6>1
        <5>4. QED
            BY <4>2, <4>4, <5>2, <5>3
      <4>5. QED
        BY <2>1, <4>2, <4>4
    <3>3. QED
        BY <2>4, <3>1, <3>2 DEF ReplicateTo
  <2>5. CASE ~WriteLocal(x) /\ ~LocateSecondaries(x) /\ ~ReplicateTo(x)
    <3>1. op'[x].pc \notin {"locate_secondaries", "replicate"}
      <4>1. CASE Forward(x) \/ Reply(x) \/ ConfirmStart(x)
        BY <1>0, <4>1 DEF Forward, Reply, ConfirmStart, Fail, OpType
      <4>2. CASE ConfirmPeer(x)
        BY <1>0, <4>2 DEF ConfirmPeer, Fail, OpType
      <4>3. CASE ConfirmDone(x) \/ LocateGet(x) \/ GetDone(x)
        BY <1>0, <4>3 DEF ConfirmDone, LocateGet, GetDone, Fail, OpType
      <4>4. CASE GetReplica(x)
        BY <1>0, <4>4 DEF GetReplica, Compare, Fail, OpType
      <4>5. CASE ReadPrevious(x)
        BY <1>0, <4>5 DEF ReadPrevious, Finish, OpType
      <4>6. CASE ReplicateDone(x)
        BY <1>0, <4>6 DEF ReplicateDone, Finish, OpType
      <4>7. CASE RollbackDelete(x) \/ RestorePut(x)
        BY <1>0, <4>7 DEF RollbackDelete, RestorePut, Finish, OpType
      <4>. QED
        BY <1>1, <2>5, <4>1, <4>2, <4>3, <4>4, <4>5, <4>6, <4>7 DEF Step
    <3>2. QED
        BY <3>1
  <2>6. QED
    BY <2>2, <2>3, <2>4, <2>5
<1>2. ASSUME NEW x \in Ops, NEW n \in Entry, NEW q \in Menu[x], Begin(x, n, q)
      PROVE  Carried'
  <2>1. /\ rec' = rec /\ \A o \in Ops \ {x} : op'[o] = op[o]
        /\ op'[x].pc \notin {"locate_secondaries", "replicate"}
    BY <1>0, <1>2 DEF Begin, OpType
  <2>2. QED
    BY <1>0, <2>1 DEF Carried, Written
<1>3. CASE UNCHANGED <<op, rec>>
    BY <1>0, <1>3 DEF Carried, Written
<1>4. QED
    BY <1>1, <1>2, <1>3 DEF Next, Adopt, AdoptConf, AdoptSpace, AdoptLayout, vars

\* AckMeansEveryReplica: when clients take turns, replicate_*_to_secondaries returns
\* success only while every replica of the list it located holds what was written,
\* whatever configurations were adopted and whatever calls failed meanwhile.
THEOREM AcksMeanEveryReplica ==
    ASSUME MaxConcurrent = 1 PROVE Spec => AckMeansEveryReplica
<1> DEFINE Ack(o) ==
              op[o].pc = "replicate" /\ op'[o].result = "ok"
                  => \A i \in 1..Len(Replicas[op[o].view]) :
                        rec[Replicas[op[o].view][i]] = Written(o)
<1>1. Init => AckInv
  <2> SUFFICES ASSUME Init PROVE AckInv
    OBVIOUS
  <2>1. \A o \in Ops : op[o].pc = "new"
    BY DEF Init
  <2>2. QED
    BY <2>1, BaseInit DEF AckInv, OneAtATime, InFlight, Carried
<1>2. AckInv /\ [Next]_vars => AckInv'
    BY BaseStep, TurnsStep, CarriedStep DEF AckInv
<1>3. AckInv /\ [Next]_vars => [\A o \in Ops : Ack(o)]_vars
  <2> SUFFICES ASSUME AckInv, Next, NEW o \in Ops, op[o].pc = "replicate", op'[o].result = "ok"
               PROVE  \A i \in 1..Len(Replicas[op[o].view]) :
                         rec[Replicas[op[o].view][i]] = Written(o)
    OBVIOUS
  <2>0. op \in [Ops -> OpType] /\ op[o].result = "none" /\ BaseInv /\ TypeOK
    BY DEF AckInv, BaseInv, TypeOK, Sound
  <2>1. op[o].todo = {}
    <3>1. CASE op'[o] = op[o]
        BY <2>0, <3>1
    <3>2. CASE op'[o] # op[o]
      <4>1. PICK x \in Ops : Step(x) \/ \E m \in Entry, q \in Menu[x] : Begin(x, m, q)
        BY <3>2 DEF Next, Adopt, AdoptConf, AdoptSpace, AdoptLayout
      <4>2. ASSUME NEW m \in Entry, NEW q \in Menu[x], Begin(x, m, q) PROVE FALSE
        BY <2>0, <3>2, <4>2 DEF Begin
      <4>3. Step(o)
        BY <2>0, <3>2, <4>1, <4>2, StepFrame
      <4>4. ReplicateDone(o) \/ ReplicateTo(o)
        BY <4>3 DEF Step, Forward, Reply, ConfirmStart, ConfirmPeer, ConfirmDone,
           LocateGet, GetReplica, GetDone, ReadPrevious, WriteLocal, LocateSecondaries,
           RollbackDelete, RestorePut
      <4>5. ~ReplicateTo(o)
        BY <2>0 DEF ReplicateTo, OpType
      <4>6. QED
        BY <4>4, <4>5 DEF ReplicateDone
    <3>3. QED
        BY <3>1, <3>2
  <2>2. QED
    BY <2>1 DEF AckInv, Carried
<1>4. QED
    BY <1>1, <1>2, <1>3, PTL DEF Spec, AckMeansEveryReplica

-------------------------------------------------------------------------------
(* A primary and at most one secondary, no answer lost.                       *)

\* One configuration with at most one secondary, replicas that know the space,
\* one operation at a time, and calls that fail before they reach the peer.
Pair ==
    /\ MaxConcurrent = 1 /\ MaxLost = 0
    /\ Len(Views) = 1 /\ Len(Replicas[1]) <= 2
    /\ \A i \in 1..Len(Replicas[1]) : Replicas[1][i] \in HasSpace

\* How far the secondary is behind the primary at every point of an operation.
InStep(o) ==
    /\ op[o].pc \in {"new", "forward", "confirm_start", "confirm_peers", "confirm", "read", "locate_get"}
          => op[o].agreed = Unread
    /\ op[o].pc = "get" => op[o].agreed \in {Unread, rec[ThePrimary]}
    /\ op[o].pc = "write" => op[o].previous = rec[ThePrimary]
    /\ op[o].pc \in {"locate_secondaries", "replicate"} => rec[ThePrimary] = Written(o)
    /\ op[o].pc = "locate_secondaries" /\ Fan = 2 => rec[LastReplica] = op[o].previous
    /\ op[o].pc = "replicate" /\ op[o].todo = {} => rec[LastReplica] = Written(o)
    /\ op[o].pc = "replicate" /\ op[o].todo # {} => rec[LastReplica] = op[o].previous
    /\ op[o].pc \in {"rollback", "restore"} => rec[LastReplica] = op[o].previous
    /\ op[o].pc \in {"locate_secondaries", "replicate", "rollback", "restore"}
       /\ op[o].kind = "cput" => op[o].previous = op[o].expect

\* Between operations the replicas are equal.
PairInv ==
    /\ BaseInv /\ SecondariesOnly /\ AtPrimary /\ LastComesLast /\ RollbackHasSecondary
    /\ OneAtATime
    /\ Unanswered = {} => rec[ThePrimary] = rec[LastReplica]
    /\ \A o \in Ops : InStep(o)

\* The configuration of a pair lists one node, or two different ones, the primary first.
LEMMA PairList ==
    ASSUME Pair
    PROVE  /\ Len(Views) = 1 /\ Fan \in {1, 2} /\ ThePrimary \in Nodes /\ LastReplica \in Nodes
           /\ \A i \in 1..Fan : Replicas[1][i] \in {ThePrimary, LastReplica}
           /\ Fan = 1 => LastReplica = ThePrimary
           /\ Fan = 2 => LastReplica # ThePrimary
<1>1. Len(Views) = 1 /\ Fan <= 2 /\ Fan \in Nat \ {0}
    BY OneList DEF Pair, Fan
<1>2. Fan \in {1, 2}
    BY <1>1
<1>3. Fan = 2 => LastReplica # ThePrimary
    BY <1>1, OneList DEF LastReplica, ThePrimary
<1>4. \A i \in 1..Fan : Replicas[1][i] \in {ThePrimary, LastReplica}
  <2> SUFFICES ASSUME NEW i \in 1..Fan PROVE Replicas[1][i] \in {ThePrimary, LastReplica}
    OBVIOUS
  <2>1. i = 1 \/ i = Fan
    BY <1>2
  <2>2. QED
    BY <2>1 DEF LastReplica, ThePrimary
<1>5. QED
    BY <1>1, <1>2, <1>3, <1>4, OneList DEF LastReplica, ThePrimary

\* While one operation is in flight the others are not unanswered.
LEMMA OnlyUnanswered ==
    ASSUME OneAtATime, NEW x \in Ops, x \in InFlight
    PROVE  /\ \A o \in Ops \ {x} : op[o].pc \in {"new", "done"}
           /\ Unanswered = IF op[x].pc \in {"locate_secondaries", "replicate", "rollback", "restore"}
                           THEN {x} ELSE {}
BY DEF OneAtATime, InFlight, Unanswered

\* Every step keeps the secondary where the primary's progress says it is.
LEMMA PairStep ==
    ASSUME Pair, PairInv, [Next]_vars
    PROVE  /\ Unanswered' = {} => rec'[ThePrimary] = rec'[LastReplica]
           /\ \A o \in Ops : InStep(o)'
<1> DEFINE Goal == /\ Unanswered' = {} => rec'[ThePrimary] = rec'[LastReplica]
                   /\ \A o \in Ops : InStep(o)'
<1> SUFFICES Goal
    OBVIOUS
<1>0. /\ BaseInv /\ TypeOK /\ op \in [Ops -> OpType] /\ rec \in [Nodes -> Records]
      /\ \A o \in Ops : Sound(op[o]) /\ InStep(o)
      /\ SecondariesOnly /\ AtPrimary /\ LastComesLast /\ RollbackHasSecondary /\ OneAtATime
      /\ ThePrimary \in Nodes /\ LastReplica \in Nodes
      /\ Unanswered = {} => rec[ThePrimary] = rec[LastReplica]
    BY PairList DEF PairInv, BaseInv, TypeOK
<1>1. ASSUME NEW x \in Ops, Step(x) PROVE Goal
  <2> DEFINE Late == {"locate_secondaries", "replicate", "rollback", "restore"}
  <2>0. /\ \A o \in Ops \ {x} : op'[o] = op[o] /\ op[o].pc \in {"new", "done"}
        /\ x \in InFlight
        /\ op[x].pc \notin Late => Unanswered = {}
        /\ op[x].at \in Nodes
        /\ op[x].kind # "get" => op[x].at = ThePrimary
        /\ Written(x)' = Written(x)
        /\ op'[x].kind = op[x].kind /\ op'[x].expect = op[x].expect
    BY <1>0, <1>1, StepFrame, SteppingIsInFlight, OnlyUnanswered
       DEF AtPrimary, InFlight, Written, OpType
  <2>1. \A o \in Ops \ {x} : InStep(o)'
    <3> SUFFICES ASSUME NEW o \in Ops \ {x} PROVE InStep(o)'
        OBVIOUS
    <3>1. op'[o] = op[o] /\ op[o].pc \in {"new", "done"} /\ InStep(o)
        BY <1>0, <2>0
    <3>2. QED
        BY <3>1 DEF InStep
  <2>2. SUFFICES /\ op'[x].pc \notin Late => rec'[ThePrimary] = rec'[LastReplica]
                 /\ InStep(x)'
    BY <2>1 DEF Unanswered
  <2>3. CASE Forward(x) \/ Reply(x) \/ ConfirmStart(x) \/ ConfirmPeer(x) \/ ConfirmDone(x)
    <3>1. /\ op[x].pc \in {"forward", "reply", "confirm_start", "confirm_peers", "confirm"} /\ rec' = rec
          /\ op'[x].agreed = op[x].agreed
          /\ op'[x].pc \in {"confirm_start", "confirm_peers", "confirm", "read", "locate_get", "done"}
          /\ op[x].pc = "reply" => op'[x].pc = "done"
        BY <1>0, <2>3 DEF Forward, Reply, ConfirmStart, ConfirmPeer, ConfirmDone, Fail, Refuse, OpType
    <3>2. QED
        BY <1>0, <2>0, <3>1 DEF InStep
  <2>4. CASE LocateGet(x)
    <3>1. /\ op[x].pc = "locate_get" /\ rec' = rec
          /\ op'[x].agreed = op[x].agreed /\ op'[x].pc = "get"
        BY <1>0, <2>4 DEF LocateGet, OpType
    <3>2. QED
        BY <1>0, <2>0, <3>1 DEF InStep
  <2>5. CASE GetReplica(x)
    <3>1. op[x].pc = "get" /\ op[x].todo # {} /\ rec' = rec
        BY <2>5 DEF GetReplica, Refuse
    <3>2. rec[NextReplica(x)] = rec[ThePrimary]
      <4>1. op[x].view = 1 /\ Least(op[x].todo) \in 1..Fan
        BY <1>0, <3>1, ReplicaIsNode, PairList, OneList DEF Fan
      <4>2. NextReplica(x) \in {ThePrimary, LastReplica}
        BY <4>1, PairList DEF NextReplica
      <4>3. QED
        BY <1>0, <2>0, <3>1, <4>2
    <3>3. /\ op'[x].pc \in {"get", "done"}
          /\ op'[x].agreed \in {op[x].agreed, rec[NextReplica(x)]}
        BY <1>0, <2>5, <3>1 DEF GetReplica, Compare, Fail, OpType
    <3>4. QED
        BY <1>0, <2>0, <3>1, <3>2, <3>3 DEF InStep
  <2>6. CASE GetDone(x)
    <3>1. /\ op[x].pc = "get" /\ rec' = rec
          /\ \/ op'[x].pc = "done"
             \/ op[x].agreed # Unread /\ op'[x].pc = "write" /\ op'[x].previous = op[x].agreed
        BY <1>0, <2>6 DEF GetDone, Fail, OpType
    <3>2. QED
        BY <1>0, <2>0, <3>1 DEF InStep
  <2>7. CASE ReadPrevious(x)
    <3>1. /\ op[x].pc = "read" /\ rec' = rec
          /\ op'[x].pc = "write" /\ op'[x].previous = rec[op[x].at]
        BY <1>0, <2>7 DEF ReadPrevious, OpType
    <3>2. op[x].kind # "get"
        BY <1>0, <3>1 DEF Sound
    <3>3. QED
        BY <1>0, <2>0, <3>1, <3>2 DEF InStep
  <2>8. CASE WriteLocal(x)
    <3>0. op[x].pc = "write" /\ op[x].kind # "get" /\ op[x].at = ThePrimary
        BY <1>0, <2>0, <2>8 DEF WriteLocal, Sound
    <3>1. CASE ~Passes(x)
      <4>1. rec' = rec /\ op'[x].pc \in {"done", "reply"}
        BY <1>0, <2>8, <3>1 DEF WriteLocal, Finish, OpType
      <4>2. QED
        BY <1>0, <2>0, <3>0, <4>1 DEF InStep
    <3>2. CASE Passes(x)
      <4>1. /\ rec' = [rec EXCEPT ![ThePrimary] = Written(x)]
            /\ op'[x].pc = "locate_secondaries" /\ op'[x].previous = op[x].previous
        BY <1>0, <2>8, <3>0, <3>2 DEF WriteLocal, OpType
      <4>2. op[x].previous = rec[ThePrimary] /\ rec[ThePrimary] = rec[LastReplica]
        BY <1>0, <2>0, <3>0 DEF InStep
      <4>3. op[x].kind = "cput" => op[x].previous = op[x].expect
        BY <3>0, <3>2, <4>2 DEF Passes
      <4>4. rec'[ThePrimary] = Written(x) /\ (Fan = 2 => rec'[LastReplica] = op[x].previous)
        BY <1>0, <4>1, <4>2, PairList
      <4>5. QED
        BY <2>0, <4>1, <4>3, <4>4 DEF InStep
    <3>3. QED
        BY <3>1, <3>2
  <2>9. CASE LocateSecondaries(x)
    <3>1. /\ op[x].pc = "locate_secondaries" /\ rec' = rec
          /\ op'[x].pc = "replicate" /\ op'[x].previous = op[x].previous
        BY <1>0, <2>9 DEF LocateSecondaries, OpType
    <3>2. op[x].kind # "get" /\ layout[op[x].at] = 1 /\ op[x].at = ThePrimary
        BY <1>0, <2>0, <3>1, RoutingExists, PairList, OneList DEF Sound
    <3>3. op'[x].todo = {i \in 1..Fan : Replicas[1][i] # ThePrimary}
        BY <1>0, <2>9, <3>2 DEF LocateSecondaries, OpType, Fan
    <3>4. op'[x].todo = {} <=> Fan = 1
        BY <3>3, PairList, OneList DEF ThePrimary, LastReplica
    <3>5. QED
        BY <1>0, <2>0, <3>1, <3>4, PairList DEF InStep
  <2>10. CASE ReplicateTo(x)
    <3>1. op[x].pc = "replicate" /\ op[x].todo # {} /\ op[x].kind # "get"
        BY <1>0, <2>10 DEF ReplicateTo, Sound
    <3>2. /\ op[x].view = 1 /\ op[x].todo \subseteq 1..Fan /\ Fan \in op[x].todo
          /\ Least(op[x].todo) \in op[x].todo
        BY <1>0, <3>1, PairList, OneList, ReplicaIsNode DEF Sound, LastComesLast, Fan
    <3>3. \A i \in op[x].todo : Replicas[1][i] # ThePrimary
        BY <1>0, <2>0, <3>1, <3>2 DEF SecondariesOnly
    <3>4. Fan = 2 /\ op[x].todo = {2} /\ Least(op[x].todo) = 2
        BY <3>2, <3>3, PairList DEF ThePrimary
    <3>5. NextReplica(x) = LastReplica /\ LastReplica # ThePrimary
        BY <3>2, <3>4, PairList DEF NextReplica, LastReplica
    <3>6. lost' # lost + 1 \/ ~(lost < MaxLost)
        BY <1>0 DEF Pair, TypeOK
    <3>7. CASE /\ rec' = [rec EXCEPT ![NextReplica(x)] = Written(x)]
               /\ op' = [op EXCEPT ![x].todo = @ \ {Least(@)}]
      <4>1. op'[x].pc = "replicate" /\ op'[x].todo = {} /\ op'[x].previous = op[x].previous
        BY <1>0, <3>1, <3>4, <3>7 DEF OpType
      <4>2. rec'[ThePrimary] = rec[ThePrimary] /\ rec'[LastReplica] = Written(x)
        BY <1>0, <3>5, <3>7
      <4>3. QED
        BY <1>0, <2>0, <3>1, <4>1, <4>2 DEF InStep
    <3>8. CASE rec' = rec /\ op' = [op EXCEPT ![x].pc = "rollback"]
      <4>1. op'[x].pc = "rollback" /\ op'[x].previous = op[x].previous
        BY <1>0, <3>8 DEF OpType
      <4>2. QED
        BY <1>0, <2>0, <3>1, <3>8, <4>1 DEF InStep
    <3>9. QED
        BY <2>10, <3>6, <3>7, <3>8 DEF ReplicateTo, Refuse
  <2>11. CASE ReplicateDone(x)
    <3>1. /\ op[x].pc = "replicate" /\ op[x].todo = {} /\ rec' = rec
          /\ op'[x].pc \in {"done", "reply"}
        BY <1>0, <2>11 DEF ReplicateDone, Finish, OpType
    <3>2. QED
        BY <1>0, <2>0, <3>1 DEF InStep
  <2>12. CASE RollbackDelete(x)
    <3>1. op[x].pc = "rollback" /\ op[x].kind # "get"
        BY <1>0, <2>12 DEF RollbackDelete, Sound
    <3>2. rec' = [rec EXCEPT ![ThePrimary] = NoRec] /\ Fan = 2
      <4>1. Fan > 1
        BY <1>0, <3>1 DEF RollbackHasSecondary
      <4>2. rec' = [rec EXCEPT ![ThePrimary] = NoRec]
        BY <2>0, <2>12, <3>1 DEF RollbackDelete
      <4>3. QED
        BY <4>1, <4>2, PairList
    <3>3. rec'[ThePrimary] = NoRec /\ rec'[LastReplica] = op[x].previous
        BY <1>0, <3>1, <3>2, PairList DEF InStep
    <3>4. \/ op[x].previous = NoRec /\ op'[x].pc \in {"done", "reply"}
          \/ op'[x].pc = "restore" /\ op'[x].previous = op[x].previous
        BY <1>0, <2>12 DEF RollbackDelete, Finish, OpType
    <3>5. QED
        BY <1>0, <2>0, <3>1, <3>3, <3>4 DEF InStep
  <2>13. CASE RestorePut(x)
    <3>1. /\ op[x].pc = "restore" /\ op[x].kind # "get" /\ op'[x].pc \in {"done", "reply"}
          /\ rec' = [rec EXCEPT ![op[x].at] = op[x].previous]
        BY <1>0, <2>13 DEF RestorePut, Sound, Finish, OpType
    <3>2. rec'[ThePrimary] = op[x].previous /\ rec'[LastReplica] = op[x].previous
        BY <1>0, <2>0, <3>1, PairList DEF InStep
    <3>3. QED
        BY <2>0, <3>1, <3>2 DEF InStep
  <2>14. QED
    BY <1>1, <2>3, <2>4, <2>5, <2>6, <2>7, <2>8, <2>9, <2>10, <2>11, <2>12, <2>13 DEF Step
<1>2. ASSUME NEW x \in Ops, NEW n \in Entry, NEW q \in Menu[x], Begin(x, n, q)
      PROVE  Goal
  <2>1. /\ rec' = rec /\ \A o \in Ops \ {x} : op'[o] = op[o]
        /\ op[x].pc = "new" /\ op'[x].agreed = op[x].agreed
        /\ op'[x].pc \in {"done", "forward", "confirm_start", "locate_get"}
    BY <1>0, <1>2 DEF Begin, OpType
  <2>2. Unanswered' = Unanswered
    BY <2>1 DEF Unanswered
  <2>3. InStep(x)'
    BY <1>0, <2>1 DEF InStep
  <2>4. \A o \in Ops \ {x} : InStep(o)'
    BY <1>0, <2>1 DEF InStep, Written
  <2>5. QED
    BY <1>0, <2>1, <2>2, <2>3, <2>4
<1>3. CASE UNCHANGED <<op, rec>>
    BY <1>0, <1>3 DEF InStep, Unanswered, Written
<1>4. QED
    BY <1>1, <1>2, <1>3 DEF Next, Adopt, AdoptConf, AdoptSpace, AdoptLayout, vars

\* The invariant of a pair is inductive.
LEMMA PairInvariant ==
    ASSUME Pair
    PROVE  (Init => PairInv) /\ (PairInv /\ [Next]_vars => PairInv')
<1>1. ASSUME Init PROVE PairInv
  <2>1. \A o \in Ops : op[o].pc = "new" /\ op[o].kind = "get" /\ op[o].agreed = Unread
    BY <1>1 DEF Init
  <2>2. rec[ThePrimary] = Initial /\ rec[LastReplica] = Initial
    BY <1>1, PairList, OneList DEF Init, Pair, ThePrimary, LastReplica, Fan
  <2>3. QED
    BY <1>1, <2>1, <2>2, BaseInit DEF PairInv, SecondariesOnly, AtPrimary, LastComesLast,
       RollbackHasSecondary, OneAtATime, InFlight, InStep
<1>2. ASSUME PairInv, [Next]_vars PROVE PairInv'
  <2>1. BaseInv' /\ SecondariesOnly' /\ AtPrimary'
    BY <1>2, PairList, BaseStep, SecondariesOnlyStep, AtPrimaryStep DEF PairInv
  <2>2. LastComesLast' /\ RollbackHasSecondary'
    BY <1>2, PairList, VisitStep DEF PairInv
  <2>3. OneAtATime'
    BY <1>2, TurnsStep DEF PairInv, Pair
  <2>4. QED
    BY <1>2, <2>1, <2>2, <2>3, PairStep DEF PairInv
<1>3. QED
    BY <1>1, <1>2

-------------------------------------------------------------------------------
(* The refinement.                                                            *)

\* The phases between a mutation's local write and its answer.
Late == {"locate_secondaries", "replicate", "rollback", "restore"}

\* Three things a step of operation x can be to a client: nothing, a failure
\* without an effect, or the operation taking effect.
Silent(x) == Committed' = Committed /\ Answered(x)' = Answered(x)
Fails(x) ==
    /\ op[x].result = "none" /\ Committed' = Committed
    /\ Answered(x)' = [status |-> "err", record |-> NoRec]
TakesEffect(x) ==
    /\ op[x].result = "none"
    /\ \/ /\ op[x].kind = "get" /\ Committed' = Committed
          /\ Answered(x)' = [status |-> "ok", record |-> Committed]
       \/ /\ op[x].kind = "cput" /\ Committed # op[x].expect /\ Committed' = Committed
          /\ Answered(x)' = [status |-> "condition_failed", record |-> NoRec]
       \/ /\ op[x].kind # "get" /\ (op[x].kind = "cput" => Committed = op[x].expect)
          /\ Committed' = Written(x)
          /\ Answered(x)' = [status |-> "ok", record |-> NoRec]

\* Every step of an operation is one of the three.
LEMMA StepIsOneOf ==
    ASSUME Pair, PairInv, NEW x \in Ops, Step(x)
    PROVE  Silent(x) \/ Fails(x) \/ TakesEffect(x)
<1>0. /\ BaseInv /\ TypeOK /\ op \in [Ops -> OpType] /\ rec \in [Nodes -> Records]
      /\ Sound(op[x]) /\ InStep(x) /\ OneAtATime /\ AtPrimary
      /\ ThePrimary \in Nodes /\ LastReplica \in Nodes /\ x \in InFlight
    BY PairList, SteppingIsInFlight DEF PairInv, BaseInv, TypeOK
<1>1. /\ \A o \in Ops \ {x} : op'[o] = op[o] /\ op[o].pc \in {"new", "done"}
      /\ op[x].at \in Nodes
      /\ op[x].kind # "get" => op[x].at = ThePrimary
      /\ op'[x].kind = op[x].kind /\ op'[x].expect = op[x].expect /\ op'[x].value = op[x].value
    BY <1>0, StepFrame, OnlyUnanswered DEF AtPrimary, InFlight, OpType
<1>2. /\ op[x].pc \in Late => Committed = op[x].previous
      /\ op[x].pc \notin Late => Committed = rec[ThePrimary]
  <2>1. Unanswered = IF op[x].pc \in Late THEN {x} ELSE {}
    BY <1>0, OnlyUnanswered DEF Late
  <2>2. QED
    BY <2>1 DEF Committed, ThePrimary
<1>3. /\ op'[x].pc \in Late => Committed' = op'[x].previous
      /\ op'[x].pc \notin Late => Committed' = rec'[ThePrimary]
  <2>1. Unanswered' = IF op'[x].pc \in Late THEN {x} ELSE {}
    BY <1>1 DEF Unanswered, Late
  <2>2. QED
    BY <2>1 DEF Committed, ThePrimary
<1>4. op[x].pc # "reply" => op[x].result = "none"
    BY <1>0 DEF Sound, InFlight
<1>5. /\ Answered(x) = [status |-> op[x].result,
                        record |-> IF op[x].kind = "get" /\ op[x].result = "ok" THEN op[x].agreed ELSE NoRec]
      /\ Answered(x)' = [status |-> op'[x].result,
                        record |-> IF op[x].kind = "get" /\ op'[x].result = "ok" THEN op'[x].agreed ELSE NoRec]
    BY <1>1 DEF Answered
<1>6. CASE Forward(x) \/ ConfirmStart(x) \/ ConfirmPeer(x) \/ ConfirmDone(x) \/ LocateGet(x) \/ GetReplica(x)
  <2>1. /\ op[x].pc \notin Late \cup {"reply"} /\ rec' = rec /\ op'[x].pc \notin Late
        /\ op'[x].result = op[x].result \/ op'[x].result = "err"
    BY <1>0, <1>6 DEF Forward, ConfirmStart, ConfirmPeer, ConfirmDone, LocateGet, GetReplica, Compare,
       Fail, Refuse, OpType, Late
  <2>2. QED
    BY <1>2, <1>3, <1>4, <1>5, <2>1 DEF Silent, Fails
<1>7. CASE Reply(x)
  <2>1. op[x].pc = "reply" /\ op[x].kind # "get" /\ rec' = rec
    BY <1>0, <1>7 DEF Reply, Sound
  <2>2. ~(lost < MaxLost)
    BY <1>0 DEF Pair, TypeOK
  <2>3. op'[x].pc = "done" /\ op'[x].result = op[x].result
    BY <1>0, <1>7, <2>2 DEF Reply, OpType
  <2>4. QED
    BY <1>2, <1>3, <1>5, <2>1, <2>3 DEF Silent, Late
<1>8. CASE GetDone(x)
  <2>1. op[x].pc = "get" /\ rec' = rec /\ op[x].agreed \in {Unread, rec[ThePrimary]}
    BY <1>0, <1>8 DEF GetDone, InStep
  <2>2. CASE Fail(x)
    <3>1. op'[x].pc = "done" /\ op'[x].result = "err"
        BY <1>0, <2>2 DEF Fail, OpType
    <3>2. QED
        BY <1>2, <1>3, <1>4, <1>5, <2>1, <3>1 DEF Fails, Late
  <2>3. CASE /\ op[x].agreed # Unread /\ op[x].kind = "get"
             /\ op' = [op EXCEPT ![x].pc = "done", ![x].result = "ok"]
    <3>1. op'[x].pc = "done" /\ op'[x].result = "ok" /\ op'[x].agreed = op[x].agreed
        BY <1>0, <2>3 DEF OpType
    <3>2. QED
        BY <1>2, <1>3, <1>4, <1>5, <2>1, <2>3, <3>1 DEF TakesEffect, Late
  <2>4. CASE op' = [op EXCEPT ![x].pc = "write", ![x].previous = op[x].agreed]
    <3>1. op'[x].pc = "write" /\ op'[x].result = op[x].result
        BY <1>0, <2>4 DEF OpType
    <3>2. QED
        BY <1>2, <1>3, <1>4, <1>5, <2>1, <3>1 DEF Silent, Late
  <2>5. QED
    BY <1>8, <2>2, <2>3, <2>4 DEF GetDone
<1>9. CASE ReadPrevious(x)
  <2>1. op[x].pc = "read" /\ rec' = rec /\ op'[x].pc = "write" /\ op'[x].result = op[x].result
    BY <1>0, <1>9 DEF ReadPrevious, OpType
  <2>2. QED
    BY <1>2, <1>3, <1>4, <1>5, <2>1 DEF Silent, Late
<1>10. CASE WriteLocal(x)
  <2>1. op[x].pc = "write" /\ op[x].kind # "get" /\ op[x].previous = rec[ThePrimary] /\ op[x].at = ThePrimary
    BY <1>0, <1>1, <1>10 DEF WriteLocal, InStep, Sound
  <2>2. CASE Passes(x)
    <3>1. op'[x].pc = "locate_secondaries" /\ op'[x].previous = op[x].previous /\ op'[x].result = op[x].result
        BY <1>0, <1>10, <2>2 DEF WriteLocal, OpType
    <3>2. QED
        BY <1>2, <1>3, <1>4, <1>5, <2>1, <3>1 DEF Silent, Late
  <2>3. CASE ~Passes(x)
    <3>1. rec' = rec /\ op'[x].pc \in {"done", "reply"} /\ op'[x].result = "condition_failed"
        BY <1>0, <1>10, <2>3 DEF WriteLocal, Finish, OpType
    <3>2. op[x].kind = "cput" /\ rec[ThePrimary] # op[x].expect
        BY <2>1, <2>3 DEF Passes
    <3>3. QED
        BY <1>2, <1>3, <1>4, <1>5, <2>1, <3>1, <3>2 DEF TakesEffect, Late
  <2>4. QED
    BY <2>2, <2>3
<1>11. CASE LocateSecondaries(x) \/ ReplicateTo(x)
  <2>1. /\ op[x].pc \in Late /\ op'[x].pc \in Late /\ op'[x].previous = op[x].previous
        /\ op'[x].result = op[x].result
    BY <1>0, <1>11 DEF LocateSecondaries, ReplicateTo, OpType, Late
  <2>2. QED
    BY <1>2, <1>3, <1>4, <1>5, <2>1 DEF Silent, Late
<1>12. CASE ReplicateDone(x)
  <2>1. /\ op[x].pc = "replicate" /\ rec' = rec /\ op[x].kind # "get"
        /\ op'[x].pc \in {"done", "reply"} /\ op'[x].result = "ok"
    BY <1>0, <1>12 DEF ReplicateDone, Finish, OpType, Sound
  <2>2. rec[ThePrimary] = Written(x) /\ (op[x].kind = "cput" => op[x].previous = op[x].expect)
    BY <1>0, <2>1 DEF InStep
  <2>3. QED
    BY <1>2, <1>3, <1>4, <1>5, <2>1, <2>2 DEF TakesEffect, Late
<1>13. CASE RollbackDelete(x)
  <2>1. /\ op[x].pc = "rollback" /\ op[x].kind # "get" /\ rec' = [rec EXCEPT ![op[x].at] = NoRec]
    BY <1>0, <1>13 DEF RollbackDelete, Sound
  <2>2. rec'[ThePrimary] = NoRec
    BY <1>0, <1>1, <2>1
  <2>3. \/ op[x].previous = NoRec /\ op'[x].pc \in {"done", "reply"} /\ op'[x].result = "err"
        \/ op'[x].pc = "restore" /\ op'[x].previous = op[x].previous /\ op'[x].result = op[x].result
    BY <1>0, <1>13 DEF RollbackDelete, Finish, OpType
  <2>4. QED
    BY <1>2, <1>3, <1>4, <1>5, <2>1, <2>2, <2>3 DEF Silent, Fails, Late
<1>14. CASE RestorePut(x)
  <2>1. /\ op[x].pc = "restore" /\ op[x].kind # "get" /\ rec' = [rec EXCEPT ![op[x].at] = op[x].previous]
        /\ op'[x].pc \in {"done", "reply"} /\ op'[x].result = "err"
    BY <1>0, <1>14 DEF RestorePut, Finish, OpType, Sound
  <2>2. rec'[ThePrimary] = op[x].previous
    BY <1>0, <1>1, <2>1
  <2>3. QED
    BY <1>2, <1>3, <1>4, <1>5, <2>1, <2>2 DEF Fails, Late
<1>15. QED
    BY <1>6, <1>7, <1>8, <1>9, <1>10, <1>11, <1>12, <1>13, <1>14 DEF Step

\* What the register sees of the operations.
Requests == [o \in Ops |-> IF op[o].pc = "new" THEN Unread ELSE Asked(o)]
Answers == [o \in Ops |-> Answered(o)]

\* A step of an operation is a step of the register.
LEMMA StepIsAbstract ==
    ASSUME Pair, PairInv, NEW x \in Ops, Step(x)
    PROVE  [Abstract!Next]_(Abstract!vars)
<1>0. /\ TypeOK /\ op \in [Ops -> OpType] /\ Sound(op[x])
      /\ x \in InFlight
    BY SteppingIsInFlight DEF PairInv, BaseInv, TypeOK
<1>1. /\ \A o \in Ops \ {x} : op'[o] = op[o]
      /\ op'[x].kind = op[x].kind /\ op'[x].expect = op[x].expect /\ op'[x].value = op[x].value
    BY <1>0, StepFrame
<1>2. op[x].pc # "new" /\ op'[x].pc # "new"
  <2>1. CASE Forward(x) \/ Reply(x) \/ ConfirmStart(x)
    BY <1>0, <2>1 DEF Forward, Reply, ConfirmStart, Fail, InFlight, OpType
  <2>2. CASE ConfirmPeer(x)
    BY <1>0, <2>2 DEF ConfirmPeer, Fail, InFlight, OpType
  <2>3. CASE ConfirmDone(x) \/ LocateGet(x) \/ GetDone(x)
    BY <1>0, <2>3 DEF ConfirmDone, LocateGet, GetDone, Fail, InFlight, OpType
  <2>4. CASE GetReplica(x)
    BY <1>0, <2>4 DEF GetReplica, Compare, Fail, InFlight, OpType
  <2>5. CASE ReadPrevious(x) \/ WriteLocal(x)
    BY <1>0, <2>5 DEF ReadPrevious, WriteLocal, Finish, InFlight, OpType
  <2>6. CASE LocateSecondaries(x) \/ ReplicateDone(x)
    BY <1>0, <2>6 DEF LocateSecondaries, ReplicateDone, Finish, InFlight, OpType
  <2>7. CASE ReplicateTo(x)
    BY <1>0, <2>7 DEF ReplicateTo, InFlight, OpType
  <2>8. CASE RollbackDelete(x) \/ RestorePut(x)
    BY <1>0, <2>8 DEF RollbackDelete, RestorePut, Finish, InFlight, OpType
  <2>. QED
    BY <2>1, <2>2, <2>3, <2>4, <2>5, <2>6, <2>7, <2>8 DEF Step
<1>3. Requests' = Requests /\ Requests[x] = Asked(x) /\ Asked(x) # Unread
  <2>1. Requests' = Requests
    BY <1>1, <1>2 DEF Requests, Asked
  <2>2. Asked(x) \in RequestType
    BY <1>0 DEF Asked, RequestType, OpType
  <2>3. QED
    BY <1>2, <2>1, <2>2, RecordAssumption DEF Requests
<1>4. Answers' = [Answers EXCEPT ![x] = Answered(x)'] /\ Answers[x] = Answered(x)
    BY <1>1 DEF Answers, Answered
<1>5. op[x].result = "none" => Answered(x) = [status |-> "none", record |-> NoRec]
    BY DEF Answered
<1>6. CASE Silent(x)
  <2>1. Answers' = Answers
    BY <1>4, <1>6 DEF Silent, Answers
  <2>2. QED
    BY <1>3, <1>6, <2>1 DEF Silent, Abstract!vars, Requests, Answers
<1>7. CASE Fails(x)
  <2>1. Abstract!Fail(x)
    BY <1>3, <1>4, <1>5, <1>7 DEF Fails, Abstract!Fail, Abstract!Pending, Abstract!Waiting,
       Abstract!Error, Abstract!Answer, Requests, Answers
  <2>2. QED
    BY <2>1 DEF Abstract!Next
<1>8. CASE TakesEffect(x)
  <2> DEFINE q == Asked(x)
  <2>0. /\ q.kind = op[x].kind /\ q.value = op[x].value /\ q.expect = op[x].expect
        /\ q.kind \in Kinds
    BY <1>0 DEF Asked, OpType
  <2>1. Committed' = Abstract!After(q) /\ Answered(x)' = Abstract!AnswerTo(q)
    <3>1. CASE op[x].kind = "get"
        BY <1>8, <2>0, <3>1 DEF TakesEffect, Abstract!After, Abstract!AnswerTo, Abstract!Answer
    <3>2. CASE op[x].kind = "cput"
        BY <1>8, <2>0, <3>2 DEF TakesEffect, Abstract!After, Abstract!AnswerTo, Abstract!Answer, Written
    <3>3. CASE op[x].kind = "put"
        BY <1>8, <2>0, <3>3 DEF TakesEffect, Abstract!After, Abstract!AnswerTo, Abstract!Answer, Written
    <3>4. CASE op[x].kind = "delete"
        BY <1>8, <2>0, <3>4 DEF TakesEffect, Abstract!After, Abstract!AnswerTo, Abstract!Answer, Written
    <3>5. QED
        BY <2>0, <3>1, <3>2, <3>3, <3>4 DEF Kinds
  <2>2. Abstract!Take(x)
    BY <1>3, <1>4, <1>5, <1>8, <2>1 DEF TakesEffect, Abstract!Take, Abstract!Pending,
       Abstract!Waiting, Abstract!Answer, Requests, Answers
  <2>3. QED
    BY <2>2 DEF Abstract!Next
<1>9. QED
    BY <1>6, <1>7, <1>8, StepIsOneOf

\* A request that enters is a call, or a rejection by a node without the space.
LEMMA BeginIsAbstract ==
    ASSUME PairInv, NEW x \in Ops, NEW n \in Entry, NEW q \in Menu[x], Begin(x, n, q)
    PROVE  Abstract!Next
<1>0. op \in [Ops -> OpType] /\ Sound(op[x]) /\ op[x].pc = "new" /\ op[x].result = "none"
    BY DEF PairInv, BaseInv, TypeOK, Sound, Begin
<1>1. /\ rec' = rec /\ \A o \in Ops \ {x} : op'[o] = op[o]
      /\ op'[x].kind = q.kind /\ op'[x].value = q.value /\ op'[x].expect = q.expect
      /\ op'[x].pc \in {"done", "locate_get", "confirm_start", "forward"}
      /\ op'[x].result \in {"none", "err"}
    BY <1>0 DEF Begin, OpType
<1>2. Unanswered' = Unanswered /\ Committed' = Committed
  <2>1. Unanswered' = Unanswered
    BY <1>0, <1>1 DEF Unanswered
  <2>2. Unanswered # {} => (CHOOSE o \in Unanswered : TRUE) \in Ops \ {x}
    BY <1>0 DEF Unanswered
  <2>3. QED
    BY <1>1, <2>1, <2>2 DEF Committed
<1>3. Asked(x)' = q
    BY <1>1, MenuAssumption DEF Asked, RequestType
<1>4. Requests' = [Requests EXCEPT ![x] = q] /\ Requests[x] = Unread
    BY <1>0, <1>1, <1>3 DEF Requests, Asked
<1>5. Answered(x) = [status |-> "none", record |-> NoRec]
    BY <1>0 DEF Answered
<1>6. Answered(x)' = [status |-> op'[x].result, record |-> NoRec]
    BY <1>1 DEF Answered
<1>7. Answers' = [Answers EXCEPT ![x] = Answered(x)'] /\ Answers[x] = Answered(x)
    BY <1>1 DEF Answers, Answered
<1>8. CASE op'[x].result = "none"
  <2>1. Answers' = Answers
    BY <1>5, <1>6, <1>7, <1>8 DEF Answers
  <2>2. Abstract!Call(x, q)
    BY <1>2, <1>4, <2>1 DEF Abstract!Call, Requests, Answers
  <2>3. QED
    BY <2>2 DEF Abstract!Next
<1>9. CASE op'[x].result = "err"
  <2>1. Abstract!Reject(x, q)
    BY <1>2, <1>4, <1>6, <1>7, <1>9 DEF Abstract!Reject, Abstract!Error, Abstract!Answer, Requests, Answers
  <2>2. QED
    BY <2>1 DEF Abstract!Next
<1>10. QED
    BY <1>1, <1>8, <1>9

\* ImplementsRegister: a primary and a secondary serve clients that take turns as
\* one register would.  An operation takes effect when it is acknowledged: until then
\* the register holds the record the rollback would put back.
THEOREM Implements == ASSUME Pair PROVE Spec => ImplementsRegister
<1>1. Init => Abstract!Init
  <2> SUFFICES ASSUME Init PROVE Abstract!Init
    OBVIOUS
  <2>1. \A o \in Ops : op[o].pc = "new" /\ op[o].kind = "get" /\ op[o].result = "none"
    BY DEF Init
  <2>2. Unanswered = {}
    BY <2>1 DEF Unanswered
  <2>3. rec \in [Nodes -> Records]
    BY RecordAssumption DEF Init, Records
  <2>4. Committed \in Records
    BY <2>2, <2>3, PairList DEF Committed, ThePrimary
  <2>5. QED
    BY <2>1, <2>4 DEF Abstract!Init, Abstract!Waiting, Abstract!Answer, Answered
<1>2. PairInv /\ [Next]_vars => [Abstract!Next]_(Abstract!vars)
  <2> SUFFICES ASSUME PairInv, [Next]_vars PROVE [Abstract!Next]_(Abstract!vars)
    OBVIOUS
  <2>1. ASSUME UNCHANGED <<op, rec>> PROVE UNCHANGED Abstract!vars
    BY <2>1 DEF Abstract!vars, Committed, Unanswered, Asked, Answered
  <2>2. QED
    BY <2>1, StepIsAbstract, BeginIsAbstract
       DEF Next, Adopt, AdoptConf, AdoptSpace, AdoptLayout, vars
<1>3. QED
    BY <1>1, <1>2, PairInvariant, PTL DEF Spec, ImplementsRegister, Abstract!Spec

-------------------------------------------------------------------------------
(* Failed mutations.                                                          *)

\* A mutation whose value may be somewhere.
Applied(w) == op[w].pc \in Late \/ op[w].result = "ok"

\* Until a mutation is applied, and once it is undone, its value is at no replica and
\* in no record that a rollback would put back.
Traceless ==
    \A w \in Writers :
        /\ ~Applied(w) =>
              /\ rec[ThePrimary] # op[w].value /\ rec[LastReplica] # op[w].value
              /\ \A o \in Ops : op[o].pc \in Late => op[o].previous # op[w].value
        /\ op[w].pc \in Late => op[w].previous # op[w].value

\* Nodes that are not replicas keep what they started with.
Elsewhere == \A n \in Nodes \ {ThePrimary, LastReplica} : rec[n] \in {NoRec, Initial}

\* The inductive invariant.
TraceInv == PairInv /\ Provenance /\ Traceless /\ Elsewhere

\* A step keeps both.  Only the local write and the replication spread a value, both
\* that of an applied mutation; the rollback removes it, and the secondary never had it.
LEMMA TraceStep ==
    ASSUME Pair, ValuesNameWriters, TraceInv, [Next]_vars
    PROVE  Traceless' /\ Elsewhere'
<1>0. /\ BaseInv /\ TypeOK /\ op \in [Ops -> OpType] /\ rec \in [Nodes -> Records]
      /\ \A o \in Ops : Sound(op[o]) /\ InStep(o)
      /\ OneAtATime /\ AtPrimary /\ RollbackHasSecondary /\ Provenance /\ Traceless /\ Elsewhere
      /\ ThePrimary \in Nodes /\ LastReplica \in Nodes /\ PairInv
    BY PairList DEF TraceInv, PairInv, BaseInv, TypeOK
<1>1. ASSUME NEW x \in Ops, Step(x) PROVE Traceless' /\ Elsewhere'
  <2>0. /\ \A o \in Ops \ {x} : op'[o] = op[o] /\ op[o].pc \in {"new", "done"}
        /\ op[x].at \in Nodes /\ op[x].pc \notin {"new", "done"}
        /\ op[x].kind # "get" => op[x].at = ThePrimary
        /\ Writers' = Writers /\ \A w \in Writers : op'[w].value = op[w].value
    BY <1>0, <1>1, StepFrame, SteppingIsInFlight, OnlyUnanswered
       DEF AtPrimary, InFlight, OpType, Writers
  <2>1. \A w \in Writers : op[w].value # NoRec /\ (w # x /\ x \in Writers => op[x].value # op[w].value)
    BY <1>0, OneWriter
  <2>2. op[x].kind # "get" => \A w \in Writers \ {x} : Written(x) # op[w].value
    BY <1>0, <2>1 DEF Written, Writers, OpType, Kinds
  <2>3. ASSUME rec'[ThePrimary] = rec[ThePrimary], rec'[LastReplica] = rec[LastReplica],
               x \in Writers /\ Applied(x) => Applied(x)',
               op'[x].pc \in Late => op[x].pc \in Late /\ op'[x].previous = op[x].previous
        PROVE  Traceless'
    <3>1. \A w \in Writers : Applied(w) => Applied(w)'
        BY <2>0, <2>3 DEF Applied, Writers
    <3>2. \A o \in Ops : op'[o].pc \in Late => op[o].pc \in Late /\ op'[o].previous = op[o].previous
        BY <2>0, <2>3
    <3>3. QED
        BY <1>0, <2>0, <2>3, <3>1, <3>2 DEF Traceless, Writers
  <2>4. \A o \in Ops \ {x} : op'[o].pc \notin Late
    BY <2>0 DEF Late
  <2>5. \A w \in Writers \ {x} : Applied(w)' <=> Applied(w)
    BY <2>0 DEF Applied, Writers
  <2>6. ASSUME \A w \in Writers : ~Applied(w)' =>
                     /\ rec'[ThePrimary] # op[w].value /\ rec'[LastReplica] # op[w].value
                     /\ op'[x].previous # op[w].value,
                x \in Writers => op'[x].previous # op[x].value
         PROVE  Traceless'
    <3> SUFFICES ASSUME NEW w \in Writers'
                 PROVE  /\ ~Applied(w)' =>
                              /\ rec'[ThePrimary] # op'[w].value /\ rec'[LastReplica] # op'[w].value
                              /\ \A o \in Ops : op'[o].pc \in Late => op'[o].previous # op'[w].value
                        /\ op'[w].pc \in Late => op'[w].previous # op'[w].value
        BY DEF Traceless
    <3>1. w \in Writers /\ w \in Ops /\ op'[w].value = op[w].value
        BY <2>0 DEF Writers
    <3>2. QED
        BY <2>4, <2>6, <3>1
  <2>7. CASE WriteLocal(x) /\ Passes(x)
    <3>1. /\ op[x].pc = "write" /\ op[x].kind # "get" /\ op[x].result = "none"
          /\ op[x].previous = rec[ThePrimary]
        BY <1>0, <2>7 DEF WriteLocal, Sound, InStep
    <3>2. /\ rec' = [rec EXCEPT ![ThePrimary] = Written(x)]
          /\ op'[x].pc = "locate_secondaries" /\ op'[x].previous = op[x].previous
        BY <1>0, <2>0, <2>7, <3>1 DEF WriteLocal, OpType
    <3>3. ~Applied(x) /\ Applied(x)'
        BY <3>1, <3>2 DEF Applied, Late
    <3>4. x \in Writers => op'[x].previous # op[x].value
        BY <1>0, <3>1, <3>2, <3>3 DEF Traceless
    <3>5. ASSUME NEW w \in Writers \ {x}, ~Applied(w)
          PROVE  /\ rec'[ThePrimary] # op[w].value /\ rec'[LastReplica] # op[w].value
                 /\ op'[x].previous # op[w].value
      <4>1. rec[ThePrimary] # op[w].value /\ rec[LastReplica] # op[w].value
        BY <1>0, <3>5 DEF Traceless
      <4>2. QED
        BY <1>0, <2>2, <3>1, <3>2, <4>1
    <3>6. Traceless'
        BY <2>5, <2>6, <3>3, <3>4, <3>5
    <3>7. Elsewhere'
        BY <1>0, <3>2 DEF Elsewhere
    <3>8. QED
        BY <3>6, <3>7
  <2>8. CASE ReplicateTo(x)
    <3>1. op[x].pc = "replicate" /\ op[x].todo # {} /\ op[x].kind # "get"
        BY <1>0, <2>8 DEF ReplicateTo, Sound
    <3>2. NextReplica(x) \in {ThePrimary, LastReplica}
      <4>1. op[x].view = 1 /\ Least(op[x].todo) \in 1..Fan
        BY <1>0, <3>1, ReplicaIsNode, PairList, OneList DEF Fan
      <4>2. QED
        BY <4>1, PairList DEF NextReplica
    <3>3. /\ op'[x].pc \in {"replicate", "rollback"} /\ op'[x].previous = op[x].previous
          /\ rec' = rec \/ rec' = [rec EXCEPT ![NextReplica(x)] = Written(x)]
        BY <1>0, <2>8, <3>1 DEF ReplicateTo, Refuse, OpType
    <3>4. Applied(x) /\ Applied(x)' /\ op[x].pc \in Late
        BY <3>1, <3>3 DEF Applied, Late
    <3>5. x \in Writers => op'[x].previous # op[x].value
        BY <1>0, <3>3, <3>4 DEF Traceless
    <3>6. ASSUME NEW w \in Writers \ {x}, ~Applied(w)
          PROVE  /\ rec'[ThePrimary] # op[w].value /\ rec'[LastReplica] # op[w].value
                 /\ op'[x].previous # op[w].value
      <4>1. /\ rec[ThePrimary] # op[w].value /\ rec[LastReplica] # op[w].value
            /\ op[x].previous # op[w].value
        BY <1>0, <3>4, <3>6 DEF Traceless
      <4>2. QED
        BY <1>0, <2>2, <3>1, <3>2, <3>3, <4>1
    <3>7. Traceless'
        BY <2>5, <2>6, <3>4, <3>5, <3>6
    <3>8. Elsewhere'
        BY <1>0, <3>2, <3>3 DEF Elsewhere
    <3>9. QED
        BY <3>7, <3>8
  <2>9. CASE RollbackDelete(x) \/ RestorePut(x)
    <3>1. op[x].pc \in {"rollback", "restore"} /\ op[x].pc \in Late /\ op[x].kind # "get"
        BY <1>0, <2>9 DEF RollbackDelete, RestorePut, Sound, Late
    <3>2. \E r \in {NoRec, op[x].previous} : rec' = [rec EXCEPT ![ThePrimary] = r]
        BY <2>0, <2>9, <3>1 DEF RollbackDelete, RestorePut
    <3>3. rec[LastReplica] = op[x].previous /\ LastReplica # ThePrimary
        BY <1>0, <3>1, PairList DEF InStep, RollbackHasSecondary
    <3>4. /\ rec'[LastReplica] = op[x].previous /\ rec'[ThePrimary] \in {NoRec, op[x].previous}
        BY <1>0, <3>2, <3>3
    <3>5. op'[x].previous = op[x].previous
        BY <1>0, <2>9 DEF RollbackDelete, RestorePut, Finish, OpType
    <3>6. ASSUME NEW w \in Writers, w = x \/ ~Applied(w) PROVE op[x].previous # op[w].value
        BY <1>0, <3>1, <3>6 DEF Traceless
    <3>7. Traceless'
        BY <2>1, <2>5, <2>6, <3>4, <3>5, <3>6
    <3>8. Elsewhere'
        BY <1>0, <3>2 DEF Elsewhere
    <3>9. QED
        BY <3>7, <3>8
  <2>10. CASE ~(WriteLocal(x) /\ Passes(x)) /\ ~ReplicateTo(x) /\ ~RollbackDelete(x) /\ ~RestorePut(x)
    <3>0. ~(lost < MaxLost)
        BY <1>0 DEF Pair, TypeOK
    <3>1. rec' = rec
        BY <1>1, <2>10 DEF Step, Forward, Reply, ConfirmStart, ConfirmPeer, ConfirmDone,
           LocateGet, GetReplica, GetDone, ReadPrevious, WriteLocal, LocateSecondaries,
           ReplicateDone, Refuse
    <3>2. op'[x].pc \in Late => op[x].pc \in Late /\ op'[x].previous = op[x].previous
      <4>1. CASE Forward(x) \/ Reply(x) \/ ConfirmStart(x)
        BY <1>0, <4>1 DEF Forward, Reply, ConfirmStart, Fail, OpType, Late
      <4>2. CASE ConfirmPeer(x)
        BY <1>0, <4>2 DEF ConfirmPeer, Fail, OpType, Late
      <4>3. CASE ConfirmDone(x) \/ LocateGet(x) \/ GetDone(x)
        BY <1>0, <4>3 DEF ConfirmDone, LocateGet, GetDone, Fail, OpType, Late
      <4>4. CASE GetReplica(x)
        BY <1>0, <4>4 DEF GetReplica, Compare, Fail, OpType, Late
      <4>5. CASE ReadPrevious(x) \/ (WriteLocal(x) /\ ~Passes(x))
        BY <1>0, <4>5 DEF ReadPrevious, WriteLocal, Finish, OpType, Late
      <4>6. CASE LocateSecondaries(x) \/ ReplicateDone(x)
        BY <1>0, <4>6 DEF LocateSecondaries, ReplicateDone, Finish, OpType, Late
      <4>7. QED
        BY <1>1, <2>10, <4>1, <4>2, <4>3, <4>4, <4>5, <4>6 DEF Step
    <3>3. Applied(x) => op[x].pc \in {"locate_secondaries", "replicate", "rollback", "restore", "reply"}
        BY <1>0, <2>0 DEF Applied, Late, Sound
    <3>4. ASSUME Applied(x) PROVE Applied(x)'
      <4>1. LocateSecondaries(x) \/ ReplicateDone(x) \/ Reply(x)
        BY <1>1, <2>10, <3>3, <3>4 DEF Step, Forward, ConfirmStart, ConfirmPeer, ConfirmDone,
           LocateGet, GetReplica, GetDone, ReadPrevious, WriteLocal
      <4>2. QED
        BY <1>0, <3>0, <3>4, <4>1 DEF LocateSecondaries, ReplicateDone, Reply, Finish, OpType,
           Applied, Late
    <3>5. QED
        BY <1>0, <2>3, <3>1, <3>2, <3>4 DEF Elsewhere
  <2>11. QED
    BY <2>7, <2>8, <2>9, <2>10
<1>2. ASSUME NEW x \in Ops, NEW n \in Entry, NEW q \in Menu[x], Begin(x, n, q)
      PROVE  Traceless' /\ Elsewhere'
  <2>1. /\ op[x].kind = "get" /\ op[x].pc = "new" /\ rec' = rec
        /\ \A o \in Ops \ {x} : op'[o] = op[o]
        /\ op'[x].kind = q.kind /\ op'[x].value = q.value
        /\ op'[x].pc \in {"done", "locate_get", "confirm_start", "forward"}
        /\ op'[x].result # "ok"
    BY <1>0, <1>2 DEF Begin, Sound, OpType
  <2>2. op'[x].pc \notin Late /\ ~Applied(x)'
    BY <2>1 DEF Applied, Late
  <2>3. x \notin Writers /\ \A w \in Writers' \ {x} : w \in Writers /\ op'[w] = op[w]
    BY <2>1 DEF Writers
  <2>4. \A w \in Writers' \ {x} : Applied(w)' <=> Applied(w)
    BY <2>3 DEF Applied
  <2>5. x \in Writers' => op'[x].value \notin Known
    BY <1>0, <2>1, <2>3, OneWriter DEF Writers, Writes
  <2>6. /\ rec[ThePrimary] \in Known /\ rec[LastReplica] \in Known
        /\ \A o \in Ops : op[o].previous \in Known
    BY <1>0 DEF Provenance
  <2>7. Traceless'
    BY <1>0, <2>1, <2>2, <2>3, <2>4, <2>5, <2>6 DEF Traceless
  <2>8. QED
    BY <1>0, <2>1, <2>7 DEF Elsewhere
<1>3. CASE UNCHANGED <<op, rec>>
    BY <1>0, <1>3 DEF Traceless, Elsewhere, Applied, Writers
<1>4. QED
    BY <1>1, <1>2, <1>3 DEF Next, Adopt, AdoptConf, AdoptSpace, AdoptLayout, vars

\* PairFailureLeavesNoTrace: with a primary and a secondary and clients that take
\* turns, the value of a put or a conditional put that was answered with an error is
\* at no node.  Either it was never written, or the one secondary that could have
\* taken it refused and the primary's restore put the previous record back.
THEOREM PairFailuresLeaveNoTrace ==
    ASSUME Pair, ValuesNameWriters
    PROVE  Spec => []PairFailureLeavesNoTrace
<1>1. Init => TraceInv
  <2> SUFFICES ASSUME Init PROVE TraceInv
    OBVIOUS
  <2>1. \A o \in Ops : /\ op[o].pc = "new" /\ op[o].kind = "get"
                       /\ op[o].previous = NoRec /\ op[o].agreed = Unread
    BY DEF Init
  <2>2. \A n \in Nodes : rec[n] \in {NoRec, Initial}
    BY DEF Init
  <2>3. Writers = {}
    BY <2>1 DEF Writers
  <2>4. QED
    BY <2>1, <2>2, <2>3, PairInvariant DEF TraceInv, Provenance, Known, Traceless, Elsewhere
<1>2. TraceInv /\ [Next]_vars => TraceInv'
  <2> SUFFICES ASSUME TraceInv, [Next]_vars PROVE TraceInv'
    OBVIOUS
  <2>1. PairInv'
    BY PairInvariant DEF TraceInv
  <2>2. Provenance'
    BY ProvenanceStep DEF TraceInv, PairInv
  <2>3. QED
    BY <2>1, <2>2, TraceStep DEF TraceInv
<1>3. TraceInv => PairFailureLeavesNoTrace
  <2> SUFFICES ASSUME TraceInv, NEW o \in Ops, Done(o, "err"), op[o].kind \in {"put", "cput"},
                      NEW n \in Nodes
               PROVE  rec[n] # op[o].value
    BY DEF PairFailureLeavesNoTrace
  <2>1. o \in Writers /\ ~Applied(o)
    BY DEF Writers, Applied, Done, Late
  <2>2. CASE n \in {ThePrimary, LastReplica}
    BY <2>1, <2>2 DEF TraceInv, Traceless
  <2>3. CASE n \notin {ThePrimary, LastReplica}
    BY <2>1, <2>3, OneWriter DEF TraceInv, Elsewhere, PairInv
  <2>4. QED
    BY <2>2, <2>3
<1>4. QED
    BY <1>1, <1>2, <1>3, PTL DEF Spec
===============================================================================
