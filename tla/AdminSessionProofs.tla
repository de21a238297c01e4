--------------------------- MODULE AdminSessionProofs ---------------------------
(* Proofs about AdminSession, for any number of connections and frames.       *)
EXTENDS AdminSession, FiniteSetTheorems, SequenceTheorems, TLAPS

\* A session has received no more frames than all of them together.
Counted == \A s \in Sessions : session[s].frames <= received

\* The frames that extend a stream.
LEMMA FrameTypes ==
    /\ \A id \in Nat : IdentifyFrame(id) \in FrameType /\ BootstrapFrame(id) \in FrameType
    /\ \A n \in Nonces, state \in Nat :
          /\ RobustFrame(n, state) \in FrameType /\ ConditionFrame(n, state) \in FrameType
          /\ NotFoundFrame(n, state) \in FrameType /\ CallFrame(n) \in FrameType
    BY FrameBounds DEF IdentifyFrame, BootstrapFrame, RobustFrame, ConditionFrame, NotFoundFrame,
       CallFrame, FrameType, Nonces

\* What the end of a connection, and a frame, make of a session a.
Closed(a, r) ==
    /\ r.open = FALSE /\ r.phase = "idle" /\ r.frames = a.frames
    /\ r.sender_id = a.sender_id /\ r.identified = a.identified
    /\ r.config_waits = NoWaits /\ r.waits = NoWaits /\ r.ready = {} /\ r.queue = <<>>

Queues(a, r, nonce) ==
    \E f \in FrameType :
        /\ r.queue = Append(a.queue, f)
        /\ f.nonce \in {0, nonce}
        /\ f.type \in {"identify", "bootstrap"} => f.state = r.sender_id
        /\ f.type = "identify" => r.identified
        /\ f.type # "identify" => r.sender_id = a.sender_id /\ r.identified = a.identified

Taken(a, r, nonce) ==
    /\ r.open = a.open /\ r.frames = nonce
    /\ \/ r.identified /\ ~a.identified
       \/ r.identified = a.identified /\ r.sender_id = a.sender_id
    /\ \/ /\ r.config_waits = a.config_waits /\ r.waits = a.waits /\ r.ready = a.ready
          /\ r.phase \in {"write", "config_ready"}
          /\ r.queue = a.queue \/ Queues(a, r, nonce)
       \/ /\ r.config_waits = a.config_waits /\ r.waits = a.waits /\ r.queue = a.queue
          /\ r.ready = {nonce} /\ r.phase = "update_now"
       \/ /\ r.waits = a.waits /\ r.ready = a.ready /\ r.queue = a.queue
          /\ r.phase = "config_ready"
          /\ \E state \in States : r.config_waits = [a.config_waits EXCEPT ![nonce] = state]
       \/ /\ r.config_waits = a.config_waits /\ r.ready = a.ready /\ r.queue = a.queue
          /\ r.phase = "config_ready"
          /\ \E state \in States : r.waits = [a.waits EXCEPT ![nonce] = state]

\* The end of a connection closes its session.
LEMMA CloseFrame ==
    ASSUME TypeOK, NEW s \in Sessions, Close(s)
    PROVE  \E r \in SessionType : session' = [session EXCEPT ![s] = r] /\ Closed(session[s], r)
<1> DEFINE r == [session[s] EXCEPT !.open = FALSE, !.phase = "idle", !.config_waits = NoWaits,
                                   !.waits = NoWaits, !.ready = {}, !.queue = <<>>]
<1>1. session[s] \in SessionType
    BY DEF TypeOK
<1>2. NoWaits \in [Nonces -> 0..MaxTarget] /\ <<>> \in Seq(FrameType)
    BY FrameBounds DEF NoWaits
<1>3. r \in SessionType
    BY <1>1, <1>2 DEF SessionType, Phases
<1>4. session' = [session EXCEPT ![s] = r]
    BY DEF Close, TypeOK
<1>5. QED
    BY <1>1, <1>3, <1>4 DEF SessionType, Closed

\* The two ways a session becomes r when a frame arrives.
Outcome(s, r) ==
    /\ session' = [session EXCEPT ![s] = r]
    /\ \/ Closed(session[s], r) /\ version' = version
       \/ /\ Taken(session[s], r, Nonce(s)) /\ Nonce(s) \in Nonces
          /\ version' \in Nat /\ version' >= version
          /\ r.phase = "write" => version' = version

\* A frame that is received closes its session or is taken.
LEMMA ReceiveFrame ==
    ASSUME TypeOK, Counted, NEW s \in Sessions, Receive(s)
    PROVE  /\ session[s].phase = "idle" /\ session[s].open
           /\ received' = received + 1 /\ received' <= MaxFrames /\ UNCHANGED <<sent, errors>>
           /\ \E r \in SessionType : Outcome(s, r)
<1> DEFINE a == session[s]
           k == Nonce(s)
<1>0. /\ a \in SessionType /\ session \in [Sessions -> SessionType]
      /\ version \in Nat /\ received \in Nat
      /\ a.queue \in Seq(FrameType) /\ a.sender_id \in Nat
    BY DEF TypeOK, SessionType
<1>1. Receives(s)
    BY DEF Receive, Disconnect, Identify, Bootstrap, GetRobustParams, WaitConfig, WaitStable,
       WaitFixed, WaitUnknown, Call
<1>2. k \in Nonces /\ k = a.frames + 1 /\ k \in 0..MaxFrames
    BY <1>0, <1>1, FrameBounds DEF Receives, Counted, Nonce, Nonces, SessionType
<1> DEFINE Goal == \E r \in SessionType : Outcome(s, r)
<1> SUFFICES Goal
    BY <1>0, <1>1, FrameBounds DEF Receives
<1>3. CASE Disconnect(s)
    BY <1>3, CloseFrame DEF Disconnect, Outcome
<1>4. ASSUME NEW local \in PeerIds, NEW remote \in PeerIds, Identify(s, local, remote) PROVE Goal
  <2> DEFINE id == IF remote # 0 THEN remote ELSE a.sender_id
  <2>1. version' = version /\ id \in Nat
    BY <1>0, <1>4, PeerIdsAssumption DEF Identify
  <2>2. CASE Close(s)
    BY <2>1, <2>2, CloseFrame DEF Outcome
  <2>3. CASE a.identified /\ session' = [session EXCEPT ![s].frames = @ + 1, ![s].phase = "write"]
    <3> DEFINE r == [a EXCEPT !.frames = k, !.phase = "write"]
    <3>1. r \in SessionType
        BY <1>0, <1>2 DEF SessionType, Nonces, Phases
    <3>2. session' = [session EXCEPT ![s] = r]
        BY <1>0, <1>2, <2>3
    <3>3. Taken(a, r, k)
        BY <1>0 DEF Taken, SessionType
    <3>4. Outcome(s, r)
        BY <1>0, <1>2, <2>1, <3>1, <3>2, <3>3 DEF Outcome
    <3> HIDE DEF r
    <3>5. QED
        BY <3>1, <3>4
  <2>4. CASE /\ ~a.identified
             /\ session' = [session EXCEPT
                     ![s].frames = @ + 1, ![s].phase = "write", ![s].identified = TRUE,
                     ![s].sender_id = id, ![s].peer_local_id = local,
                     ![s].queue = Append(@, IdentifyFrame(id))]
    <3> DEFINE f == IdentifyFrame(id)
               r == [a EXCEPT !.frames = k, !.phase = "write", !.identified = TRUE,
                              !.sender_id = id, !.peer_local_id = local, !.queue = Append(a.queue, f)]
    <3>0. f \in FrameType /\ f.type = "identify" /\ f.nonce = 0 /\ f.state = id
        BY <2>1, FrameTypes DEF IdentifyFrame
    <3>6. Append(a.queue, f) \in Seq(FrameType)
        BY <1>0, <3>0
    <3>1. r \in SessionType
        BY <1>0, <1>2, <2>1, <3>6 DEF SessionType, Phases
    <3>2. session' = [session EXCEPT ![s] = r]
        BY <1>0, <1>2, <2>4
    <3>7. Queues(a, r, k)
        BY <1>0, <3>0 DEF Queues, SessionType
    <3>8. /\ r.open = a.open /\ r.frames = k /\ r.identified /\ r.phase = "write"
          /\ r.config_waits = a.config_waits /\ r.waits = a.waits /\ r.ready = a.ready
        BY <1>0 DEF SessionType
    <3>3. Taken(a, r, k)
        BY <2>4, <3>7, <3>8 DEF Taken
    <3>4. Outcome(s, r)
        BY <1>0, <1>2, <2>1, <3>1, <3>2, <3>3 DEF Outcome
    <3> HIDE DEF r
    <3>5. QED
        BY <3>1, <3>4
  <2>5. QED
    BY <1>4, <2>2, <2>3, <2>4 DEF Identify
<1>5. ASSUME NEW f \in FrameType, NEW phase \in {"write", "config_ready"}, NEW nonce \in Nat,
             f.nonce \in {0, k}, f.type # "identify",
             f.type = "bootstrap" => f.state = a.sender_id,
             session' = [session EXCEPT ![s].frames = @ + 1, ![s].phase = phase,
                             ![s].next_robust_nonce = nonce, ![s].queue = Append(@, f)],
             version' \in Nat, version' >= version,
             phase = "write" => version' = version
      PROVE  Goal
  <2> DEFINE r == [a EXCEPT !.frames = k, !.phase = phase, !.next_robust_nonce = nonce,
                            !.queue = Append(a.queue, f)]
  <2>7. Append(a.queue, f) \in Seq(FrameType)
    BY <1>0
  <2>1. r \in SessionType
    BY <1>0, <1>2, <2>7 DEF SessionType, Phases
  <2>2. session' = [session EXCEPT ![s] = r]
    BY <1>0, <1>2, <1>5
  <2>3. Taken(a, r, k)
    BY <1>0, <1>5 DEF Taken, Queues, SessionType
  <2>4. r.phase = phase
    BY <1>0 DEF SessionType
  <2>5. Outcome(s, r)
    BY <1>0, <1>2, <1>5, <2>2, <2>3, <2>4 DEF Outcome
  <2> HIDE DEF r
  <2>6. QED
    BY <2>1, <2>5
<1>6. CASE Bootstrap(s)
  <2>5. version' = version /\ version' \in Nat /\ version' >= version
    BY <1>0, <1>6 DEF Bootstrap
  <2> DEFINE f == BootstrapFrame(a.sender_id)
  <2>1. f \in FrameType /\ f.nonce \in {0, k} /\ f.type # "identify" /\ f.state = a.sender_id
    BY <1>0, FrameTypes DEF BootstrapFrame
  <2>2. session' = [session EXCEPT ![s].frames = @ + 1, ![s].phase = "write",
                        ![s].next_robust_nonce = a.next_robust_nonce,
                        ![s].queue = Append(@, f)]
    BY <1>0, <1>6 DEF Bootstrap, SessionType
  <2>4. a.next_robust_nonce \in Nat
    BY <1>0 DEF SessionType
  <2> HIDE DEF f
  <2>3. QED
    BY <1>5, <2>1, <2>2, <2>4, <2>5
<1>7. CASE GetRobustParams(s)
  <2>5. version' = version /\ version' \in Nat /\ version' >= version
    BY <1>0, <1>7 DEF GetRobustParams
  <2> DEFINE f == RobustFrame(k, a.next_robust_nonce)
  <2>4. a.next_robust_nonce \in Nat /\ a.next_robust_nonce + 1 \in Nat
    BY <1>0 DEF SessionType
  <2>1. f \in FrameType /\ f.nonce \in {0, k} /\ f.type # "identify" /\ f.type # "bootstrap"
    BY <1>2, <2>4, FrameTypes DEF RobustFrame
  <2>2. session' = [session EXCEPT ![s].frames = @ + 1, ![s].phase = "config_ready",
                        ![s].next_robust_nonce = a.next_robust_nonce + 1,
                        ![s].queue = Append(@, f)]
    BY <1>0, <1>7 DEF GetRobustParams, SessionType
  <2> HIDE DEF f
  <2>3. QED
    BY <1>5, <2>1, <2>2, <2>4, <2>5
<1>8. ASSUME NEW f \in FrameType, f.nonce \in {0, k}, f.type \notin {"identify", "bootstrap"},
             session' = [session EXCEPT ![s].frames = @ + 1, ![s].phase = "config_ready",
                             ![s].queue = Append(@, f)],
             version' \in Nat, version' >= version
      PROVE  Goal
  <2>1. session' = [session EXCEPT ![s].frames = @ + 1, ![s].phase = "config_ready",
                        ![s].next_robust_nonce = a.next_robust_nonce, ![s].queue = Append(@, f)]
    BY <1>0, <1>8 DEF SessionType
  <2>2. QED
    BY <1>0, <1>5, <1>8, <2>1 DEF SessionType
<1>9. ASSUME NEW state \in States, WaitConfig(s, state) PROVE Goal
  <2>0. version' = version /\ version' \in Nat /\ version' >= version
    BY <1>0, <1>9 DEF WaitConfig
  <2>1. CASE state <= ConditionState(version)
    <3> DEFINE r == [a EXCEPT !.frames = k, !.phase = "update_now", !.ready = {k}]
    <3>1. r \in SessionType
        BY <1>0, <1>2 DEF SessionType, Nonces, Phases
    <3>2. session' = [session EXCEPT ![s] = r]
        BY <1>0, <1>2, <1>9, <2>1 DEF WaitConfig
    <3>3. Taken(a, r, k)
        BY <1>0 DEF Taken, SessionType
    <3>4. Outcome(s, r)
        BY <1>0, <1>2, <2>0, <3>1, <3>2, <3>3 DEF Outcome
    <3> HIDE DEF r
    <3>5. QED
        BY <3>1, <3>4
  <2>2. CASE ~(state <= ConditionState(version))
    <3> DEFINE r == [a EXCEPT !.frames = k, !.phase = "config_ready", !.config_waits[k] = state]
    <3>6. [a.config_waits EXCEPT ![k] = state] \in [Nonces -> 0..MaxTarget]
        BY <1>0, <1>2, FrameBounds DEF SessionType, States
    <3>1. r \in SessionType
        BY <1>0, <1>2, <3>6 DEF SessionType, Phases
    <3>2. session' = [session EXCEPT ![s] = r]
        BY <1>0, <1>2, <1>9, <2>2 DEF WaitConfig
    <3>3. Taken(a, r, k)
        BY <1>0 DEF Taken, SessionType
    <3>4. Outcome(s, r)
        BY <1>0, <1>2, <2>0, <3>1, <3>2, <3>3 DEF Outcome
    <3> HIDE DEF r
    <3>5. QED
        BY <3>1, <3>4
  <2>3. QED
    BY <2>1, <2>2
<1>10. ASSUME NEW state \in States, WaitStable(s, state) PROVE Goal
  <2>0. version' = version /\ version' \in Nat /\ version' >= version /\ ConditionState(version) \in Nat
    BY <1>0, <1>10 DEF WaitStable, ConditionState
  <2>1. CASE state <= ConditionState(version)
    <3> DEFINE f == ConditionFrame(k, ConditionState(version))
    <3>1. f \in FrameType /\ f.nonce \in {0, k} /\ f.type \notin {"identify", "bootstrap"}
        BY <1>2, <2>0, FrameTypes DEF ConditionFrame
    <3>2. session' = [session EXCEPT ![s].frames = @ + 1, ![s].phase = "config_ready",
                          ![s].queue = Append(@, f)]
        BY <1>10, <2>1 DEF WaitStable
    <3> HIDE DEF f
    <3>3. QED
        BY <1>8, <2>0, <3>1, <3>2
  <2>2. CASE ~(state <= ConditionState(version))
    <3> DEFINE r == [a EXCEPT !.frames = k, !.phase = "config_ready", !.waits[k] = state]
    <3>6. [a.waits EXCEPT ![k] = state] \in [Nonces -> 0..MaxTarget]
        BY <1>0, <1>2, FrameBounds DEF SessionType, States
    <3>1. r \in SessionType
        BY <1>0, <1>2, <3>6 DEF SessionType, Phases
    <3>2. session' = [session EXCEPT ![s] = r]
        BY <1>0, <1>2, <1>10, <2>2 DEF WaitStable
    <3>3. Taken(a, r, k)
        BY <1>0 DEF Taken, SessionType
    <3>4. Outcome(s, r)
        BY <1>0, <1>2, <2>0, <3>1, <3>2, <3>3 DEF Outcome
    <3> HIDE DEF r
    <3>5. QED
        BY <3>1, <3>4
  <2>3. QED
    BY <2>1, <2>2
<1>11. ASSUME NEW state \in States, WaitFixed(s, state) PROVE Goal
  <2>0. version' = version /\ version' \in Nat /\ version' >= version /\ FixedState \in Nat
    BY <1>0, <1>11 DEF WaitFixed, FixedState, ConditionState
  <2>1. CASE state <= FixedState
    <3> DEFINE f == ConditionFrame(k, FixedState)
    <3>1. f \in FrameType /\ f.nonce \in {0, k} /\ f.type \notin {"identify", "bootstrap"}
        BY <1>2, <2>0, FrameTypes DEF ConditionFrame
    <3>2. session' = [session EXCEPT ![s].frames = @ + 1, ![s].phase = "config_ready",
                          ![s].queue = Append(@, f)]
        BY <1>11, <2>1 DEF WaitFixed
    <3> HIDE DEF f
    <3>3. QED
        BY <1>8, <2>0, <3>1, <3>2
  <2>2. CASE ~(state <= FixedState)
    <3> DEFINE r == [a EXCEPT !.frames = k, !.phase = "config_ready"]
    <3>1. r \in SessionType
        BY <1>0, <1>2 DEF SessionType, Nonces, Phases
    <3>2. session' = [session EXCEPT ![s] = r]
        BY <1>0, <1>2, <1>11, <2>2 DEF WaitFixed, SessionType
    <3>3. Taken(a, r, k)
        BY <1>0 DEF Taken, SessionType
    <3>4. Outcome(s, r)
        BY <1>0, <1>2, <2>0, <3>1, <3>2, <3>3 DEF Outcome
    <3> HIDE DEF r
    <3>5. QED
        BY <3>1, <3>4
  <2>3. QED
    BY <2>1, <2>2
<1>12. ASSUME NEW state \in States, WaitUnknown(s, state) PROVE Goal
  <2> DEFINE f == NotFoundFrame(k, state)
  <2>1. f \in FrameType /\ f.nonce \in {0, k} /\ f.type \notin {"identify", "bootstrap"}
    BY <1>2, FrameTypes DEF NotFoundFrame, States
  <2>2. session' = [session EXCEPT ![s].frames = @ + 1, ![s].phase = "config_ready",
                        ![s].queue = Append(@, f)]
    BY <1>12 DEF WaitUnknown
  <2>3. version' \in Nat /\ version' >= version
    BY <1>0, <1>12 DEF WaitUnknown
  <2> HIDE DEF f
  <2>4. QED
    BY <1>8, <2>1, <2>2, <2>3
<1>13. ASSUME NEW function, Call(s, function) PROVE Goal
  <2> DEFINE f == CallFrame(k)
  <2>1. f \in FrameType /\ f.nonce \in {0, k} /\ f.type \notin {"identify", "bootstrap"}
    BY <1>2, FrameTypes DEF CallFrame
  <2>2. session' = [session EXCEPT ![s].frames = @ + 1, ![s].phase = "config_ready",
                        ![s].queue = Append(@, f)]
    BY <1>13 DEF Call
  <2>3. version' \in Nat /\ version' >= version
    BY <1>0, <1>13 DEF Call
  <2> HIDE DEF f
  <2>6. QED
    BY <1>8, <2>1, <2>2, <2>3
<1>14. QED
    BY <1>3, <1>4, <1>6, <1>7, <1>9, <1>10, <1>11, <1>12, <1>13 DEF Receive

-------------------------------------------------------------------------------
(* The steps that handle a frame.                                             *)

\* A set of nonces in order is a sequence without repetitions.
LEMMA OrderedNonces ==
    ASSUME NEW S \in SUBSET Nonces, NEW q \in InOrder(S)
    PROVE  /\ q \in Seq(Nonces)
           /\ \A i \in 1..Len(q) : q[i] \in S
           /\ \A i, j \in 1..Len(q) : q[i] = q[j] => i = j
           /\ \A n \in S : \E i \in 1..Len(q) : q[i] = n
<1>1. IsFiniteSet(S)
  <2>1. IsFiniteSet(Nonces)
    BY FrameBounds, FS_Interval DEF Nonces
  <2>2. QED
    BY <2>1, FS_Subset
<1>2. Cardinality(S) \in Nat
    BY <1>1, FS_CardinalityType
<1> DEFINE c == Cardinality(S)
<1>3. /\ q \in [1..c -> S]
      /\ \A i, j \in 1..c : i < j => q[i] < q[j]
      /\ \A n \in S : \E i \in 1..c : q[i] = n
    BY DEF InOrder
<1>4. c \in Nat
    BY <1>2
<1> HIDE DEF c
<1>5. q \in Seq(Nonces) /\ Len(q) = c
    BY <1>3, <1>4
<1>6. ASSUME NEW i \in 1..c, NEW j \in 1..c, q[i] = q[j] PROVE i = j
  <2>0. q[i] \in Nonces
    BY <1>3
  <2>1. q[i] \in Nat
    BY <2>0, FrameBounds DEF Nonces
  <2>2. ~(q[i] < q[j]) /\ ~(q[j] < q[i])
    BY <1>6, <2>1
  <2>3. QED
    BY <1>3, <1>4, <2>2
<1>7. QED
    BY <1>3, <1>5, <1>6

\* The steps of the handler leave the connection's identity alone.
Kept(a, r) ==
    /\ r.open = a.open /\ r.frames = a.frames
    /\ r.sender_id = a.sender_id /\ r.identified = a.identified

Readies(s, r) ==
    /\ session[s].phase = "config_ready" /\ r.phase = "config_update"
    /\ r.ready = Reached(session[s].config_waits, ConditionState(version))
    /\ r.config_waits = session[s].config_waits /\ r.waits = session[s].waits
    /\ r.queue = session[s].queue /\ sent' = sent

Updates(s, n, r) ==
    /\ session[s].phase \in {"update_now", "config_update"} /\ r.phase = session[s].phase
    /\ n \in session[s].ready /\ r.ready = session[s].ready \ {n}
    /\ r.config_waits = [session[s].config_waits EXCEPT ![n] = 0] /\ r.waits = session[s].waits
    /\ r.queue = Append(session[s].queue, ConditionFrame(n, ConditionState(version)))
    /\ sent' = sent

Advances(s, r) ==
    /\ session[s].ready = {}
    /\ \/ session[s].phase = "update_now" /\ r.phase = "config_ready"
       \/ session[s].phase = "config_update" /\ r.phase = "stable_ready"
    /\ r.ready = session[s].ready
    /\ r.config_waits = session[s].config_waits /\ r.waits = session[s].waits
    /\ r.queue = session[s].queue /\ sent' = sent

\* The answers to the nonces of q.
Block(q) == [i \in 1..Len(q) |-> ConditionFrame(q[i], ConditionState(version))]

Completes(s, r) ==
    /\ session[s].phase = "stable_ready" /\ r.phase = "write"
    /\ r.ready = session[s].ready /\ r.config_waits = session[s].config_waits
    /\ \A n \in Nonces : r.waits[n] = IF session[s].waits[n] <= ConditionState(version)
                                      THEN 0 ELSE session[s].waits[n]
    /\ \E q \in InOrder(Reached(session[s].waits, ConditionState(version))) :
          r.queue = session[s].queue \o Block(q)
    /\ sent' = sent

Writes(s, r) ==
    /\ session[s].phase = "write" /\ r.phase = "idle"
    /\ r.ready = session[s].ready
    /\ r.config_waits = session[s].config_waits /\ r.waits = session[s].waits
    /\ r.queue = <<>> /\ sent' = [sent EXCEPT ![s] = @ \o session[s].queue]

Handles(s, r) ==
    /\ session' = [session EXCEPT ![s] = r] /\ Kept(session[s], r)
    /\ \/ Readies(s, r) \/ (\E n \in Nonces : Updates(s, n, r)) \/ Advances(s, r)
       \/ Completes(s, r) \/ Writes(s, r)

\* Every step of the handler is one of these.
LEMMA HandleFrame ==
    ASSUME TypeOK, NEW s \in Sessions, Handle(s)
    PROVE  UNCHANGED <<version, exists, received, errors>> /\ \E r \in SessionType : Handles(s, r)
<1> DEFINE a == session[s]
           now == ConditionState(version)
<1>0. /\ a \in SessionType /\ session \in [Sessions -> SessionType] /\ now \in Nat
      /\ a.queue \in Seq(FrameType) /\ a.waits \in [Nonces -> 0..MaxTarget]
      /\ a.config_waits \in [Nonces -> 0..MaxTarget] /\ a.ready \subseteq Nonces
    BY SMTT(30) DEF TypeOK, SessionType, ConditionState
<1>1. UNCHANGED <<version, exists, received, errors>>
    BY DEF Handle, ConfigReady, ConfigUpdated, StableReady, WriteFrames, ConfigUpdate
<1>2. CASE ConfigReady(s)
  <2> DEFINE r == [a EXCEPT !.phase = "config_update", !.ready = Reached(a.config_waits, now)]
  <2>1. r \in SessionType
    BY <1>0 DEF SessionType, Phases, Reached
  <2>2. session' = [session EXCEPT ![s] = r]
    BY <1>0, <1>2 DEF ConfigReady
  <2>3. Kept(a, r) /\ Readies(s, r)
    BY <1>0, <1>2 DEF ConfigReady, Kept, Readies, SessionType
  <2> HIDE DEF r
  <2>4. QED
    BY <1>1, <2>1, <2>2, <2>3 DEF Handles
<1>3. ASSUME NEW n \in Nonces, ConfigUpdate(s, n) PROVE \E r \in SessionType : Handles(s, r)
  <2> DEFINE f == ConditionFrame(n, now)
             w == [a.config_waits EXCEPT ![n] = 0]
             r == [a EXCEPT !.config_waits = w, !.ready = @ \ {n}, !.queue = Append(a.queue, f)]
  <2>1. w \in [Nonces -> 0..MaxTarget] /\ Append(a.queue, f) \in Seq(FrameType)
    BY <1>0, FrameTypes, FrameBounds
  <2>2. r \in SessionType
    BY <1>0, <2>1 DEF SessionType
  <2>3. session' = [session EXCEPT ![s] = r]
    BY <1>0, <1>3 DEF ConfigUpdate
  <2>4. Kept(a, r) /\ Updates(s, n, r)
    BY <1>0, <1>3 DEF ConfigUpdate, Kept, Updates, SessionType
  <2> HIDE DEF r
  <2>5. QED
    BY <2>2, <2>3, <2>4 DEF Handles
<1>4. ASSUME NEW phase \in Phases,
             session' = [session EXCEPT ![s].phase = phase]
      PROVE  \E r \in SessionType :
                /\ session' = [session EXCEPT ![s] = r] /\ Kept(a, r) /\ r.phase = phase
                /\ r.ready = a.ready /\ r.config_waits = a.config_waits /\ r.waits = a.waits
                /\ r.queue = a.queue
  <2> DEFINE r == [a EXCEPT !.phase = phase]
  <2>1. r \in SessionType /\ session' = [session EXCEPT ![s] = r]
    BY <1>0, <1>4 DEF SessionType
  <2>2. /\ Kept(a, r) /\ r.phase = phase /\ r.ready = a.ready /\ r.config_waits = a.config_waits
        /\ r.waits = a.waits /\ r.queue = a.queue
    BY <1>0 DEF SessionType, Kept
  <2> HIDE DEF r
  <2>3. QED
    BY <2>1, <2>2
<1>5. CASE ConfigUpdated(s)
  <2>1. PICK phase \in {"config_ready", "stable_ready"} :
            /\ session' = [session EXCEPT ![s].phase = phase]
            /\ a.phase = IF phase = "config_ready" THEN "update_now" ELSE "config_update"
    BY <1>5 DEF ConfigUpdated
  <2>2. phase \in Phases /\ a.ready = {} /\ sent' = sent
    BY <1>5 DEF Phases, ConfigUpdated
  <2>3. PICK r \in SessionType :
                /\ session' = [session EXCEPT ![s] = r] /\ Kept(a, r) /\ r.phase = phase
                /\ r.ready = a.ready /\ r.config_waits = a.config_waits /\ r.waits = a.waits
                /\ r.queue = a.queue
    BY <1>4, <2>1, <2>2
  <2>4. Advances(s, r)
    BY <2>1, <2>2, <2>3 DEF Advances
  <2>5. QED
    BY <1>1, <2>3, <2>4 DEF Handles
<1>6. CASE StableReady(s)
  <2>1. PICK q \in InOrder(Reached(a.waits, now)) :
            session' = [session EXCEPT ![s].phase = "write",
                  ![s].waits = [n \in Nonces |-> IF a.waits[n] <= now THEN 0 ELSE a.waits[n]],
                  ![s].queue = a.queue \o Block(q)]
    BY <1>0, <1>6 DEF StableReady, Block
  <2> DEFINE w == [n \in Nonces |-> IF a.waits[n] <= now THEN 0 ELSE a.waits[n]]
             r == [a EXCEPT !.phase = "write", !.waits = w, !.queue = a.queue \o Block(q)]
  <2>2. w \in [Nonces -> 0..MaxTarget]
    BY <1>0, FrameBounds
  <2>3. q \in Seq(Nonces)
    BY OrderedNonces DEF Reached
  <2>4. Block(q) \in Seq(FrameType)
    <3>1. \A i \in 1..Len(q) : ConditionFrame(q[i], now) \in FrameType
        BY <1>0, <2>3, FrameTypes
    <3>2. Len(q) \in Nat
        BY <2>3
    <3>3. QED
        BY <3>1, <3>2 DEF Block
  <2>5. a.queue \o Block(q) \in Seq(FrameType)
    BY <1>0, <2>4
  <2>6. r \in SessionType
    BY <1>0, <2>2, <2>5 DEF SessionType, Phases
  <2>7. session' = [session EXCEPT ![s] = r]
    BY <1>0, <2>1
  <2>8. /\ Kept(a, r) /\ r.phase = "write" /\ r.ready = a.ready /\ r.config_waits = a.config_waits
        /\ r.waits = w /\ r.queue = a.queue \o Block(q)
    BY <1>0 DEF SessionType, Kept
  <2> HIDE DEF r
  <2>9. Completes(s, r)
    BY <1>6, <2>8 DEF StableReady, Completes
  <2>10. QED
    BY <1>1, <2>6, <2>7, <2>8, <2>9 DEF Handles
<1>7. CASE WriteFrames(s)
  <2> DEFINE r == [a EXCEPT !.phase = "idle", !.queue = <<>>]
  <2>0. <<>> \in Seq(FrameType)
    OBVIOUS
  <2>1. r \in SessionType
    BY <1>0, <2>0 DEF SessionType, Phases
  <2>2. session' = [session EXCEPT ![s] = r]
    BY <1>0, <1>7 DEF WriteFrames
  <2>3. Kept(a, r) /\ Writes(s, r)
    BY <1>0, <1>7 DEF WriteFrames, Kept, Writes, SessionType
  <2> HIDE DEF r
  <2>4. QED
    BY <1>1, <2>1, <2>2, <2>3 DEF Handles
<1>8. QED
    BY <1>1, <1>2, <1>3, <1>5, <1>6, <1>7 DEF Handle

-------------------------------------------------------------------------------
(* Types.                                                                     *)

\* The inductive invariant of the types.
TypeInv == TypeOK /\ Counted

\* A view that fails closes the session.
LEMMA ViewFailsFrame ==
    ASSUME TypeOK, NEW s \in Sessions, ViewFails(s)
    PROVE  /\ UNCHANGED <<version, exists, sent, received>> /\ errors' \in 0..MaxErrors
           /\ \E r \in SessionType : session' = [session EXCEPT ![s] = r] /\ Closed(session[s], r)
<1>1. errors' \in 0..MaxErrors
    BY FrameBounds DEF ViewFails, TypeOK
<1>2. QED
    BY <1>1, CloseFrame DEF ViewFails

\* A step keeps the types.
LEMMA TypeStep ==
    ASSUME TypeInv, [Next]_vars
    PROVE  TypeInv'
<1>0. TypeOK /\ Counted
    BY DEF TypeInv
<1>1. exists' \in BOOLEAN
  <2>1. exists \in BOOLEAN
    BY <1>0 DEF TypeOK
  <2>2. exists' = exists \/ \E s \in Sessions, function \in {"space_add", "space_rm", "unknown"} :
                               Call(s, function)
    <3>1. ASSUME NEW s \in Sessions, Receive(s)
          PROVE  exists' = exists \/ \E function \in {"space_add", "space_rm", "unknown"} : Call(s, function)
        BY <3>1 DEF Receive, Disconnect, Identify, Bootstrap, GetRobustParams,
           WaitConfig, WaitStable, WaitFixed, WaitUnknown
    <3>2. ASSUME NEW s \in Sessions, Handle(s) \/ ViewFails(s) PROVE exists' = exists
        BY <1>0, <3>2, HandleFrame, ViewFailsFrame
    <3>3. QED
        BY <3>1, <3>2 DEF Next, vars
  <2>3. ASSUME NEW s, NEW function, Call(s, function) PROVE exists' \in BOOLEAN
    BY <2>1, <2>3, Zenon DEF Call
  <2>4. QED
    BY <2>1, <2>2, <2>3
<1>3. ASSUME NEW s \in Sessions, Receive(s) PROVE TypeInv'
  <2>1. PICK r \in SessionType : Outcome(s, r)
    BY <1>0, <1>3, ReceiveFrame
  <2>2. /\ received' = received + 1 /\ received' <= MaxFrames /\ UNCHANGED <<sent, errors>>
        /\ received \in Nat /\ received' \in Nat /\ received' >= received
    BY <1>0, <1>3, ReceiveFrame DEF TypeOK
  <2>3. version' \in Nat
    BY <1>0, <2>1 DEF Outcome, TypeOK
  <2>4. /\ session' = [session EXCEPT ![s] = r]
        /\ \/ r.frames = session[s].frames
           \/ r.frames = session[s].frames + 1 /\ received' = received + 1
    BY <2>1, <2>2 DEF Outcome, Closed, Taken, Nonce
  <2>5. session' \in [Sessions -> SessionType] /\ Counted'
    <3>1. session' \in [Sessions -> SessionType]
        BY <1>0, <2>1, <2>2, <2>4 DEF TypeOK
    <3>2. session'[s] = r /\ \A u \in Sessions \ {s} : session'[u] = session[u]
        BY <1>0, <2>1, <2>2, <2>4 DEF TypeOK
    <3>3. \A u \in Sessions : session[u].frames \in Nat /\ session[u].frames <= received
        BY <1>0 DEF TypeOK, Counted, SessionType
    <3>4. received \in Nat
        BY <1>0 DEF TypeOK
    <3>5. Counted'
        BY <2>1, <2>2, <2>4, <3>2, <3>3, <3>4 DEF Counted
    <3>6. QED
        BY <3>1, <3>5
  <2>6. QED
    BY <1>0, <1>1, <2>2, <2>3, <2>5, FrameBounds DEF TypeInv, TypeOK
<1>4. ASSUME NEW s \in Sessions, Handle(s) PROVE TypeInv'
  <2>1. PICK r \in SessionType : Handles(s, r)
    BY <1>0, <1>4, HandleFrame
  <2>2. /\ UNCHANGED <<version, received, errors>> /\ received' \in Nat /\ received' >= received
        /\ session' = [session EXCEPT ![s] = r] /\ r.frames = session[s].frames
    BY <1>0, <1>4, <2>1, HandleFrame DEF TypeOK, Handles, Kept
  <2>3. session' \in [Sessions -> SessionType] /\ Counted'
    <3>1. session' \in [Sessions -> SessionType]
        BY <1>0, <2>1, <2>2 DEF TypeOK
    <3>2. session'[s] = r /\ \A u \in Sessions \ {s} : session'[u] = session[u]
        BY <1>0, <2>1, <2>2 DEF TypeOK
    <3>3. \A u \in Sessions : session[u].frames \in Nat /\ session[u].frames <= received
        BY <1>0 DEF TypeOK, Counted, SessionType
    <3>4. received \in Nat
        BY <1>0 DEF TypeOK
    <3>5. Counted'
        BY <2>1, <2>2, <3>2, <3>3, <3>4 DEF Counted
    <3>6. QED
        BY <3>1, <3>5
  <2>4. sent' \in [Sessions -> Seq(FrameType)]
    <3>1. sent' = sent \/ sent' = [sent EXCEPT ![s] = @ \o session[s].queue]
        BY <2>1 DEF Handles, Readies, Updates, Advances, Completes, Writes
    <3>2. sent[s] \o session[s].queue \in Seq(FrameType)
        BY <1>0, ConcatProperties DEF TypeOK, SessionType
    <3>3. QED
        BY <1>0, <3>1, <3>2 DEF TypeOK
  <2>5. QED
    BY <1>0, <1>1, <2>2, <2>3, <2>4 DEF TypeInv, TypeOK
<1>5. ASSUME NEW s \in Sessions, ViewFails(s) PROVE TypeInv'
  <2>1. PICK r \in SessionType : session' = [session EXCEPT ![s] = r] /\ Closed(session[s], r)
    BY <1>0, <1>5, ViewFailsFrame
  <2>5. UNCHANGED <<version, sent, received>> /\ errors' \in 0..MaxErrors
    BY <1>0, <1>5, ViewFailsFrame
  <2>2. received' \in Nat /\ received' >= received /\ r.frames = session[s].frames
    BY <1>0, <2>1, <2>5 DEF TypeOK, Closed
  <2>3. session' \in [Sessions -> SessionType] /\ Counted'
    <3>1. session' \in [Sessions -> SessionType]
        BY <1>0, <2>1, <2>2 DEF TypeOK
    <3>2. session'[s] = r /\ \A u \in Sessions \ {s} : session'[u] = session[u]
        BY <1>0, <2>1, <2>2 DEF TypeOK
    <3>3. \A u \in Sessions : session[u].frames \in Nat /\ session[u].frames <= received
        BY <1>0 DEF TypeOK, Counted, SessionType
    <3>4. received \in Nat
        BY <1>0 DEF TypeOK
    <3>5. Counted'
        BY <2>1, <2>2, <3>2, <3>3, <3>4 DEF Counted
    <3>6. QED
        BY <3>1, <3>5
  <2>4. QED
    BY <1>0, <1>1, <2>3, <2>5 DEF TypeInv, TypeOK
<1>6. CASE UNCHANGED vars
    BY <1>0, <1>6 DEF vars, TypeInv, TypeOK, Counted
<1>7. QED
    BY <1>3, <1>4, <1>5, <1>6 DEF Next

\* The initial session is typed: nothing was sent and nothing is parked.
LEMMA TypeInit == Init => TypeInv
<1> SUFFICES ASSUME Init PROVE TypeInv
    OBVIOUS
<1>1. NoWaits \in [Nonces -> 0..MaxTarget] /\ <<>> \in Seq(FrameType) /\ {} \in SUBSET Nonces
    BY FrameBounds DEF NoWaits
<1>2. \A s \in Sessions : session[s] \in SessionType /\ session[s].frames = 0
    BY <1>1, PeerIdsAssumption, FrameBounds DEF Init, SessionType, Phases
<1>3. session \in [Sessions -> SessionType]
    BY <1>2 DEF Init
<1>4. sent \in [Sessions -> Seq(FrameType)]
    BY <1>1 DEF Init
<1>5. exists \in BOOLEAN
    BY Zenon DEF Init
<1>6. version \in Nat /\ received \in 0..MaxFrames /\ errors \in 0..MaxErrors /\ Counted
    BY <1>2, FrameBounds DEF Init, Counted
<1>7. QED
    BY <1>3, <1>4, <1>5, <1>6 DEF TypeInv, TypeOK

\* TypeOK: sessions, queued frames and parked waits keep their shape, however the
\* frames of the connections interleave.
THEOREM TypeCorrect == Spec => []TypeOK
<1>1. TypeInv => TypeOK
    BY DEF TypeInv
<1>2. TypeInv /\ [Next]_vars => TypeInv'
    BY TypeStep
<1>3. QED
    BY <1>1, <1>2, TypeInit, PTL DEF Spec

-------------------------------------------------------------------------------
(* Streams: what a client has received and what is queued for it.             *)

Stream(s) == sent[s] \o session[s].queue

\* Frames without a nonce repeat; the others do not.
Unique(q) == \A i, j \in 1..Len(q) : q[i].nonce = q[j].nonce /\ q[i].nonce # 0 => i = j
Named(q, n) == \E i \in 1..Len(q) : q[i].nonce = n

\* A stream grows by frames that answer nothing it answers already.
LEMMA Grown ==
    ASSUME NEW u \in Seq(FrameType), NEW b \in Seq(FrameType)
    PROVE  /\ \A n : Named(u \o b, n) <=> Named(u, n) \/ Named(b, n)
           /\ Unique(u) /\ Unique(b) /\ (\A n \in Nonces : ~(Named(u, n) /\ Named(b, n)))
                 => Unique(u \o b)
           /\ Unique(u \o b) => Unique(u)
<1> DEFINE v == u \o b
<1>1. /\ v \in Seq(FrameType) /\ Len(v) = Len(u) + Len(b) /\ Len(u) \in Nat /\ Len(b) \in Nat
      /\ \A i \in 1..Len(v) : v[i] = IF i <= Len(u) THEN u[i] ELSE b[i - Len(u)]
    BY ConcatProperties
<1> HIDE DEF v
<1>2. \A i \in 1..Len(u) : i \in 1..Len(v) /\ v[i] = u[i]
    BY <1>1
<1>3. \A i \in 1..Len(b) : i + Len(u) \in 1..Len(v) /\ v[i + Len(u)] = b[i]
    BY <1>1
<1>4. \A i \in 1..Len(v) : i \in 1..Len(u) \/ (i - Len(u) \in 1..Len(b) /\ i > Len(u))
    BY <1>1
<1>5. \A n : Named(v, n) <=> Named(u, n) \/ Named(b, n)
  <2> SUFFICES ASSUME NEW n PROVE Named(v, n) <=> Named(u, n) \/ Named(b, n)
    OBVIOUS
  <2>1. ASSUME Named(v, n) PROVE Named(u, n) \/ Named(b, n)
    <3>1. PICK i \in 1..Len(v) : v[i].nonce = n
        BY <2>1 DEF Named
    <3>2. CASE i \in 1..Len(u)
        BY <1>2, <3>1, <3>2 DEF Named
    <3>3. CASE i - Len(u) \in 1..Len(b) /\ i > Len(u)
      <4>1. v[i] = b[i - Len(u)]
        BY <1>1, <3>3
      <4>2. QED
        BY <3>1, <3>3, <4>1 DEF Named
    <3>4. QED
        BY <1>4, <3>2, <3>3
  <2>2. ASSUME Named(u, n) \/ Named(b, n) PROVE Named(v, n)
    BY <1>2, <1>3, <2>2 DEF Named
  <2>3. QED
    BY <2>1, <2>2
<1>6. ASSUME Unique(u), Unique(b), \A n \in Nonces : ~(Named(u, n) /\ Named(b, n))
      PROVE  Unique(v)
  <2> SUFFICES ASSUME NEW i \in 1..Len(v), NEW j \in 1..Len(v),
                      v[i].nonce = v[j].nonce, v[i].nonce # 0
               PROVE  i = j
    BY DEF Unique
  <2>0. v[i].nonce \in Nonces
    <3>1. v[i] \in FrameType
        BY <1>1
    <3>2. QED
        BY <3>1, FrameBounds DEF FrameType, Nonces
  <2>1. CASE i <= Len(u) /\ j <= Len(u)
    BY <1>1, <1>6, <2>1, SMTT(30) DEF Unique
  <2>2. CASE i > Len(u) /\ j > Len(u)
    <3>1. i - Len(u) \in 1..Len(b) /\ j - Len(u) \in 1..Len(b)
        BY <1>4, <2>2, <1>1
    <3>2. v[i] = b[i - Len(u)] /\ v[j] = b[j - Len(u)]
        BY <1>1, <2>2
    <3>3. i - Len(u) = j - Len(u)
        BY <1>6, <3>1, <3>2 DEF Unique
    <3>4. QED
        BY <1>1, <3>3
  <2>3. ASSUME NEW k \in 1..Len(v), NEW l \in 1..Len(v), k <= Len(u), l > Len(u),
               v[k].nonce = v[l].nonce, v[k].nonce \in Nonces
        PROVE  FALSE
    <3>1. k \in 1..Len(u) /\ v[k] = u[k]
        BY <1>1, <2>3
    <3>2. l - Len(u) \in 1..Len(b) /\ v[l] = b[l - Len(u)]
        BY <1>1, <1>4, <2>3
    <3>3. Named(u, v[k].nonce) /\ Named(b, v[k].nonce)
        BY <2>3, <3>1, <3>2 DEF Named
    <3>4. QED
        BY <1>6, <2>3, <3>3
  <2>4. QED
    BY <1>1, <2>0, <2>1, <2>2, <2>3
<1>7. Unique(v) => Unique(u)
    BY <1>2 DEF Unique
<1>8. QED
    BY <1>5, <1>6, <1>7 DEF v

\* A stream of no frame, or of one, answers no nonce twice.
LEMMA ShortStreams ==
    /\ Unique(<<>>) /\ \A n : ~Named(<<>>, n)
    /\ \A f \in FrameType : Unique(<<f>>) /\ \A n : Named(<<f>>, n) <=> f.nonce = n
    BY DEF Unique, Named

\* The answers to nonces that are all different.
LEMMA BlockStream ==
    ASSUME TypeOK, NEW S \in SUBSET Nonces, NEW q \in InOrder(S)
    PROVE  /\ Block(q) \in Seq(FrameType) /\ Len(Block(q)) = Len(q)
           /\ \A i \in 1..Len(q) : Block(q)[i] = ConditionFrame(q[i], ConditionState(version))
           /\ Unique(Block(q)) /\ \A n : Named(Block(q), n) <=> n \in S
<1>0. ConditionState(version) \in Nat
    BY DEF TypeOK, ConditionState
<1>1. /\ q \in Seq(Nonces) /\ Len(q) \in Nat
      /\ \A i \in 1..Len(q) : q[i] \in S
      /\ \A i, j \in 1..Len(q) : q[i] = q[j] => i = j
      /\ \A n \in S : \E i \in 1..Len(q) : q[i] = n
    BY OrderedNonces
<1>2. \A i \in 1..Len(q) : ConditionFrame(q[i], ConditionState(version)) \in FrameType
    BY <1>0, <1>1, FrameTypes
<1>3. Block(q) \in Seq(FrameType) /\ Len(Block(q)) = Len(q)
    BY <1>1, <1>2 DEF Block
<1>4. \A i \in 1..Len(q) : Block(q)[i] = ConditionFrame(q[i], ConditionState(version))
    BY DEF Block
<1>5. \A i \in 1..Len(q) : Block(q)[i].nonce = q[i]
  <2>1. \A n, state : ConditionFrame(n, state).nonce = n
    BY DEF ConditionFrame
  <2>2. QED
    BY <1>4, <2>1
<1>6. QED
    BY <1>1, <1>3, <1>4, <1>5 DEF Unique, Named

\* How a step changes a stream: it is cut back to what was written, or it grows.
LEMMA StreamSteps ==
    ASSUME TypeOK, NEW s \in Sessions, NEW r \in SessionType, session' = [session EXCEPT ![s] = r]
    PROVE  /\ Stream(s) \in Seq(FrameType)
           /\ sent' = sent /\ r.queue = <<>> => Stream(s)' = sent[s]
           /\ sent' = sent /\ r.queue = session[s].queue => Stream(s)' = Stream(s)
           /\ sent' = [sent EXCEPT ![s] = @ \o session[s].queue] /\ r.queue = <<>> =>
                 Stream(s)' = Stream(s)
           /\ \A f \in FrameType : sent' = sent /\ r.queue = Append(session[s].queue, f) =>
                 Stream(s)' = Stream(s) \o <<f>>
           /\ \A b \in Seq(FrameType) : sent' = sent /\ r.queue = session[s].queue \o b =>
                 Stream(s)' = Stream(s) \o b
<1>1. /\ sent[s] \in Seq(FrameType) /\ session[s].queue \in Seq(FrameType) /\ session'[s] = r
      /\ Stream(s)' = sent'[s] \o r.queue
    BY DEF TypeOK, SessionType, Stream
<1>2. Stream(s) \in Seq(FrameType)
    BY <1>1, ConcatProperties DEF Stream
<1>3. sent' = sent /\ r.queue = <<>> => Stream(s)' = sent[s]
    BY <1>1, ConcatEmptySeq
<1>4. sent' = [sent EXCEPT ![s] = @ \o session[s].queue] /\ r.queue = <<>> => Stream(s)' = Stream(s)
    BY <1>1, <1>2, ConcatEmptySeq DEF Stream, TypeOK
<1>5. \A b \in Seq(FrameType) : sent' = sent /\ r.queue = session[s].queue \o b =>
                 Stream(s)' = Stream(s) \o b
  <2> SUFFICES ASSUME NEW b \in Seq(FrameType), sent' = sent, r.queue = session[s].queue \o b
               PROVE  Stream(s)' = Stream(s) \o b
    OBVIOUS
  <2>1. (sent[s] \o session[s].queue) \o b = sent[s] \o (session[s].queue \o b)
    <3>1. \A x, y, z \in Seq(FrameType) : (x \o y) \o z = x \o (y \o z)
        BY ConcatAssociative, SMTT(30)
    <3>2. sent[s] \in Seq(FrameType) /\ session[s].queue \in Seq(FrameType)
        BY <1>1
    <3>3. QED
        BY <3>1, <3>2, Zenon
  <2>2. QED
    BY <1>1, <2>1 DEF Stream
<1>6. ASSUME NEW f \in FrameType, sent' = sent, r.queue = Append(session[s].queue, f)
      PROVE  Stream(s)' = Stream(s) \o <<f>>
  <2>1. <<f>> \in Seq(FrameType) /\ r.queue = session[s].queue \o <<f>>
    BY <1>1, <1>6, AppendIsConcat
  <2>2. QED
    BY <1>5, <1>6, <2>1
<1>7. QED
    BY <1>1, <1>2, <1>3, <1>4, <1>5, <1>6 DEF Stream

-------------------------------------------------------------------------------
(* Answers.                                                                   *)

\* A nonce not used yet is not parked, a nonce is parked at most once, and the waits
\* found ready are those the handler is about to answer.
Tidy(a, v) ==
    /\ \A n \in Nonces : n > a.frames => a.config_waits[n] = 0 /\ a.waits[n] = 0 /\ n \notin a.ready
    /\ \A n \in Nonces : a.waits[n] = 0 \/ (a.config_waits[n] = 0 /\ n \notin a.ready)
    /\ a.phase \notin {"update_now", "config_update"} => a.ready = {}
    /\ a.phase = "update_now" => \A n \in a.ready : a.config_waits[n] = 0
    /\ a.phase = "config_update" =>
          \A n \in a.ready : a.config_waits[n] > 0 /\ a.config_waits[n] <= ConditionState(v)

\* The stream u answers a nonce once, and what it answers is neither parked nor ready.
Settled(u, a) ==
    /\ Unique(u)
    /\ \A n \in Nonces : Named(u, n) =>
          n <= a.frames /\ a.config_waits[n] = 0 /\ a.waits[n] = 0 /\ n \notin a.ready

OnceInv ==
    TypeInv /\ \A s \in Sessions : Tidy(session[s], version) /\ Settled(Stream(s), session[s])

\* A session that ends has no waits left, and its stream ends with what was written.
LEMMA ClosedOnce ==
    ASSUME OnceInv, NEW s \in Sessions, NEW r \in SessionType,
           session' = [session EXCEPT ![s] = r], Closed(session[s], r), sent' = sent, version' = version
    PROVE  Tidy(r, version') /\ Settled(Stream(s)', r)
<1>0. /\ TypeOK /\ session[s].queue \in Seq(FrameType) /\ sent[s] \in Seq(FrameType)
      /\ Settled(Stream(s), session[s])
    BY DEF OnceInv, TypeInv, TypeOK, SessionType
<1>1. Stream(s)' = sent[s]
    BY <1>0, StreamSteps DEF Closed
<1>2. \A n \in Nonces : r.config_waits[n] = 0 /\ r.waits[n] = 0 /\ n \notin r.ready
    BY DEF Closed, NoWaits
<1>3. Unique(sent[s]) /\ \A n \in Nonces : Named(sent[s], n) => n <= r.frames
    BY <1>0, Grown DEF Stream, Settled, Closed
<1>4. QED
    BY <1>1, <1>2, <1>3 DEF Settled, Tidy, Closed

\* A frame that is taken answers or parks its own nonce.
LEMMA TakenOnce ==
    ASSUME OnceInv, NEW s \in Sessions, NEW r \in SessionType,
           session' = [session EXCEPT ![s] = r], Taken(session[s], r, Nonce(s)),
           Nonce(s) \in Nonces, session[s].phase = "idle", sent' = sent
    PROVE  Tidy(r, version') /\ Settled(Stream(s)', r)
<1> DEFINE a == session[s]
           k == Nonce(s)
<1>0. /\ TypeOK /\ a \in SessionType /\ Tidy(a, version) /\ Settled(Stream(s), a)
      /\ a.frames \in Nat /\ k = a.frames + 1 /\ a.ready = {}
      /\ a.config_waits \in [Nonces -> 0..MaxTarget] /\ a.waits \in [Nonces -> 0..MaxTarget]
  <2>1. TypeOK /\ Tidy(a, version) /\ Settled(Stream(s), a)
    BY DEF OnceInv, TypeInv
  <2>2. a \in SessionType
    BY <2>1 DEF TypeOK
  <2>3. a.ready = {} /\ k = a.frames + 1
    BY <2>1 DEF Tidy, Nonce
  <2>4. /\ a.frames \in Nat
        /\ a.config_waits \in [Nonces -> 0..MaxTarget] /\ a.waits \in [Nonces -> 0..MaxTarget]
    BY <2>2, SMTT(30) DEF SessionType
  <2>5. QED
    BY <2>1, <2>2, <2>3, <2>4
<1>1. \A n \in Nonces : n \in Nat /\ (n > a.frames <=> n = k \/ n > k)
    BY <1>0, FrameBounds DEF Nonces
<1>2. ~Named(Stream(s), k) /\ a.config_waits[k] = 0 /\ a.waits[k] = 0 /\ r.frames = k
    BY <1>0, <1>1 DEF Settled, Tidy, Taken
<1>3. CASE /\ r.config_waits = a.config_waits /\ r.waits = a.waits /\ r.ready = a.ready
           /\ r.phase \in {"write", "config_ready"}
           /\ r.queue = a.queue \/ Queues(a, r, k)
  <2>1. Tidy(r, version')
    BY <1>0, <1>1, <1>2, <1>3 DEF Tidy
  <2>2. CASE r.queue = a.queue
    <3>1. Stream(s)' = Stream(s)
        BY <1>0, <2>2, StreamSteps
    <3>2. QED
        BY <1>0, <1>1, <1>2, <1>3, <2>1, <3>1 DEF Settled
  <2>3. CASE Queues(a, r, k)
    <3>1. PICK f \in FrameType : r.queue = Append(a.queue, f) /\ f.nonce \in {0, k}
        BY <2>3 DEF Queues
    <3>2. Stream(s)' = Stream(s) \o <<f>> /\ Stream(s) \in Seq(FrameType) /\ <<f>> \in Seq(FrameType)
        <4>1. Stream(s) \in Seq(FrameType)
            BY <1>0, StreamSteps
        <4>2. <<f>> \in Seq(FrameType)
            OBVIOUS
        <4>3. \A g \in FrameType : r.queue = Append(a.queue, g) => Stream(s)' = Stream(s) \o <<g>>
            BY <1>0, StreamSteps
        <4>4. QED
            BY <3>1, <4>1, <4>2, <4>3
    <3>3. Unique(<<f>>) /\ \A n \in Nonces : Named(<<f>>, n) => n = k
        BY <1>1, <3>1, ShortStreams, FrameBounds DEF Nonces
    <3>4. Unique(Stream(s)') /\ \A n \in Nonces : Named(Stream(s)', n) => n = k \/ Named(Stream(s), n)
        <4> DEFINE b == <<f>>
        <4>1. b \in Seq(FrameType) /\ Stream(s)' = Stream(s) \o b /\ Unique(b)
              /\ \A n \in Nonces : Named(b, n) => n = k
            BY <3>2, <3>3
        <4> HIDE DEF b
        <4>2. QED
            BY <1>0, <1>2, <3>2, <4>1, Grown DEF Settled
    <3>5. QED
        BY <1>0, <1>1, <1>2, <1>3, <2>1, <3>4 DEF Settled
  <2>4. QED
    BY <1>3, <2>2, <2>3
<1>4. CASE /\ r.queue = a.queue
           /\ \/ /\ r.config_waits = a.config_waits /\ r.waits = a.waits
                 /\ r.ready = {k} /\ r.phase = "update_now"
              \/ /\ r.waits = a.waits /\ r.ready = a.ready /\ r.phase = "config_ready"
                 /\ \E state \in States : r.config_waits = [a.config_waits EXCEPT ![k] = state]
              \/ /\ r.config_waits = a.config_waits /\ r.ready = a.ready /\ r.phase = "config_ready"
                 /\ \E state \in States : r.waits = [a.waits EXCEPT ![k] = state]
  <2>1. Stream(s)' = Stream(s)
    BY <1>0, <1>4, StreamSteps
  <2>2. \A n \in Nonces \ {k} : /\ r.config_waits[n] = a.config_waits[n] /\ r.waits[n] = a.waits[n]
                              /\ n \notin r.ready
    BY <1>0, <1>4
  <2>3. r.waits[k] = 0 \/ (r.config_waits[k] = 0 /\ k \notin r.ready)
    BY <1>0, <1>2, <1>4
  <2>4. Tidy(r, version')
    BY <1>0, <1>1, <1>2, <1>4, <2>2, <2>3 DEF Tidy
  <2>5. Settled(Stream(s), r)
    BY <1>0, <1>1, <1>2, <2>2 DEF Settled
  <2>6. QED
    BY <2>1, <2>4, <2>5
<1>5. QED
    BY <1>3, <1>4 DEF Taken

\* The handler answers what is ready or reached, and only that.
LEMMA HandledOnce ==
    ASSUME OnceInv, NEW s \in Sessions, NEW r \in SessionType, Handles(s, r), version' = version
    PROVE  Tidy(r, version') /\ Settled(Stream(s)', r)
<1> DEFINE a == session[s]
           now == ConditionState(version)
<1>0. /\ TypeOK /\ a \in SessionType /\ Tidy(a, version) /\ Settled(Stream(s), a)
      /\ a.frames \in Nat /\ now \in Nat /\ a.ready \subseteq Nonces
      /\ a.config_waits \in [Nonces -> 0..MaxTarget] /\ a.waits \in [Nonces -> 0..MaxTarget]
      /\ session' = [session EXCEPT ![s] = r] /\ r.frames = a.frames
  <2>1. TypeOK /\ Tidy(a, version) /\ Settled(Stream(s), a)
    BY DEF OnceInv, TypeInv
  <2>2. a \in SessionType /\ now \in Nat
    BY <2>1 DEF TypeOK, ConditionState
  <2>3. session' = [session EXCEPT ![s] = r] /\ r.frames = a.frames
    BY DEF Handles, Kept
  <2>4. QED
    BY <2>1, <2>2, <2>3 DEF SessionType
<1>1. Stream(s) \in Seq(FrameType)
    BY <1>0, StreamSteps
<1>2. CASE Readies(s, r)
  <2>1. Stream(s)' = Stream(s)
    BY <1>0, <1>2, StreamSteps DEF Readies
  <2>2. \A n \in Nonces : n \in r.ready => a.config_waits[n] > 0 /\ a.config_waits[n] <= now
    BY <1>0, <1>2 DEF Readies, Reached
  <2>3. r.ready \subseteq Nonces
    BY <1>2 DEF Readies, Reached
  <2>4. \A n \in Nonces : r.config_waits[n] = a.config_waits[n] /\ r.waits[n] = a.waits[n]
    BY <1>2 DEF Readies
  <2>5. \A n \in Nonces : a.config_waits[n] = 0 => n \notin r.ready
    BY <2>2
  <2>6. Tidy(r, version')
    BY <1>0, <1>2, <2>2, <2>3, <2>4, <2>5 DEF Tidy, Readies
  <2>7. Settled(Stream(s), r)
    BY <1>0, <2>4, <2>5 DEF Settled
  <2>8. QED
    BY <2>1, <2>6, <2>7
<1>3. ASSUME NEW n \in Nonces, Updates(s, n, r) PROVE Tidy(r, version') /\ Settled(Stream(s)', r)
  <2> DEFINE f == ConditionFrame(n, now)
  <2>1. f \in FrameType /\ f.nonce = n
    BY <1>0, FrameTypes DEF ConditionFrame
  <2>2. n \in a.ready /\ r.ready = a.ready \ {n} /\ n <= a.frames /\ a.waits[n] = 0 /\ n \in Nat
    BY <1>0, <1>3, FrameBounds, SMTT(30) DEF Updates, Tidy, Nonces
  <2>3. /\ \A m \in Nonces \ {n} : r.config_waits[m] = a.config_waits[m]
        /\ r.config_waits[n] = 0 /\ r.waits = a.waits /\ r.phase = a.phase
    BY <1>0, <1>3 DEF Updates
  <2>4. Stream(s)' = Stream(s) \o <<f>>
    <3>1. \A g \in FrameType : sent' = sent /\ r.queue = Append(a.queue, g) =>
              Stream(s)' = Stream(s) \o <<g>>
        BY <1>0, StreamSteps
    <3>2. QED
        BY <1>3, <2>1, <3>1 DEF Updates
  <2> HIDE DEF f
  <2>5. ~Named(Stream(s), n)
    BY <1>0, <2>2 DEF Settled
  <2>6. Unique(<<f>>) /\ <<f>> \in Seq(FrameType) /\ \A m : Named(<<f>>, m) <=> m = n
    BY <2>1, ShortStreams
  <2>7. Unique(Stream(s)') /\ \A m \in Nonces : Named(Stream(s)', m) => m = n \/ Named(Stream(s), m)
    <3> DEFINE b == <<f>>
    <3>1. b \in Seq(FrameType) /\ Stream(s)' = Stream(s) \o b /\ Unique(b)
          /\ \A m : Named(b, m) <=> m = n
        BY <2>4, <2>6
    <3> HIDE DEF b
    <3>2. QED
        BY <1>0, <1>1, <2>5, <3>1, Grown DEF Settled
  <2>8. Tidy(r, version')
    BY <1>0, <1>3, <2>2, <2>3 DEF Tidy
  <2>9. Settled(Stream(s)', r)
    BY <1>0, <2>2, <2>3, <2>7 DEF Settled
  <2>10. QED
    BY <2>8, <2>9
<1>4. CASE Advances(s, r) \/ Writes(s, r)
  <2>1. Stream(s)' = Stream(s)
    BY <1>0, <1>4, StreamSteps DEF Advances, Writes
  <2>2. /\ r.config_waits = a.config_waits /\ r.waits = a.waits /\ r.ready = a.ready /\ r.ready = {}
        /\ r.phase \notin {"update_now", "config_update"}
    BY <1>0, <1>4 DEF Advances, Writes, Tidy
  <2>3. QED
    BY <1>0, <2>1, <2>2 DEF Tidy, Settled
<1>5. CASE Completes(s, r)
  <2> DEFINE S == Reached(a.waits, now)
  <2>1. PICK q \in InOrder(S) : r.queue = a.queue \o Block(q)
    BY <1>5 DEF Completes
  <2>2. S \in SUBSET Nonces /\ \A n \in S : a.waits[n] > 0 /\ a.waits[n] <= now
    BY DEF Reached
  <2> HIDE DEF S
  <2>3. /\ Block(q) \in Seq(FrameType) /\ Unique(Block(q))
        /\ \A n : Named(Block(q), n) <=> n \in S
    BY <1>0, <2>2, BlockStream
  <2>4. Stream(s)' = Stream(s) \o Block(q)
    BY <1>0, <1>5, <2>1, <2>3, StreamSteps DEF Completes
  <2>5. \A n \in S : ~Named(Stream(s), n) /\ n <= a.frames /\ a.config_waits[n] = 0
    BY <1>0, <2>2, FrameBounds DEF Settled, Tidy, Nonces
  <2>6. Unique(Stream(s)') /\ \A n : Named(Stream(s)', n) => n \in S \/ Named(Stream(s), n)
    BY <1>0, <1>1, <2>3, <2>4, <2>5, Grown DEF Settled
  <2>7. /\ r.config_waits = a.config_waits /\ r.ready = {} /\ r.phase = "write"
        /\ \A n \in Nonces : (a.waits[n] = 0 => r.waits[n] = 0) /\ (n \in S => r.waits[n] = 0)
    BY <1>0, <1>5, <2>2 DEF Completes, Tidy
  <2>8. Tidy(r, version')
    BY <1>0, <2>7 DEF Tidy
  <2>9. Settled(Stream(s)', r)
    BY <1>0, <2>5, <2>6, <2>7 DEF Settled
  <2>10. QED
    BY <2>8, <2>9
<1>6. QED
    BY <1>2, <1>3, <1>4, <1>5 DEF Handles

\* A step in which session s becomes r.
Moves(s, r) ==
    /\ session' = [session EXCEPT ![s] = r]
    /\ \A u \in Sessions \ {s} : session'[u] = session[u] /\ sent'[u] = sent[u]
    /\ session'[s] = r
    /\ \/ Closed(session[s], r) /\ version' = version /\ sent' = sent
       \/ /\ Taken(session[s], r, Nonce(s)) /\ Nonce(s) \in Nonces /\ sent' = sent
          /\ session[s].phase = "idle" /\ (r.phase = "write" => version' = version)
       \/ Handles(s, r) /\ version' = version

\* Only one session changes in a step, and the version never goes back.
LEMMA OneMoves ==
    ASSUME TypeInv, Next
    PROVE  /\ version' \in Nat /\ version' >= version
           /\ \E s \in Sessions, r \in SessionType : Moves(s, r)
<1>0. TypeOK /\ Counted /\ version \in Nat
    BY DEF TypeInv, TypeOK
<1>1. PICK s \in Sessions : Receive(s) \/ Handle(s) \/ ViewFails(s)
    BY DEF Next
<1>2. PICK r \in SessionType :
          /\ session' = [session EXCEPT ![s] = r]
          /\ \/ Closed(session[s], r) /\ version' = version /\ sent' = sent
             \/ /\ Taken(session[s], r, Nonce(s)) /\ Nonce(s) \in Nonces /\ sent' = sent
                /\ version' \in Nat /\ version' >= version
                /\ session[s].phase = "idle" /\ (r.phase = "write" => version' = version)
             \/ Handles(s, r) /\ version' = version
  <2>1. CASE Receive(s)
    BY <1>0, <2>1, ReceiveFrame DEF Outcome
  <2>2. CASE Handle(s)
    BY <1>0, <2>2, HandleFrame DEF Handles
  <2>3. CASE ViewFails(s)
    BY <1>0, <2>3, ViewFailsFrame
  <2>4. QED
    BY <1>1, <2>1, <2>2, <2>3
<1>3. session'[s] = r /\ \A u \in Sessions \ {s} : session'[u] = session[u] /\ sent'[u] = sent[u]
    BY <1>0, <1>2 DEF TypeOK, Handles, Readies, Updates, Advances, Completes, Writes
<1>4. version' \in Nat /\ version' >= version
    BY <1>0, <1>2
<1>5. QED
    BY <1>2, <1>3, <1>4 DEF Moves

\* Every step keeps the answers single.
LEMMA OnceStep ==
    ASSUME OnceInv, [Next]_vars
    PROVE  OnceInv'
<1>0. TypeInv
    BY DEF OnceInv
<1>1. TypeInv'
    BY <1>0, TypeStep
<1>2. CASE UNCHANGED vars
    BY <1>1, <1>2 DEF OnceInv, vars, Stream
<1>3. CASE Next
  <2>1. PICK s \in Sessions, r \in SessionType : Moves(s, r)
    BY <1>0, <1>3, OneMoves
  <2>2. Tidy(r, version') /\ Settled(Stream(s)', r)
    BY <2>1, ClosedOnce, TakenOnce, HandledOnce DEF Moves
  <2>3. version \in Nat /\ version' \in Nat /\ version' >= version
    BY <1>0, <1>3, OneMoves DEF TypeInv, TypeOK
  <2>4. ASSUME NEW u \in Sessions \ {s}
        PROVE  Tidy(session'[u], version') /\ Settled(Stream(u)', session'[u])
    <3>1. Tidy(session[u], version) /\ Settled(Stream(u), session[u])
        BY DEF OnceInv
    <3>2. session'[u] = session[u] /\ Stream(u)' = Stream(u)
        BY <2>1 DEF Stream, Moves
    <3>3. session[u].ready \subseteq Nonces /\ \A n \in Nonces : session[u].config_waits[n] \in Nat
      <4>1. session[u] \in SessionType
        BY <1>0 DEF TypeInv, TypeOK
      <4>2. QED
        BY <4>1, FrameBounds, SMTT(30) DEF SessionType
    <3>4. \A n \in session[u].ready :
             session[u].config_waits[n] <= ConditionState(version)
             => session[u].config_waits[n] <= ConditionState(version')
      <4>1. \A n \in session[u].ready : session[u].config_waits[n] \in Nat
        BY <3>3
      <4>2. \A x \in Nat : x <= ConditionState(version) => x <= ConditionState(version')
        <5>1. \A v, w, x \in Nat : w >= v /\ x <= ConditionState(v) => x <= ConditionState(w)
            BY DEF ConditionState
        <5>2. QED
            BY <2>3, <5>1
      <4>3. QED
        BY <4>1, <4>2
    <3>6. Tidy(session[u], version')
        BY <3>1, <3>4 DEF Tidy
    <3>5. QED
        BY <3>1, <3>2, <3>6
  <2>5. QED
    BY <1>1, <2>1, <2>2, <2>4 DEF OnceInv, Moves
<1>4. QED
    BY <1>2, <1>3

\* Nothing is answered or parked at first.
LEMMA OnceInit == Init => OnceInv
<1> SUFFICES ASSUME Init PROVE OnceInv
    OBVIOUS
<1>1. TypeInv
    BY TypeInit
<1>2. ASSUME NEW s \in Sessions PROVE Tidy(session[s], version) /\ Settled(Stream(s), session[s])
  <2>1. /\ session[s].config_waits = NoWaits /\ session[s].waits = NoWaits
        /\ session[s].ready = {} /\ session[s].phase = "idle"
        /\ session[s].queue = <<>> /\ sent[s] = <<>>
    BY DEF Init
  <2>2. Stream(s) = <<>>
    BY <2>1 DEF Stream
  <2>3. QED
    BY <2>1, <2>2, ShortStreams DEF Tidy, Settled, NoWaits
<1>3. QED
    BY <1>1, <1>2 DEF OnceInv

\* AnsweredOnce: on every connection the coordinator answers a request at most once, and
\* an answered wait is in neither of the two pending tables, whatever other connections do
\* to the version between the steps of the handler.
THEOREM AnswersAreSingle == Spec => []AnsweredOnce
<1>1. OnceInv => AnsweredOnce
  <2> SUFFICES ASSUME OnceInv, NEW s \in Sessions, NEW n \in Nonces
               PROVE  Cardinality(Answers(s, n)) <= 1 /\ (Answers(s, n) # {} => Parked(s, n) = 0)
    BY DEF AnsweredOnce
  <2>0. /\ TypeOK /\ sent[s] \in Seq(FrameType) /\ session[s].queue \in Seq(FrameType)
        /\ Settled(Stream(s), session[s]) /\ n # 0
    <3>1. TypeOK /\ Settled(Stream(s), session[s])
        BY DEF OnceInv, TypeInv
    <3>2. sent[s] \in Seq(FrameType) /\ session[s] \in SessionType
        BY <3>1 DEF TypeOK
    <3>3. session[s].queue \in Seq(FrameType)
        BY <3>2 DEF SessionType
    <3>4. n # 0
        BY DEF Nonces
    <3>5. QED
        BY <3>1, <3>2, <3>3, <3>4
  <2>1. Unique(sent[s]) /\ (Named(sent[s], n) => Named(Stream(s), n))
    BY <2>0, Grown DEF Stream, Settled
  <2>2. Answers(s, n) # {} => Named(sent[s], n)
    BY DEF Answers, Named
  <2>3. \A i, j \in Answers(s, n) : i = j
    BY <2>0, <2>1 DEF Answers, Unique
  <2>4. Answers(s, n) = {} \/ \E i : Answers(s, n) = {i}
    BY <2>3
  <2>5. Cardinality(Answers(s, n)) <= 1
    <3>1. CASE Answers(s, n) = {}
      <4>1. Cardinality(Answers(s, n)) = 0
        BY <3>1, FS_EmptySet
      <4>2. QED
        BY <4>1
    <3>2. ASSUME NEW i, Answers(s, n) = {i} PROVE Cardinality(Answers(s, n)) <= 1
      <4>1. Cardinality({i}) = 1
        BY FS_Singleton
      <4>2. QED
        BY <3>2, <4>1
    <3>3. QED
        BY <2>4, <3>1, <3>2
  <2>6. QED
    BY <2>0, <2>1, <2>2, <2>5 DEF Settled, Parked
<1>2. OnceInv /\ [Next]_vars => OnceInv'
    BY OnceStep
<1>3. QED
    BY <1>1, <1>2, OnceInit, PTL DEF Spec

-------------------------------------------------------------------------------
(* Waits.                                                                     *)

\* WaitsAnsweredInTime: the step that takes a wait out of a pending table of an open
\* connection queues an answer to it, with a state the wait asked for and the coordinator
\* has reached.
THEOREM WaitsInTime == Spec => WaitsAnsweredInTime
<1> DEFINE InTime(s, n) ==
          /\ Parked(s, n) > 0 /\ Parked(s, n)' = 0 /\ session'[s].open
          => \E i \in 1..Len(session'[s].queue) :
                /\ session'[s].queue[i].nonce = n
                /\ session'[s].queue[i].state >= Parked(s, n)
                /\ session'[s].queue[i].state <= ConditionState(version)
<1>1. ASSUME OnceInv, NEW s \in Sessions, NEW n \in Nonces, Next PROVE InTime(s, n)
  <2> DEFINE a == session[s]
             now == ConditionState(version)
  <2> SUFFICES ASSUME Parked(s, n) > 0, Parked(s, n)' = 0, session'[s].open
               PROVE  \E i \in 1..Len(session'[s].queue) :
                         /\ session'[s].queue[i].nonce = n
                         /\ session'[s].queue[i].state >= Parked(s, n)
                         /\ session'[s].queue[i].state <= now
    OBVIOUS
  <2>0. TypeInv /\ TypeOK /\ a \in SessionType /\ session' \in [Sessions -> SessionType]
    BY <1>1, TypeStep DEF OnceInv, TypeInv, TypeOK
  <2>1. /\ a.config_waits[n] \in Nat /\ a.waits[n] \in Nat /\ a.queue \in Seq(FrameType)
        /\ now \in Nat /\ Tidy(a, version)
    BY <1>1, <2>0, FrameBounds DEF SessionType, TypeOK, ConditionState, OnceInv
  <2>2. session'[s].config_waits[n] \in Nat /\ session'[s].waits[n] \in Nat
    BY <2>0, FrameBounds, SMTT(30) DEF SessionType
  <2>3. /\ a.config_waits[n] > 0 \/ a.waits[n] > 0
        /\ session'[s].config_waits[n] = 0 /\ session'[s].waits[n] = 0
    <3>1. /\ Parked(s, n) = a.config_waits[n] + a.waits[n]
          /\ Parked(s, n)' = session'[s].config_waits[n] + session'[s].waits[n]
        BY DEF Parked
    <3>2. QED
        BY <2>1, <2>2, <3>1, SMTT(30)
  <2>4. PICK u \in Sessions, r \in SessionType : Moves(u, r)
    BY <1>1, <2>0, OneMoves
  <2>5. u = s /\ session'[s] = r
    BY <2>3, <2>4 DEF Moves
  <2>6. ~Closed(a, r)
    BY <2>5 DEF Closed
  <2>7. ~Taken(a, r, Nonce(s)) \/ Nonce(s) \notin Nonces
    <3> SUFFICES ASSUME Taken(a, r, Nonce(s)), Nonce(s) \in Nonces PROVE FALSE
        OBVIOUS
    <3>1. n # Nonce(s)
      <4>1. a.frames \in Nat /\ Nonce(s) = a.frames + 1
        BY <2>0, SMTT(30) DEF SessionType, Nonce
      <4>2. QED
        BY <2>1, <2>3, <4>1 DEF Tidy
    <3>2. r.config_waits[n] = a.config_waits[n] /\ r.waits[n] = a.waits[n]
        BY <2>0, <3>1 DEF Taken, SessionType
    <3>3. QED
        BY <2>1, <2>3, <2>5, <3>2
  <2>8. Handles(s, r)
    BY <2>4, <2>5, <2>6, <2>7 DEF Moves
  <2>9. ~Readies(s, r) /\ ~Advances(s, r) /\ ~Writes(s, r)
    <3>1. r.config_waits # a.config_waits \/ r.waits # a.waits
        BY <2>1, <2>3, <2>5
    <3>2. QED
        BY <3>1 DEF Readies, Advances, Writes
  <2>10. CASE \E m \in Nonces : Updates(s, m, r)
    <3>1. PICK m \in Nonces : Updates(s, m, r)
        BY <2>10
    <3>2. m = n
        BY <2>0, <2>1, <2>3, <2>5, <3>1, SMTT(30) DEF Updates, SessionType
    <3>3. Parked(s, n) = a.config_waits[n] /\ a.config_waits[n] <= now
        BY <2>1, <2>3, <3>1, <3>2 DEF Updates, Tidy, Parked
    <3> DEFINE f == ConditionFrame(n, now)
    <3>4. r.queue = Append(a.queue, f)
        BY <3>1, <3>2 DEF Updates
    <3>5. f.nonce = n /\ f.state = now
        BY DEF ConditionFrame
    <3> HIDE DEF f
    <3>6. Len(a.queue) + 1 \in 1..Len(r.queue) /\ r.queue[Len(a.queue) + 1] = f
        BY <2>1, <3>4
    <3>7. now >= Parked(s, n) /\ now <= now
        BY <2>1, <3>3
    <3>8. QED
        BY <2>5, <3>5, <3>6, <3>7
  <2>11. CASE Completes(s, r)
    <3>1. /\ a.waits[n] > 0 /\ a.config_waits[n] = 0 /\ a.waits[n] <= now
        BY <2>1, <2>3, <2>5, <2>11 DEF Completes, Tidy
    <3>2. Parked(s, n) = a.waits[n] /\ n \in Reached(a.waits, now)
        BY <2>1, <3>1 DEF Parked, Reached
    <3>3. PICK q \in InOrder(Reached(a.waits, now)) : r.queue = a.queue \o Block(q)
        BY <2>11 DEF Completes
    <3>4. Reached(a.waits, now) \in SUBSET Nonces
        BY DEF Reached
    <3>5. PICK i \in 1..Len(q) : q[i] = n
        BY <3>2, <3>4, OrderedNonces
    <3>6. /\ Block(q) \in Seq(FrameType) /\ Len(Block(q)) = Len(q)
          /\ Block(q)[i] = ConditionFrame(n, now)
        BY <2>0, <3>4, <3>5, BlockStream
    <3>7. ConditionFrame(n, now).nonce = n /\ ConditionFrame(n, now).state = now
        BY DEF ConditionFrame
    <3>8. /\ Len(a.queue) + i \in 1..Len(r.queue)
          /\ r.queue[Len(a.queue) + i] = Block(q)[i]
      <4>1. ASSUME NEW x \in Seq(FrameType), NEW y \in Seq(FrameType), NEW j \in 1..Len(y)
            PROVE  Len(x) + j \in 1..Len(x \o y) /\ (x \o y)[Len(x) + j] = y[j]
        <5>1. Len(x) \in Nat /\ Len(y) \in Nat
            OBVIOUS
        <5>2. Len(x) + j \in 1..(Len(x) + Len(y)) /\ ~(Len(x) + j <= Len(x)) /\ Len(x) + j - Len(x) = j
            BY <5>1
        <5>3. QED
            BY <5>2, ConcatProperties
      <4>2. QED
        BY <2>1, <3>3, <3>6, <4>1
    <3>9. now >= Parked(s, n) /\ now <= now
        BY <2>1, <3>1, <3>2
    <3>10. QED
        BY <2>5, <3>6, <3>7, <3>8, <3>9
  <2>12. QED
    BY <2>8, <2>9, <2>10, <2>11 DEF Handles
<1>2. OnceInv /\ [Next]_vars => [\A s \in Sessions, n \in Nonces : InTime(s, n)]_vars
    BY <1>1
<1>3. OnceInv /\ [Next]_vars => OnceInv'
    BY OnceStep
<1>4. QED
    BY <1>2, <1>3, OnceInit, PTL DEF Spec, WaitsAnsweredInTime

\* What session a has parked is beyond version v, as far as its handler has got.
Late(waits, v) == \A n \in Nonces : waits[n] = 0 \/ waits[n] > ConditionState(v)
Awake(a, v) ==
    /\ a.phase \in {"idle", "write"} => Late(a.config_waits, v) /\ Late(a.waits, v)
    /\ a.phase = "stable_ready" => Late(a.config_waits, v)
    /\ a.phase = "config_update" =>
          \A n \in Nonces : n \notin a.ready =>
              a.config_waits[n] = 0 \/ a.config_waits[n] > ConditionState(v)

Alone(s) == \A u \in Sessions \ {s} : session[u].frames = 0

\* The inductive invariant.
AwakeInv == OnceInv /\ \A s \in Sessions : Alone(s) => Awake(session[s], version)

\* A session's own step leaves no wait parked that its change should wake.
LEMMA AwakeOwn ==
    ASSUME OnceInv, NEW s \in Sessions, NEW r \in SessionType, Moves(s, r), Awake(session[s], version)
    PROVE  Awake(r, version')
<1> DEFINE a == session[s]
           now == ConditionState(version)
<1>0. /\ a \in SessionType /\ now \in Nat /\ Tidy(a, version)
      /\ a.config_waits \in [Nonces -> 0..MaxTarget] /\ a.waits \in [Nonces -> 0..MaxTarget]
  <2>1. TypeOK /\ Tidy(a, version)
    BY DEF OnceInv, TypeInv
  <2>2. a \in SessionType /\ now \in Nat
    BY <2>1 DEF TypeOK, ConditionState
  <2>3. QED
    BY <2>1, <2>2 DEF SessionType
<1>1. CASE Closed(a, r) /\ version' = version
  <2>1. r.phase = "idle" /\ \A n \in Nonces : r.config_waits[n] = 0 /\ r.waits[n] = 0
    BY <1>1 DEF Closed, NoWaits
  <2>2. QED
    BY <2>1 DEF Awake, Late
<1>2. CASE Taken(a, r, Nonce(s)) /\ a.phase = "idle" /\ (r.phase = "write" => version' = version)
  <2>1. r.phase \in {"write", "config_ready", "update_now"}
    BY <1>2 DEF Taken
  <2>2. r.phase = "write" => r.config_waits = a.config_waits /\ r.waits = a.waits
    BY <1>2 DEF Taken
  <2>3. QED
    BY <1>2, <2>1, <2>2 DEF Awake
<1>3. CASE Handles(s, r) /\ version' = version
  <2>1. CASE Readies(s, r)
    <3>1. \A n \in Nonces : n \notin r.ready =>
              r.config_waits[n] = 0 \/ r.config_waits[n] > ConditionState(version)
        BY <1>0, <2>1 DEF Readies, Reached
    <3>2. r.phase = "config_update"
        BY <2>1 DEF Readies
    <3>3. QED
        BY <1>3, <3>1, <3>2 DEF Awake
  <2>2. ASSUME NEW n \in Nonces, Updates(s, n, r) PROVE Awake(r, version')
    <3>1. /\ r.phase = a.phase /\ r.ready = a.ready \ {n} /\ a.phase \in {"update_now", "config_update"}
          /\ r.config_waits[n] = 0 /\ \A m \in Nonces \ {n} : r.config_waits[m] = a.config_waits[m]
        BY <1>0, <2>2 DEF Updates
    <3>2. QED
        BY <1>3, <3>1 DEF Awake
  <2>3. CASE Advances(s, r)
    BY <1>3, <2>3 DEF Advances, Awake, Late
  <2>4. CASE Completes(s, r)
    <3>1. \A n \in Nonces : r.waits[n] = 0 \/ r.waits[n] > now
        BY <1>0, <2>4 DEF Completes
    <3>2. QED
        BY <1>3, <2>4, <3>1 DEF Completes, Awake, Late
  <2>5. CASE Writes(s, r)
    BY <1>3, <2>5 DEF Writes, Awake
  <2>6. QED
    BY <1>3, <2>1, <2>2, <2>3, <2>4, <2>5 DEF Handles
<1>4. QED
    BY <1>1, <1>2, <1>3 DEF Moves

\* OwnChangesWakeWaits: on a coordinator that only one connection talks to, no frame is
\* finished while a wait of that connection that has been reached is still parked, the
\* waits that the frame's own call has reached included.
THEOREM OwnChangesWake == Spec => []OwnChangesWakeWaits
<1>1. Init => AwakeInv
  <2> SUFFICES ASSUME Init PROVE AwakeInv
    OBVIOUS
  <2>1. \A s \in Sessions : /\ session[s].phase = "idle" /\ session[s].config_waits = NoWaits
                            /\ session[s].waits = NoWaits
    BY DEF Init
  <2>2. \A s \in Sessions : Awake(session[s], version)
    BY <2>1 DEF Awake, Late, NoWaits
  <2>3. QED
    BY <2>2, OnceInit DEF AwakeInv
<1>2. AwakeInv /\ [Next]_vars => AwakeInv'
  <2> SUFFICES ASSUME AwakeInv, [Next]_vars PROVE AwakeInv'
    OBVIOUS
  <2>1. OnceInv /\ OnceInv' /\ TypeInv
    BY OnceStep DEF AwakeInv, OnceInv
  <2>2. CASE UNCHANGED vars
    BY <2>1, <2>2 DEF AwakeInv, vars, Alone
  <2>3. CASE Next
    <3>1. PICK u \in Sessions, r \in SessionType : Moves(u, r)
        BY <2>1, <2>3, OneMoves
    <3>2. /\ session'[u] = r /\ \A x \in Sessions \ {u} : session'[x] = session[x]
          /\ session[u].frames \in Nat
        BY <2>1, <3>1 DEF Moves, TypeInv, TypeOK, SessionType
    <3>3. r.frames = session[u].frames + 1 \/ (r.frames = session[u].frames /\ version' = version)
        BY <3>1 DEF Moves, Closed, Taken, Handles, Kept, Nonce
    <3>4. ASSUME NEW s \in Sessions, Alone(s)' PROVE Awake(session'[s], version')
      <4>1. Alone(s)
        BY <3>2, <3>3, <3>4 DEF Alone
      <4>2. Awake(session[s], version)
        BY <4>1 DEF AwakeInv
      <4>3. CASE s = u
        BY <2>1, <3>1, <3>2, <4>2, <4>3, AwakeOwn
      <4>4. CASE s # u
        <5>1. r.frames = 0 /\ session'[s] = session[s]
            BY <3>2, <3>4, <4>4 DEF Alone
        <5>2. version' = version
            BY <3>2, <3>3, <5>1
        <5>3. QED
            BY <4>2, <5>1, <5>2
      <4>5. QED
        BY <4>3, <4>4
    <3>5. QED
        BY <2>1, <3>4 DEF AwakeInv
  <2>4. QED
    BY <2>2, <2>3
<1>3. AwakeInv => OwnChangesWakeWaits
  <2> SUFFICES ASSUME AwakeInv, NEW s \in Sessions, \A u \in Sessions \ {s} : session[u].frames = 0,
                      NEW n \in Nonces, session[s].phase = "idle"
               PROVE  Parked(s, n) = 0 \/ Parked(s, n) > ConditionState(version)
    BY DEF OwnChangesWakeWaits
  <2>1. Late(session[s].config_waits, version) /\ Late(session[s].waits, version)
    BY DEF AwakeInv, Alone, Awake
  <2>2. session[s] \in SessionType /\ ConditionState(version) \in Nat
    BY DEF AwakeInv, OnceInv, TypeInv, TypeOK, ConditionState
  <2>3. session[s].config_waits[n] \in Nat /\ session[s].waits[n] \in Nat
    BY <2>2, FrameBounds DEF SessionType
  <2>4. QED
    BY <2>1, <2>2, <2>3 DEF Late, Parked
<1>4. QED
    BY <1>1, <1>2, <1>3, PTL DEF Spec

-------------------------------------------------------------------------------
(* Identity.                                                                  *)

\* The identify frames of a stream announce the session's server id, and the bootstrap
\* frames after them repeat it.
Faithful(u, a) ==
    /\ \A i \in 1..Len(u) : u[i].type = "identify" => a.identified /\ u[i].state = a.sender_id
    /\ \A i, j \in 1..Len(u) :
          i < j /\ u[i].type = "identify" /\ u[j].type = "bootstrap" => u[j].state = a.sender_id

\* The inductive invariant.
IdentityInv == TypeInv /\ \A s \in Sessions : Faithful(Stream(s), session[s])

\* The session keeps its identity, or had announced none.
Stays(a, r) ==
    \/ ~a.identified
    \/ r.identified = a.identified /\ r.sender_id = a.sender_id

\* A stream grows by frames that carry the session's id.
LEMMA FaithfulGrows ==
    ASSUME NEW a, NEW r, NEW u \in Seq(FrameType), NEW b \in Seq(FrameType),
           Faithful(u, a), Stays(a, r),
           \A i \in 1..Len(b) : /\ b[i].type = "identify" => r.identified /\ b[i].state = r.sender_id
                                /\ b[i].type = "bootstrap" => b[i].state = r.sender_id
    PROVE  Faithful(u \o b, r)
<1> DEFINE v == u \o b
<1>1. /\ v \in Seq(FrameType) /\ Len(v) = Len(u) + Len(b) /\ Len(u) \in Nat /\ Len(b) \in Nat
      /\ \A i \in 1..Len(v) : v[i] = IF i <= Len(u) THEN u[i] ELSE b[i - Len(u)]
    BY ConcatProperties
<1> HIDE DEF v
<1>2. \A i \in 1..Len(v) : i <= Len(u) => i \in 1..Len(u) /\ v[i] = u[i]
    BY <1>1
<1>3. \A i \in 1..Len(v) : ~(i <= Len(u)) => \E k \in 1..Len(b) : v[i] = b[k]
  <2> SUFFICES ASSUME NEW i \in 1..Len(v), ~(i <= Len(u)) PROVE \E k \in 1..Len(b) : v[i] = b[k]
    OBVIOUS
  <2>1. i - Len(u) \in 1..Len(b) /\ v[i] = b[i - Len(u)]
    BY <1>1
  <2>2. QED
    BY <2>1
<1>4. \A i \in 1..Len(v) : v[i].type = "identify" => r.identified /\ v[i].state = r.sender_id
    BY <1>2, <1>3 DEF Faithful, Stays
<1>5. ASSUME NEW i \in 1..Len(v), NEW j \in 1..Len(v), i < j, v[i].type = "identify", v[j].type = "bootstrap"
      PROVE  v[j].state = r.sender_id
  <2>1. CASE j <= Len(u)
    <3>1. i <= Len(u)
        BY <1>1, <1>5, <2>1
    <3>2. QED
        BY <1>2, <1>5, <2>1, <3>1 DEF Faithful, Stays
  <2>2. CASE ~(j <= Len(u))
    BY <1>3, <1>5, <2>2
  <2>3. QED
    BY <2>1, <2>2
<1>6. QED
    BY <1>4, <1>5 DEF Faithful, v

\* A stream that is cut back, or stays, keeps the ids its frames answer.
LEMMA FaithfulStays ==
    ASSUME NEW a, NEW r, NEW u \in Seq(FrameType), NEW b \in Seq(FrameType), Stays(a, r)
    PROVE  /\ Faithful(u, a) => Faithful(u, r)
           /\ Faithful(u \o b, a) => Faithful(u, a)
<1>1. Faithful(u, a) => Faithful(u, r)
    BY DEF Faithful, Stays
<1> DEFINE v == u \o b
<1>2. \A i \in 1..Len(u) : i \in 1..Len(v) /\ v[i] = u[i]
    BY ConcatProperties
<1>3. Faithful(v, a) => Faithful(u, a)
    BY <1>2 DEF Faithful
<1>4. QED
    BY <1>1, <1>3

\* Every step keeps the ids.
LEMMA FaithfulMoves ==
    ASSUME IdentityInv, NEW s \in Sessions, NEW r \in SessionType, Moves(s, r)
    PROVE  Faithful(Stream(s)', r)
<1> DEFINE a == session[s]
           u == Stream(s)
<1>0. /\ TypeOK /\ Faithful(u, a) /\ sent[s] \in Seq(FrameType) /\ a.queue \in Seq(FrameType)
      /\ session' = [session EXCEPT ![s] = r]
    BY DEF IdentityInv, TypeInv, TypeOK, SessionType, Moves
<1>1. /\ u \in Seq(FrameType)
      /\ sent' = sent /\ r.queue = <<>> => Stream(s)' = sent[s]
      /\ sent' = sent /\ r.queue = a.queue => Stream(s)' = u
      /\ sent' = [sent EXCEPT ![s] = @ \o a.queue] /\ r.queue = <<>> => Stream(s)' = u
      /\ \A f \in FrameType : sent' = sent /\ r.queue = Append(a.queue, f) => Stream(s)' = u \o <<f>>
      /\ \A b \in Seq(FrameType) : sent' = sent /\ r.queue = a.queue \o b => Stream(s)' = u \o b
    BY <1>0, StreamSteps
<1>2. Stays(a, r)
    BY DEF Moves, Closed, Taken, Handles, Kept, Stays
<1>3. CASE Stream(s)' = u
    BY <1>0, <1>1, <1>2, <1>3, FaithfulStays
<1>4. ASSUME NEW b \in Seq(FrameType), Stream(s)' = u \o b,
             \A i \in 1..Len(b) : /\ b[i].type = "identify" => r.identified /\ b[i].state = r.sender_id
                                  /\ b[i].type = "bootstrap" => b[i].state = r.sender_id
      PROVE  Faithful(Stream(s)', r)
    BY <1>0, <1>1, <1>2, <1>4, FaithfulGrows
<1>5. ASSUME NEW f \in FrameType, sent' = sent, r.queue = Append(a.queue, f),
             f.type = "identify" => r.identified, f.type \in {"identify", "bootstrap"} => f.state = r.sender_id
      PROVE  Faithful(Stream(s)', r)
  <2> DEFINE b == <<f>>
  <2>1. /\ b \in Seq(FrameType) /\ Stream(s)' = u \o b
        /\ \A i \in 1..Len(b) : b[i] = f
    BY <1>1, <1>5, SMTT(30)
  <2> HIDE DEF b
  <2>2. QED
    BY <1>4, <1>5, <2>1
<1>6. CASE Closed(a, r) /\ sent' = sent
  <2>1. Stream(s)' = sent[s]
    BY <1>1, <1>6 DEF Closed
  <2>2. Faithful(sent[s], a)
    BY <1>0, <1>2, FaithfulStays DEF Stream
  <2>3. QED
    BY <1>0, <1>2, <2>1, <2>2, FaithfulStays
<1>7. CASE Taken(a, r, Nonce(s)) /\ sent' = sent
  <2>1. r.queue = a.queue \/ Queues(a, r, Nonce(s))
    BY <1>7 DEF Taken
  <2>2. CASE r.queue = a.queue
    BY <1>1, <1>3, <1>7, <2>2
  <2>3. CASE Queues(a, r, Nonce(s))
    BY <1>5, <1>7, <2>3 DEF Queues
  <2>4. QED
    BY <2>1, <2>2, <2>3
<1>8. CASE Handles(s, r)
  <2>1. CASE Readies(s, r) \/ Advances(s, r) \/ Writes(s, r)
    BY <1>1, <1>3, <2>1 DEF Readies, Advances, Writes
  <2>2. ASSUME NEW n \in Nonces, Updates(s, n, r) PROVE Faithful(Stream(s)', r)
    <3> DEFINE f == ConditionFrame(n, ConditionState(version))
    <3>1. f \in FrameType /\ f.type = "condition"
        BY <1>0, FrameTypes DEF ConditionFrame, ConditionState, TypeOK
    <3>2. sent' = sent /\ r.queue = Append(a.queue, f)
        BY <2>2 DEF Updates
    <3> HIDE DEF f
    <3>3. QED
        BY <1>5, <3>1, <3>2
  <2>3. CASE Completes(s, r)
    <3>1. PICK q \in InOrder(Reached(a.waits, ConditionState(version))) : r.queue = a.queue \o Block(q)
        BY <2>3 DEF Completes
    <3>2. Reached(a.waits, ConditionState(version)) \in SUBSET Nonces
        BY DEF Reached
    <3>3. /\ Block(q) \in Seq(FrameType) /\ Len(Block(q)) = Len(q)
          /\ \A i \in 1..Len(q) : Block(q)[i] = ConditionFrame(q[i], ConditionState(version))
        BY <1>0, <3>2, BlockStream
    <3>4. \A n, state : ConditionFrame(n, state).type = "condition"
        BY DEF ConditionFrame
    <3>5. \A i \in 1..Len(Block(q)) : Block(q)[i].type = "condition"
        BY <3>3, <3>4
    <3>6. Stream(s)' = u \o Block(q)
        BY <1>1, <2>3, <3>1, <3>3 DEF Completes
    <3>7. QED
        BY <1>4, <3>3, <3>5, <3>6
  <2>4. QED
    BY <1>8, <2>1, <2>2, <2>3 DEF Handles
<1>9. QED
    BY <1>6, <1>7, <1>8 DEF Moves

\* BootstrapMatchesIdentify: whatever ids a peer claims in its identify frames, and however
\* often, a bootstrap reply repeats the server id of the identify reply written before it.
THEOREM BootstrapsMatch == Spec => []BootstrapMatchesIdentify
<1>1. Init => IdentityInv
  <2> SUFFICES ASSUME Init PROVE IdentityInv
    OBVIOUS
  <2>1. \A s \in Sessions : Stream(s) = <<>>
    BY DEF Init, Stream
  <2>2. QED
    BY <2>1, TypeInit DEF IdentityInv, Faithful
<1>2. IdentityInv /\ [Next]_vars => IdentityInv'
  <2> SUFFICES ASSUME IdentityInv, [Next]_vars PROVE IdentityInv'
    OBVIOUS
  <2>1. TypeInv /\ TypeInv'
    BY TypeStep DEF IdentityInv
  <2>2. CASE UNCHANGED vars
    BY <2>1, <2>2 DEF IdentityInv, vars, Stream
  <2>3. CASE Next
    <3>1. PICK s \in Sessions, r \in SessionType : Moves(s, r)
        BY <2>1, <2>3, OneMoves
    <3>2. Faithful(Stream(s)', session'[s])
        BY <3>1, FaithfulMoves DEF Moves
    <3>3. \A u \in Sessions \ {s} : Faithful(Stream(u)', session'[u])
        BY <3>1 DEF Moves, IdentityInv, Stream
    <3>4. QED
        BY <2>1, <3>2, <3>3 DEF IdentityInv
  <2>4. QED
    BY <2>2, <2>3
<1>3. IdentityInv => BootstrapMatchesIdentify
  <2> SUFFICES ASSUME IdentityInv, NEW s \in Sessions, NEW i \in 1..Len(sent[s]), NEW j \in 1..Len(sent[s]),
                      i < j, sent[s][i].type = "identify", sent[s][j].type = "bootstrap"
               PROVE  sent[s][i].state = sent[s][j].state
    BY DEF BootstrapMatchesIdentify
  <2>1. /\ sent[s] \in Seq(FrameType) /\ session[s].queue \in Seq(FrameType)
        /\ Faithful(sent[s] \o session[s].queue, session[s])
    BY DEF IdentityInv, TypeInv, TypeOK, SessionType, Stream
  <2>2. Faithful(sent[s], session[s])
    BY <2>1, FaithfulStays DEF Stays
  <2>3. QED
    BY <2>2 DEF Faithful
<1>4. QED
    BY <1>1, <1>2, <1>3, PTL DEF Spec
===============================================================================
