------------------------------ MODULE AdminSession ------------------------------
(* The coordinator's legacy admin connections: handle_coordinator_admin_frame *)
(* and the CoordinatorAdminSession it keeps per connection.                   *)
(*                                                                            *)
(* A frame is handled in several steps because the handler reads the shared   *)
(* configuration version anew in each of them, while other connections change *)
(* it.  Answers are queued, and written once the whole frame is handled.      *)
(* A frame's nonce is its number in the session: clients never reuse one.     *)
(* The steps inside a configuration change and inside config_view are the     *)
(* subject of ConfigSync; here they are one step each.                        *)
EXTENDS Naturals, Sequences, FiniteSets

CONSTANTS Sessions,    \* admin connections
          PeerIds,     \* ids a peer may claim in an identify frame; 0 is anonymous
          ServerId,    \* LEGACY_COORDINATOR_SERVER_ID
          MaxFrames,   \* bound on frames received over all connections, the last ones included
          MaxTarget,   \* bound on the states a client waits for
          MaxErrors    \* bound on config_view calls that fail

ASSUME PeerIdsAssumption == PeerIds \subseteq Nat /\ 0 \in PeerIds /\ ServerId \in Nat
ASSUME FrameBounds == MaxFrames \in Nat /\ MaxTarget \in Nat \ {0} /\ MaxErrors \in Nat

VARIABLES version,   \* the coordinator's version, and stable_through with it
          exists,    \* does the one space the calls are about exist
          session,   \* connection -> its session and handler
          sent,      \* connection -> the frames its client has received
          received,  \* frames and ends of streams so far, over all connections
          errors

vars == <<version, exists, session, sent, received, errors>>

Nonces == 1..MaxFrames
States == 1..MaxTarget
Phases == {"idle", "update_now", "config_ready", "config_update", "stable_ready", "write"}
NoWaits == [n \in Nonces |-> 0]

\* legacy_condition_state: client-visible states start at 1.
ConditionState(v) == v + 1
\* The states of replicant/configuration and replicant/tick never change.
FixedState == ConditionState(0)

Init ==
    /\ version = 0
    /\ exists = FALSE
    /\ session = [s \in Sessions |->
           [open |-> TRUE, phase |-> "idle", frames |-> 0, next_robust_nonce |-> 1,
            sender_id |-> ServerId, identified |-> FALSE, peer_local_id |-> 0,
            config_waits |-> NoWaits, waits |-> NoWaits, ready |-> {}, queue |-> <<>>]]
    /\ sent = [s \in Sessions |-> <<>>]
    /\ received = 0
    /\ errors = 0

\* The frames of the protocol, as far as a client tells them apart.
IdentifyFrame(id) == [type |-> "identify", nonce |-> 0, state |-> id]
BootstrapFrame(id) == [type |-> "bootstrap", nonce |-> 0, state |-> id]
RobustFrame(nonce, command) == [type |-> "robust", nonce |-> nonce, state |-> command]
ConditionFrame(nonce, state) == [type |-> "condition", nonce |-> nonce, state |-> state]
NotFoundFrame(nonce, state) == [type |-> "not_found", nonce |-> nonce, state |-> state]
CallFrame(nonce) == [type |-> "call", nonce |-> nonce, state |-> 0]

\* The connection is closed; what was queued and what waits is gone.
Close(s) ==
    session' = [session EXCEPT ![s].open = FALSE, ![s].phase = "idle",
                               ![s].config_waits = NoWaits, ![s].waits = NoWaits,
                               ![s].ready = {}, ![s].queue = <<>>]

Receives(s) ==
    /\ session[s].open /\ session[s].phase = "idle"
    /\ received < MaxFrames
    /\ received' = received + 1
    /\ UNCHANGED <<sent, errors>>

\* The stream ends, or a frame cannot be decoded.
Disconnect(s) ==
    /\ Receives(s)
    /\ Close(s)
    /\ UNCHANGED <<version, exists>>

\* The nonce of the frame being received.
Nonce(s) == session[s].frames + 1

-------------------------------------------------------------------------------
(* Identify and bootstrap return before the waits are looked at.              *)

\* observe_identify: the first one names the peer, later ones must repeat it.
Consistent(s, local, remote) ==
    /\ remote \in {0, session[s].sender_id}
    /\ 0 \in {local, session[s].peer_local_id} \/ local = session[s].peer_local_id

\* Mutant: the two ids of the first identify frame are stored the wrong way round.
IdentifySwapped(s, local, remote) ==
    /\ Receives(s)
    /\ LET id == IF remote # 0 THEN remote ELSE session[s].sender_id
       IN  session' = [session EXCEPT
               ![s].frames = @ + 1, ![s].phase = "write", ![s].identified = TRUE,
               ![s].sender_id = local, ![s].peer_local_id = id,
               ![s].queue = Append(@, IdentifyFrame(id))]
    /\ UNCHANGED <<version, exists>>

Identify(s, local, remote) ==
    /\ Receives(s)
    /\ LET id == IF remote # 0 THEN remote ELSE session[s].sender_id
       IN  \/ /\ ~session[s].identified
              /\ session' = [session EXCEPT
                     ![s].frames = @ + 1, ![s].phase = "write", ![s].identified = TRUE,
                     ![s].sender_id = id, ![s].peer_local_id = local,
                     ![s].queue = Append(@, IdentifyFrame(id))]
           \/ /\ session[s].identified /\ Consistent(s, local, remote)
              /\ session' = [session EXCEPT ![s].frames = @ + 1, ![s].phase = "write"]
           \/ /\ session[s].identified /\ ~Consistent(s, local, remote)
              /\ Close(s)
    /\ UNCHANGED <<version, exists>>

\* Mutant: the reply carries the built-in server id whatever the session agreed on.
BootstrapBuiltinId(s) ==
    /\ Receives(s)
    /\ session' = [session EXCEPT ![s].frames = @ + 1, ![s].phase = "write",
                       ![s].queue = Append(@, BootstrapFrame(ServerId))]
    /\ UNCHANGED <<version, exists>>

Bootstrap(s) ==
    /\ Receives(s)
    /\ session' = [session EXCEPT ![s].frames = @ + 1, ![s].phase = "write",
                       ![s].queue = Append(@, BootstrapFrame(session[s].sender_id))]
    /\ UNCHANGED <<version, exists>>

-------------------------------------------------------------------------------
(* The other requests.                                                        *)

GetRobustParams(s) ==
    /\ Receives(s)
    /\ session' = [session EXCEPT
           ![s].frames = @ + 1, ![s].phase = "config_ready",
           ![s].next_robust_nonce = @ + 1,
           ![s].queue = Append(@, RobustFrame(Nonce(s), session[s].next_robust_nonce))]
    /\ UNCHANGED <<version, exists>>

\* CondWait on hyperdex/config: answered with a fresh config_view, or parked.
WaitConfig(s, state) ==
    /\ Receives(s)
    /\ session' =
           IF state <= ConditionState(version)
           THEN [session EXCEPT ![s].frames = @ + 1, ![s].phase = "update_now",
                                ![s].ready = {Nonce(s)}]
           ELSE [session EXCEPT ![s].frames = @ + 1, ![s].phase = "config_ready",
                                ![s].config_waits[Nonce(s)] = state]
    /\ UNCHANGED <<version, exists>>

\* CondWait on hyperdex/stable.
WaitStable(s, state) ==
    /\ Receives(s)
    /\ LET now == ConditionState(version)
       IN  session' =
               IF state <= now
               THEN [session EXCEPT ![s].frames = @ + 1, ![s].phase = "config_ready",
                                    ![s].queue = Append(@, ConditionFrame(Nonce(s), now))]
               ELSE [session EXCEPT ![s].frames = @ + 1, ![s].phase = "config_ready",
                                    ![s].waits[Nonce(s)] = state]
    /\ UNCHANGED <<version, exists>>

\* CondWait on replicant/configuration or replicant/tick: a state beyond the
\* fixed one is neither answered nor parked.
WaitFixed(s, state) ==
    /\ Receives(s)
    /\ session' = [session EXCEPT
           ![s].frames = @ + 1, ![s].phase = "config_ready",
           ![s].queue = IF state <= FixedState
                        THEN Append(@, ConditionFrame(Nonce(s), FixedState)) ELSE @]
    /\ UNCHANGED <<version, exists>>

WaitUnknown(s, state) ==
    /\ Receives(s)
    /\ session' = [session EXCEPT ![s].frames = @ + 1, ![s].phase = "config_ready",
                       ![s].queue = Append(@, NotFoundFrame(Nonce(s), state))]
    /\ UNCHANGED <<version, exists>>

\* Call and CallRobust: space_add and space_rm change the configuration unless
\* the space is there already, or is not; an unknown function changes nothing.
Call(s, function) ==
    /\ Receives(s)
    /\ LET changes == \/ function = "space_add" /\ ~exists
                      \/ function = "space_rm" /\ exists
       IN  /\ version' = IF changes THEN version + 1 ELSE version
           /\ exists' = IF changes THEN ~exists ELSE exists
    /\ session' = [session EXCEPT ![s].frames = @ + 1, ![s].phase = "config_ready",
                                  ![s].queue = Append(@, CallFrame(Nonce(s)))]

-------------------------------------------------------------------------------
(* After every such request: queue_ready_config_waits, queue_ready_waits.     *)

\* Mutants: a wait is ready one state too early, or one too late.
ReachedEarly(waits, state) == {n \in Nonces : waits[n] > 0 /\ waits[n] <= state + 1}
ReachedLate(waits, state) == {n \in Nonces : waits[n] > 0 /\ waits[n] < state}

Reached(waits, state) == {n \in Nonces : waits[n] > 0 /\ waits[n] <= state}

\* The parked config waits the current version has reached ...
ConfigReady(s) ==
    /\ session[s].phase = "config_ready"
    /\ session' = [session EXCEPT ![s].phase = "config_update",
           ![s].ready = Reached(session[s].config_waits, ConditionState(version))]
    /\ UNCHANGED <<version, exists, sent, received, errors>>

\* Mutant: an answered wait stays parked.
ConfigUpdateKeeps(s, n) ==
    /\ session[s].phase \in {"update_now", "config_update"}
    /\ n \in session[s].ready /\ \A m \in session[s].ready : n <= m
    /\ session' = [session EXCEPT
           ![s].ready = @ \ {n},
           ![s].queue = Append(@, ConditionFrame(n, ConditionState(version)))]
    /\ UNCHANGED <<version, exists, sent, received, errors>>

\* ... are answered in nonce order, each with a config_view of its own.
ConfigUpdate(s, n) ==
    /\ session[s].phase \in {"update_now", "config_update"}
    /\ n \in session[s].ready /\ \A m \in session[s].ready : n <= m
    /\ session' = [session EXCEPT
           ![s].config_waits[n] = 0, ![s].ready = @ \ {n},
           ![s].queue = Append(@, ConditionFrame(n, ConditionState(version)))]
    /\ UNCHANGED <<version, exists, sent, received, errors>>

ConfigUpdated(s) ==
    /\ session[s].ready = {}
    /\ \/ /\ session[s].phase = "update_now"
          /\ session' = [session EXCEPT ![s].phase = "config_ready"]
       \/ /\ session[s].phase = "config_update"
          /\ session' = [session EXCEPT ![s].phase = "stable_ready"]
    /\ UNCHANGED <<version, exists, sent, received, errors>>

\* The members of S in the order of the waits' BTreeMap.
InOrder(S) ==
    {q \in [1..Cardinality(S) -> S] :
        /\ \A i, j \in 1..Cardinality(S) : i < j => q[i] < q[j]
        /\ \A n \in S : \E i \in 1..Cardinality(S) : q[i] = n}

StableReady(s) ==
    /\ session[s].phase = "stable_ready"
    /\ LET now == ConditionState(version)
       IN  \E nonces \in InOrder(Reached(session[s].waits, now)) :
              session' = [session EXCEPT ![s].phase = "write",
                  ![s].waits = [n \in Nonces |-> IF @[n] <= now THEN 0 ELSE @[n]],
                  ![s].queue = @ \o [i \in 1..Len(nonces) |-> ConditionFrame(nonces[i], now)]]
    /\ UNCHANGED <<version, exists, sent, received, errors>>

\* A space dropped under config_view's feet makes it fail, and that ends the
\* connection before anything queued for this frame is written.
ViewFails(s) ==
    /\ session[s].phase \in {"config_ready", "config_update", "update_now"}
    /\ session[s].phase = "config_ready" \/ session[s].ready # {}
    /\ errors < MaxErrors
    /\ errors' = errors + 1
    /\ Close(s)
    /\ UNCHANGED <<version, exists, sent, received>>

\* take_pending_frames, and the write to the stream.
WriteFrames(s) ==
    /\ session[s].phase = "write"
    /\ sent' = [sent EXCEPT ![s] = @ \o session[s].queue]
    /\ session' = [session EXCEPT ![s].phase = "idle", ![s].queue = <<>>]
    /\ UNCHANGED <<version, exists, received, errors>>

-------------------------------------------------------------------------------
Receive(s) ==
    \/ \E local, remote \in PeerIds : Identify(s, local, remote)
    \/ Disconnect(s) \/ Bootstrap(s) \/ GetRobustParams(s)
    \/ \E state \in States :
          \/ WaitConfig(s, state) \/ WaitStable(s, state)
          \/ WaitFixed(s, state) \/ WaitUnknown(s, state)
    \/ \E function \in {"space_add", "space_rm", "unknown"} : Call(s, function)

Handle(s) ==
    \/ ConfigReady(s) \/ ConfigUpdated(s) \/ StableReady(s) \/ WriteFrames(s)
    \/ \E n \in Nonces : ConfigUpdate(s, n)

Next == \E s \in Sessions : Receive(s) \/ Handle(s) \/ ViewFails(s)

Spec == Init /\ [][Next]_vars

-------------------------------------------------------------------------------
FrameType == [type : {"identify", "bootstrap", "robust", "condition", "not_found", "call"},
              nonce : 0..MaxFrames, state : Nat]

SessionType ==
    [open : BOOLEAN, phase : Phases, frames : 0..MaxFrames, next_robust_nonce : Nat,
     sender_id : Nat, identified : BOOLEAN, peer_local_id : PeerIds,
     config_waits : [Nonces -> 0..MaxTarget], waits : [Nonces -> 0..MaxTarget],
     ready : SUBSET Nonces, queue : Seq(FrameType)]

TypeOK ==
    /\ version \in Nat
    /\ exists \in BOOLEAN
    /\ received \in 0..MaxFrames
    /\ errors \in 0..MaxErrors
    /\ sent \in [Sessions -> Seq(FrameType)]
    /\ session \in [Sessions -> SessionType]

Parked(s, n) == session[s].config_waits[n] + session[s].waits[n]

Answers(s, n) == {i \in 1..Len(sent[s]) : sent[s][i].nonce = n}

\* Every request is answered at most once, and a wait that has been answered is
\* no longer parked, though it may be parked, found ready and answered in three
\* different readings of the version.
AnsweredOnce ==
    \A s \in Sessions, n \in Nonces :
        /\ Cardinality(Answers(s, n)) <= 1
        /\ Answers(s, n) # {} => Parked(s, n) = 0

\* A parked wait is answered with a state it asked for: never an older one, and
\* never one the coordinator has not reached.
WaitsAnsweredInTime ==
    [][\A s \in Sessions, n \in Nonces :
          /\ Parked(s, n) > 0 /\ Parked(s, n)' = 0 /\ session'[s].open
          => \E i \in 1..Len(session'[s].queue) :
                /\ session'[s].queue[i].nonce = n
                /\ session'[s].queue[i].state >= Parked(s, n)
                /\ session'[s].queue[i].state <= ConditionState(version)]_vars

\* A bootstrap reply carries the server id that the identify reply of the same
\* connection announced: the client drops any other.
BootstrapMatchesIdentify ==
    \A s \in Sessions : \A i, j \in 1..Len(sent[s]) :
        /\ i < j /\ sent[s][i].type = "identify" /\ sent[s][j].type = "bootstrap"
        => sent[s][i].state = sent[s][j].state

\* As long as the other connections are silent, a frame never leaves a wait parked
\* whose state has been reached: the calls of a connection wake its own waits.
OwnChangesWakeWaits ==
    \A s \in Sessions : (\A u \in Sessions \ {s} : session[u].frames = 0)
        => \A n \in Nonces : session[s].phase = "idle"
              => Parked(s, n) = 0 \/ Parked(s, n) > ConditionState(version)
===============================================================================
