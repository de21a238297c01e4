------------------------------ MODULE ConfigSync ------------------------------
(* How the coordinator's configuration reaches the daemons.                   *)
(*                                                                            *)
(* The coordinator and every daemon run the same ClusterRuntime; each keeps a *)
(* catalog, a storage engine, a cluster_config and a coordinator_state, every *)
(* one behind a lock of its own.  A task (an admin connection, a daemon's     *)
(* 50 ms sync loop, a legacy request that asked for a refresh) takes one lock *)
(* per step, so the steps of two tasks interleave between any two locks.      *)
EXTENDS Integers

CONSTANTS Coordinator,   \* the coordinator's runtime
          Daemons,       \* the daemons; a daemon's name is also its loop task
          Admins,        \* admin connections of the coordinator
          Requests,      \* legacy requests that may refresh a daemon's view
          DaemonOf,      \* the daemon that serves each request
          Spaces,        \* space names
          Defs, NoDef,   \* space definitions, and the absence of one
          Addrs, NoAddr, \* daemon addresses, and the absence of one
          MaxVersion,    \* bound: no admin operation starts from this version on
          MaxFaults      \* bound on lost replies and daemon restarts

ASSUME TasksDisjoint ==
    /\ Coordinator \notin Daemons \cup Admins \cup Requests
    /\ Daemons \cap Admins = {} /\ Daemons \cap Requests = {}
    /\ Admins \cap Requests = {}
ASSUME DaemonOfType == DaemonOf \in [Requests -> Daemons]
ASSUME AbsentValues == NoDef \notin Defs /\ NoAddr \notin Addrs
ASSUME BoundsAreNat == MaxVersion \in Nat /\ MaxFaults \in Nat

VARIABLES
    catalog,            \* runtime -> the catalog's spaces
    tables,             \* runtime -> the storage engine's spaces
    daemons,            \* runtime -> the catalog's nodes
    cluster,            \* runtime -> cluster_config.nodes
    coordinator_state,  \* runtime -> version and stable_through
    pc,                 \* task -> its next step
    space, def,         \* task -> arguments of the create_space or drop_space it runs
    todo,               \* task -> names its current loop has not visited yet
    view,               \* task -> the ConfigView it reads or applies
    changed,            \* daemon -> register_daemon's catalog_changed
    addr,               \* daemon -> the address its process was started with
    faults,             \* lost replies and restarts so far
    dropped             \* history: spaces the coordinator's catalog ever lost

runtimes == <<catalog, tables, daemons, cluster, coordinator_state>>
locals == <<space, def, todo, view, changed, addr>>
vars == <<runtimes, pc, locals, faults, dropped>>

Syncers == Daemons \cup Requests
Tasks == Syncers \cup Admins
Runtimes == Daemons \cup {Coordinator}
NodeMap == [Daemons -> Addrs \cup {NoAddr}]
SpaceMap == [Spaces -> Defs \cup {NoDef}]
CoordinatorState == [version : Nat, stable_through : Nat]
ConfigView == [version : Nat, stable_through : Nat, nodes : NodeMap, spaces : SpaceMap]
TableStates == {"none", "empty", "data"}

NoNodes == [d \in Daemons |-> NoAddr]
NoSpaces == [s \in Spaces |-> NoDef]
NoTables == [s \in Spaces |-> "none"]
InitialState == [version |-> 0, stable_through |-> 0]
NoView == [version |-> 0, stable_through |-> 0, nodes |-> NoNodes, spaces |-> NoSpaces]

\* The steps, by the procedure they belong to.
RegisterSteps == {"boot", "register_cluster", "register_record", "start"}
CreateSteps == {"create_storage", "create_catalog", "create_record"}
DropSteps == {"drop_check", "drop_catalog", "drop_storage", "drop_record"}
ViewSteps == {"view_cluster", "view_list", "view_space"}
ApplySteps == {"apply_daemons", "apply_cluster", "apply_list", "apply_drop", "apply_add"}
Steps == {"idle"} \cup RegisterSteps \cup CreateSteps \cup DropSteps
                  \cup ViewSteps \cup ApplySteps

\* The runtime whose spaces a task changes.
RuntimeOf(t) == IF t \in Daemons THEN t
                ELSE IF t \in Requests THEN DaemonOf[t] ELSE Coordinator

\* A daemon whose process is up and has built its runtime.
Started(d) == pc[d] \notin RegisterSteps

Goto(t, step) == pc' = [pc EXCEPT ![t] = step]

Init ==
    /\ catalog = [r \in Runtimes |-> NoSpaces]
    /\ tables = [r \in Runtimes |-> NoTables]
    /\ daemons = [r \in Runtimes |-> NoNodes]
    /\ cluster = [r \in Runtimes |-> NoNodes]
    /\ coordinator_state = [r \in Runtimes |-> InitialState]
    /\ pc = [t \in Tasks |-> IF t \in Daemons THEN "boot" ELSE "idle"]
    /\ space \in [Tasks -> Spaces]
    /\ \A t, u \in Tasks : space[t] = space[u]
    /\ def = [t \in Tasks |-> NoDef]
    /\ todo = [t \in Tasks |-> {}]
    /\ view = [t \in Tasks |-> NoView]
    /\ changed = [d \in Daemons |-> FALSE]
    /\ addr = [d \in Daemons |-> NoAddr]
    /\ faults = 0
    /\ dropped = {}

-------------------------------------------------------------------------------
(* create_space and drop_space: an admin runs them on the coordinator, a      *)
(* sync on its daemon.                                                        *)

\* An admin connection asks for space_add.
SpaceAdd(t, s, d) ==
    /\ t \in Admins /\ pc[t] = "idle"
    /\ coordinator_state[Coordinator].version < MaxVersion
    /\ space' = [space EXCEPT ![t] = s]
    /\ def' = [def EXCEPT ![t] = d]
    /\ Goto(t, "create_storage")
    /\ UNCHANGED <<runtimes, todo, view, changed, addr, faults, dropped>>

\* An admin connection asks for space_rm.
SpaceRm(t, s) ==
    /\ t \in Admins /\ pc[t] = "idle"
    /\ coordinator_state[Coordinator].version < MaxVersion
    /\ space' = [space EXCEPT ![t] = s]
    /\ def' = [def EXCEPT ![t] = NoDef]
    /\ Goto(t, "drop_check")
    /\ UNCHANGED <<runtimes, todo, view, changed, addr, faults, dropped>>

\* storage.create_space keeps a table that is already there.
CreateStorage(t) ==
    /\ pc[t] = "create_storage"
    /\ tables' = [tables EXCEPT ![RuntimeOf(t)][space[t]] =
                      IF @ = "none" THEN "empty" ELSE @]
    /\ Goto(t, "create_catalog")
    /\ UNCHANGED <<catalog, daemons, cluster, coordinator_state, locals, faults, dropped>>

\* catalog.create_space; an existing name is an error, which ends an admin's
\* request with Duplicate and a sync before its last assignment.
CreateCatalog(t) ==
    /\ pc[t] = "create_catalog"
    /\ \/ /\ catalog[RuntimeOf(t)][space[t]] = NoDef
          /\ catalog' = [catalog EXCEPT ![RuntimeOf(t)][space[t]] = def[t]]
          /\ Goto(t, "create_record")
       \/ /\ catalog[RuntimeOf(t)][space[t]] # NoDef
          /\ Goto(t, "idle")
          /\ UNCHANGED catalog
    /\ UNCHANGED <<tables, daemons, cluster, coordinator_state, locals, faults, dropped>>

\* drop_space answers NotFound before it changes anything.
DropCheck(t) ==
    /\ pc[t] = "drop_check"
    /\ Goto(t, IF catalog[RuntimeOf(t)][space[t]] = NoDef THEN "idle" ELSE "drop_catalog")
    /\ UNCHANGED <<runtimes, locals, faults, dropped>>

DropCatalog(t) ==
    /\ pc[t] = "drop_catalog"
    /\ catalog' = [catalog EXCEPT ![RuntimeOf(t)][space[t]] = NoDef]
    /\ dropped' = IF t \in Admins THEN dropped \cup {space[t]} ELSE dropped
    /\ Goto(t, "drop_storage")
    /\ UNCHANGED <<tables, daemons, cluster, coordinator_state, locals, faults>>

DropStorage(t) ==
    /\ pc[t] = "drop_storage"
    /\ tables' = [tables EXCEPT ![RuntimeOf(t)][space[t]] = "none"]
    /\ Goto(t, "drop_record")
    /\ UNCHANGED <<catalog, daemons, cluster, coordinator_state, locals, faults, dropped>>

\* Where a task goes on once its change is recorded: a sync that redefines a
\* space creates it after dropping it.
AfterRecord(t) ==
    IF pc[t] = "register_record" THEN "start"
    ELSE IF t \in Admins THEN "idle"
    ELSE IF pc[t] = "create_record" THEN "apply_add"
    ELSE IF def[t] = NoDef THEN "apply_drop" ELSE "create_storage"

\* Mutant: a change is recorded by counting down.
RecordDownwards(t) ==
    /\ pc[t] \in {"create_record", "drop_record", "register_record"}
    /\ LET r == IF pc[t] = "register_record" THEN Coordinator ELSE RuntimeOf(t)
           v == coordinator_state[r].version - 1
       IN  coordinator_state' =
               [coordinator_state EXCEPT ![r] = [version |-> v, stable_through |-> v]]
    /\ Goto(t, AfterRecord(t))
    /\ UNCHANGED <<catalog, tables, daemons, cluster, locals, faults, dropped>>

\* record_config_change, the last step of create_space, drop_space and
\* register_daemon.
RecordConfigChange(t) ==
    /\ pc[t] \in {"create_record", "drop_record", "register_record"}
    /\ LET r == IF pc[t] = "register_record" THEN Coordinator ELSE RuntimeOf(t)
           v == coordinator_state[r].version + 1
       IN  coordinator_state' =
               [coordinator_state EXCEPT ![r] = [version |-> v, stable_through |-> v]]
    /\ Goto(t, AfterRecord(t))
    /\ UNCHANGED <<catalog, tables, daemons, cluster, locals, faults, dropped>>

-------------------------------------------------------------------------------
(* A daemon process: registration, then its runtime.                          *)

\* daemon_register, first half: the coordinator's catalog.
RegisterCatalog(d, a) ==
    /\ d \in Daemons /\ pc[d] = "boot"
    /\ addr' = [addr EXCEPT ![d] = a]
    /\ changed' = [changed EXCEPT ![d] = daemons[Coordinator][d] # a]
    /\ daemons' = [daemons EXCEPT ![Coordinator][d] = a]
    /\ Goto(d, "register_cluster")
    /\ UNCHANGED <<catalog, tables, cluster, coordinator_state, space, def, todo, view,
                   faults, dropped>>

\* Second half: upsert_cluster_node; nothing is recorded when neither half
\* changed anything.
RegisterCluster(d) ==
    /\ d \in Daemons /\ pc[d] = "register_cluster"
    /\ cluster' = [cluster EXCEPT ![Coordinator][d] = addr[d]]
    /\ Goto(d, IF changed[d] \/ cluster[Coordinator][d] # addr[d]
               THEN "register_record" ELSE "start")
    /\ UNCHANGED <<catalog, tables, daemons, coordinator_state, locals, faults, dropped>>

\* The runtime a registered daemon builds knows itself and no space.
StartRuntime(d) ==
    /\ d \in Daemons /\ pc[d] = "start"
    /\ daemons' = [daemons EXCEPT ![d] = [NoNodes EXCEPT ![d] = addr[d]]]
    /\ cluster' = [cluster EXCEPT ![d] = [NoNodes EXCEPT ![d] = addr[d]]]
    /\ Goto(d, "idle")
    /\ UNCHANGED <<catalog, tables, coordinator_state, locals, faults, dropped>>

\* The process dies, with everything the memory engine holds and every task
\* it runs, and is started again.
Restart(d) ==
    /\ d \in Daemons /\ Started(d)
    /\ faults < MaxFaults
    /\ faults' = faults + 1
    /\ catalog' = [catalog EXCEPT ![d] = NoSpaces]
    /\ tables' = [tables EXCEPT ![d] = NoTables]
    /\ daemons' = [daemons EXCEPT ![d] = NoNodes]
    /\ cluster' = [cluster EXCEPT ![d] = NoNodes]
    /\ coordinator_state' = [coordinator_state EXCEPT ![d] = InitialState]
    /\ pc' = [t \in Tasks |-> IF t = d THEN "boot"
                              ELSE IF t \in Requests /\ DaemonOf[t] = d THEN "idle"
                              ELSE pc[t]]
    /\ UNCHANGED <<locals, dropped>>

\* A client's write gives a table of a serving daemon something to lose.
ClientWrite(d, s) ==
    /\ d \in Daemons /\ Started(d)
    /\ catalog[d][s] # NoDef /\ tables[d][s] # "none"
    /\ tables' = [tables EXCEPT ![d][s] = "data"]
    /\ UNCHANGED <<catalog, daemons, cluster, coordinator_state, pc, locals, faults, dropped>>

-------------------------------------------------------------------------------
(* config_view: the coordinator answers config_get one lock at a time.        *)

\* The loop fetches on every tick.  A legacy request fetches when its daemon
\* has no space at all.
ViewState(t) ==
    /\ t \in Syncers /\ pc[t] = "idle"
    /\ t \in Requests => Started(DaemonOf[t]) /\ catalog[DaemonOf[t]] = NoSpaces
    /\ view' = [view EXCEPT ![t] =
                   [version |-> coordinator_state[Coordinator].version,
                    stable_through |-> coordinator_state[Coordinator].stable_through,
                    nodes |-> NoNodes, spaces |-> NoSpaces]]
    /\ Goto(t, "view_cluster")
    /\ UNCHANGED <<runtimes, space, def, todo, changed, addr, faults, dropped>>

ViewCluster(t) ==
    /\ pc[t] = "view_cluster"
    /\ view' = [view EXCEPT ![t].nodes = cluster[Coordinator]]
    /\ Goto(t, "view_list")
    /\ UNCHANGED <<runtimes, space, def, todo, changed, addr, faults, dropped>>

ViewList(t) ==
    /\ pc[t] = "view_list"
    /\ todo' = [todo EXCEPT ![t] = {s \in Spaces : catalog[Coordinator][s] # NoDef}]
    /\ Goto(t, "view_space")
    /\ UNCHANGED <<runtimes, space, def, view, changed, addr, faults, dropped>>

\* get_space of one listed name; a name that vanished meanwhile fails config_get.
ViewSpace(t, s) ==
    /\ pc[t] = "view_space" /\ s \in todo[t]
    /\ \/ /\ catalog[Coordinator][s] # NoDef
          /\ view' = [view EXCEPT ![t].spaces[s] = catalog[Coordinator][s]]
          /\ todo' = [todo EXCEPT ![t] = @ \ {s}]
          /\ UNCHANGED pc
       \/ /\ catalog[Coordinator][s] = NoDef
          /\ Goto(t, "idle")
          /\ UNCHANGED <<view, todo>>
    /\ UNCHANGED <<runtimes, space, def, changed, addr, faults, dropped>>

\* Mutant: config_view reads the version last instead of first.
DeliverRelabelled(t) ==
    /\ pc[t] = "view_space" /\ todo[t] = {}
    /\ view' = [view EXCEPT ![t].version = coordinator_state[Coordinator].version]
    /\ Goto(t, "apply_daemons")
    /\ UNCHANGED <<runtimes, space, def, todo, changed, addr, faults, dropped>>

\* The complete view reaches the daemon ...
DeliverView(t) ==
    /\ pc[t] = "view_space" /\ todo[t] = {}
    /\ Goto(t, "apply_daemons")
    /\ UNCHANGED <<runtimes, locals, faults, dropped>>

\* ... or the connection breaks and the sync only warns.
LoseReply(t) ==
    /\ pc[t] = "view_space" /\ todo[t] = {}
    /\ faults < MaxFaults
    /\ faults' = faults + 1
    /\ Goto(t, "idle")
    /\ UNCHANGED <<runtimes, locals, dropped>>

-------------------------------------------------------------------------------
(* apply_config_view, on the daemon.                                          *)

ApplyDaemons(t) ==
    /\ pc[t] = "apply_daemons"
    /\ daemons' = [daemons EXCEPT ![RuntimeOf(t)] = view[t].nodes]
    /\ Goto(t, "apply_cluster")
    /\ UNCHANGED <<catalog, tables, cluster, coordinator_state, locals, faults, dropped>>

ApplyCluster(t) ==
    /\ pc[t] = "apply_cluster"
    /\ cluster' = [cluster EXCEPT ![RuntimeOf(t)] = view[t].nodes]
    /\ Goto(t, "apply_list")
    /\ UNCHANGED <<catalog, tables, daemons, coordinator_state, locals, faults, dropped>>

\* Mutant: spaces the coordinator dropped are kept.
ApplyListKeepsAll(t) ==
    /\ pc[t] = "apply_list"
    /\ todo' = [todo EXCEPT ![t] = {}]
    /\ Goto(t, "apply_drop")
    /\ UNCHANGED <<runtimes, space, def, view, changed, addr, faults, dropped>>

\* The local spaces the view no longer has ...
ApplyList(t) ==
    /\ pc[t] = "apply_list"
    /\ todo' = [todo EXCEPT ![t] =
                   {s \in Spaces : catalog[RuntimeOf(t)][s] # NoDef
                                   /\ view[t].spaces[s] = NoDef}]
    /\ Goto(t, "apply_drop")
    /\ UNCHANGED <<runtimes, space, def, view, changed, addr, faults, dropped>>

\* ... are dropped,
ApplyDrop(t, s) ==
    /\ pc[t] = "apply_drop" /\ s \in todo[t]
    /\ todo' = [todo EXCEPT ![t] = @ \ {s}]
    /\ space' = [space EXCEPT ![t] = s]
    /\ def' = [def EXCEPT ![t] = NoDef]
    /\ Goto(t, "drop_check")
    /\ UNCHANGED <<runtimes, view, changed, addr, faults, dropped>>

ApplyDropsDone(t) ==
    /\ pc[t] = "apply_drop" /\ todo[t] = {}
    /\ todo' = [todo EXCEPT ![t] = {s \in Spaces : view[t].spaces[s] # NoDef}]
    /\ Goto(t, "apply_add")
    /\ UNCHANGED <<runtimes, space, def, view, changed, addr, faults, dropped>>

\* Mutant: an existing space is created anew without comparing definitions.
ApplyAddAlways(t, s) ==
    /\ pc[t] = "apply_add" /\ s \in todo[t]
    /\ todo' = [todo EXCEPT ![t] = @ \ {s}]
    /\ space' = [space EXCEPT ![t] = s]
    /\ def' = [def EXCEPT ![t] = view[t].spaces[s]]
    /\ Goto(t, IF catalog[RuntimeOf(t)][s] = NoDef THEN "create_storage" ELSE "drop_check")
    /\ UNCHANGED <<runtimes, view, changed, addr, faults, dropped>>

\* Mutant: an existing space is kept whatever its definition.
ApplyAddMissing(t, s) ==
    /\ pc[t] = "apply_add" /\ s \in todo[t]
    /\ todo' = [todo EXCEPT ![t] = @ \ {s}]
    /\ \/ /\ catalog[RuntimeOf(t)][s] # NoDef
          /\ UNCHANGED <<pc, space, def>>
       \/ /\ catalog[RuntimeOf(t)][s] = NoDef
          /\ space' = [space EXCEPT ![t] = s]
          /\ def' = [def EXCEPT ![t] = view[t].spaces[s]]
          /\ Goto(t, "create_storage")
    /\ UNCHANGED <<runtimes, view, changed, addr, faults, dropped>>

\* and each space of the view is kept, created, or dropped and created again.
ApplyAdd(t, s) ==
    /\ pc[t] = "apply_add" /\ s \in todo[t]
    /\ todo' = [todo EXCEPT ![t] = @ \ {s}]
    /\ LET existing == catalog[RuntimeOf(t)][s]
           wanted == view[t].spaces[s]
       IN  \/ /\ existing = wanted
              /\ UNCHANGED <<pc, space, def>>
           \/ /\ existing # wanted
              /\ space' = [space EXCEPT ![t] = s]
              /\ def' = [def EXCEPT ![t] = wanted]
              /\ Goto(t, IF existing = NoDef THEN "create_storage" ELSE "drop_check")
    /\ UNCHANGED <<runtimes, view, changed, addr, faults, dropped>>

\* The version of the view replaces whatever the changes above recorded.
ApplyState(t) ==
    /\ pc[t] = "apply_add" /\ todo[t] = {}
    /\ coordinator_state' = [coordinator_state EXCEPT ![RuntimeOf(t)] =
           [version |-> view[t].version, stable_through |-> view[t].stable_through]]
    /\ Goto(t, "idle")
    /\ UNCHANGED <<catalog, tables, daemons, cluster, locals, faults, dropped>>

-------------------------------------------------------------------------------
\* What a task does once it has begun.
Continue(t) ==
    \/ CreateStorage(t) \/ CreateCatalog(t)
    \/ DropCheck(t) \/ DropCatalog(t) \/ DropStorage(t)
    \/ RecordConfigChange(t)
    \/ ViewCluster(t) \/ ViewList(t) \/ DeliverView(t)
    \/ ApplyDaemons(t) \/ ApplyCluster(t) \/ ApplyList(t)
    \/ ApplyDropsDone(t) \/ ApplyState(t)
    \/ \E s \in Spaces : ViewSpace(t, s) \/ ApplyDrop(t, s) \/ ApplyAdd(t, s)

\* A daemon's process also boots and never leaves its sync loop.
RunDaemon(d) ==
    \/ \E a \in Addrs : RegisterCatalog(d, a)
    \/ RegisterCluster(d) \/ StartRuntime(d) \/ ViewState(d)
    \/ Continue(d)

Next ==
    \/ \E t \in Admins, s \in Spaces : SpaceRm(t, s) \/ \E d \in Defs : SpaceAdd(t, s, d)
    \/ \E t \in Requests : ViewState(t)
    \/ \E t \in Admins \cup Requests : Continue(t)
    \/ \E d \in Daemons : RunDaemon(d) \/ Restart(d) \/ \E s \in Spaces : ClientWrite(d, s)
    \/ \E t \in Syncers : LoseReply(t)

Spec == Init /\ [][Next]_vars

\* tokio runs every ready task: a begun operation goes on and the loop ticks.
\* Nobody is obliged to administer, to write, to send a request or to fail.
Fairness ==
    /\ \A d \in Daemons : WF_vars(RunDaemon(d))
    /\ \A t \in Admins \cup Requests : WF_vars(Continue(t))

FairSpec == Spec /\ Fairness

-------------------------------------------------------------------------------
TypeOK ==
    /\ catalog \in [Runtimes -> SpaceMap]
    /\ tables \in [Runtimes -> [Spaces -> TableStates]]
    /\ daemons \in [Runtimes -> NodeMap]
    /\ cluster \in [Runtimes -> NodeMap]
    /\ coordinator_state \in [Runtimes -> CoordinatorState]
    /\ pc \in [Tasks -> Steps]
    /\ space \in [Tasks -> Spaces]
    /\ def \in [Tasks -> Defs \cup {NoDef}]
    /\ todo \in [Tasks -> SUBSET Spaces]
    /\ view \in [Tasks -> ConfigView]
    /\ changed \in [Daemons -> BOOLEAN]
    /\ addr \in [Daemons -> Addrs \cup {NoAddr}]
    /\ faults \in Nat
    /\ dropped \in SUBSET Spaces

\* A task that has changed what config_view reads and has not recorded it yet.
Pending(t) ==
    \/ pc[t] = "register_record"
    \/ t \in Admins /\ pc[t] \in {"create_record", "drop_storage", "drop_record"}

Quiet == \A t \in Tasks : ~Pending(t)

\* A task that holds a complete view.
HoldsView(t) ==
    /\ t \in Syncers
    /\ \/ pc[t] \in ApplySteps \cup CreateSteps \cup DropSteps
       \/ pc[t] = "view_space" /\ todo[t] = {}

Labelled(t) == view[t].version = coordinator_state[Coordinator].version

\* config_view takes four locks in turn, so a view may mix two configurations.
\* It may do so only under an old label: a view labelled with the version the
\* coordinator has now, while no change waits to be recorded, is exactly the
\* coordinator's configuration.
CurrentViewIsExact ==
    \A t \in Syncers :
        HoldsView(t) /\ Labelled(t) /\ Quiet
            => /\ view[t].spaces = catalog[Coordinator]
               /\ view[t].nodes = cluster[Coordinator]

\* A daemon's configuration is the coordinator's, in every lock it is split over.
Mirrors(d) ==
    /\ catalog[d] = catalog[Coordinator]
    /\ daemons[d] = cluster[Coordinator]
    /\ cluster[d] = cluster[Coordinator]

Stocked(d) == \A s \in Spaces : (tables[d][s] = "none") <=> (catalog[d][s] = NoDef)

\* The version a daemon shows between two syncs can be trusted: once it equals
\* the coordinator's and nothing waits to be recorded, apply_config_view has left
\* the daemon with the coordinator's spaces and nodes and a table per space.
SyncedDaemonIsExact ==
    \A d \in Daemons :
        /\ pc[d] = "idle"
        /\ coordinator_state[d].version = coordinator_state[Coordinator].version
        /\ Quiet
        => Mirrors(d) /\ Stocked(d)

\* apply_config_view never throws away the records of a space the coordinator
\* has never dropped; only the daemon's own restart does.
KeepsUndroppedData ==
    [][\A d \in Daemons, s \in Spaces :
          tables[d][s] = "data" /\ s \notin dropped /\ pc'[d] # "boot"
              => tables'[d][s] = "data"]_vars

\* When the administrators and the faults have stopped, the sync loops bring every
\* daemon to the coordinator's configuration, with a table for every space.
Converges == <>[](\A d \in Daemons : Mirrors(d) /\ Stocked(d))

\* Refreshes asked for by requests race the loop on the same daemon and may
\* undo each other's work, but routing and schema still settle.
MirrorsEventually == <>[](\A d \in Daemons : Mirrors(d))
===============================================================================
