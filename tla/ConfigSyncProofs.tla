---------------------------- MODULE ConfigSyncProofs ----------------------------
(* Proofs about ConfigSync, for every number of daemons, administrators,      *)
(* requests and spaces, and for every bound.                                  *)
EXTENDS ConfigSync, TLAPS

\* Which procedures a task runs: administrators neither fetch nor apply views,
\* and only daemons register.
TaskSteps ==
    /\ \A t \in Admins : pc[t] \in {"idle"} \cup CreateSteps \cup DropSteps
    /\ \A t \in Requests : pc[t] \notin RegisterSteps

\* A task that has read the version its view is labelled with.
HasLabel(t) == t \in Syncers /\ pc[t] \notin {"idle"} \cup RegisterSteps

\* Labels never run ahead of the coordinator.
LabelsBehind ==
    \A t \in Syncers : HasLabel(t) => view[t].version <= coordinator_state[Coordinator].version

\* Until the catalog is listed the view has no spaces.
BlankViews ==
    \A t \in Syncers : pc[t] \in {"view_cluster", "view_list"} => view[t].spaces = NoSpaces

\* What a view with the current label has read so far is still true while no
\* change waits to be recorded.
ReadSoFar(t) ==
    /\ pc[t] \notin {"view_cluster"} => view[t].nodes = cluster[Coordinator]
    /\ pc[t] = "view_space" =>
          \A s \in Spaces \ todo[t] : view[t].spaces[s] = catalog[Coordinator][s]
    /\ pc[t] \notin ViewSteps => view[t].spaces = catalog[Coordinator]

CurrentSoFar == \A t \in Syncers : HasLabel(t) /\ Labelled(t) /\ Quiet => ReadSoFar(t)

IInv == TypeOK /\ TaskSteps /\ LabelsBehind /\ BlankViews /\ CurrentSoFar

-------------------------------------------------------------------------------
\* A task acts on a runtime.
LEMMA RuntimeOfType == \A t \in Tasks : RuntimeOf(t) \in Runtimes
BY DaemonOfType DEF Tasks, Syncers, Runtimes, RuntimeOf

\* The steps a task can go to are steps.
LEMMA StepsListed ==
    /\ \A t \in Tasks : AfterRecord(t) \in Steps
    /\ \A step \in {"idle", "boot", "register_cluster", "register_record", "start",
                     "create_storage", "create_catalog", "create_record",
                     "drop_check", "drop_catalog", "drop_storage", "drop_record",
                     "view_cluster", "view_list", "view_space", "apply_daemons",
                     "apply_cluster", "apply_list", "apply_drop", "apply_add"} :
          step \in Steps
BY DEF AfterRecord, Steps, RegisterSteps, CreateSteps, DropSteps, ViewSteps, ApplySteps

\* Every action of every task preserves the types.
LEMMA TypeStep == TypeOK /\ [Next]_vars => TypeOK'
<1> SUFFICES ASSUME TypeOK, [Next]_vars PROVE TypeOK'
    OBVIOUS
<1> USE RuntimeOfType, StepsListed DEF TypeOK, Goto, runtimes, locals
<1> HIDE DEF Steps, ConfigView, AfterRecord, RuntimeOf
<1>1. ASSUME NEW t \in Tasks, CreateStorage(t) PROVE TypeOK'
    BY <1>1 DEF CreateStorage, TableStates
<1>2. ASSUME NEW t \in Tasks, CreateCatalog(t) PROVE TypeOK'
  <2>1. CASE catalog[RuntimeOf(t)][space[t]] = NoDef
    <3>1. catalog' = [catalog EXCEPT ![RuntimeOf(t)][space[t]] = def[t]]
        BY <1>2, <2>1 DEF CreateCatalog
    <3>2. catalog' \in [Runtimes -> SpaceMap]
        BY <3>1 DEF SpaceMap
    <3>3. QED
        BY <1>2, <2>1, <3>2 DEF CreateCatalog
  <2>2. CASE catalog[RuntimeOf(t)][space[t]] # NoDef
    BY <1>2, <2>2 DEF CreateCatalog
  <2>3. QED
    BY <2>1, <2>2
<1>3. ASSUME NEW t \in Tasks, DropCheck(t) PROVE TypeOK'
    BY <1>3 DEF DropCheck
<1>4. ASSUME NEW t \in Tasks, DropCatalog(t) PROVE TypeOK'
    BY <1>4 DEF DropCatalog, SpaceMap
<1>5. ASSUME NEW t \in Tasks, DropStorage(t) PROVE TypeOK'
    BY <1>5 DEF DropStorage, TableStates
<1>6. ASSUME NEW t \in Tasks, RecordConfigChange(t) PROVE TypeOK'
    BY <1>6 DEF RecordConfigChange, AfterRecord, CoordinatorState, Runtimes
<1>7. ASSUME NEW t \in Tasks, ViewCluster(t) PROVE TypeOK'
    BY <1>7 DEF ViewCluster, ConfigView, Runtimes
<1>8. ASSUME NEW t \in Tasks, ViewList(t) PROVE TypeOK'
    BY <1>8 DEF ViewList
<1>9. ASSUME NEW t \in Tasks, DeliverView(t) PROVE TypeOK'
    BY <1>9 DEF DeliverView
<1>10. ASSUME NEW t \in Tasks, LoseReply(t) PROVE TypeOK'
    BY <1>10 DEF LoseReply
<1>11. ASSUME NEW t \in Tasks, ApplyDaemons(t) PROVE TypeOK'
    BY <1>11 DEF ApplyDaemons, ConfigView
<1>12. ASSUME NEW t \in Tasks, ApplyCluster(t) PROVE TypeOK'
    BY <1>12 DEF ApplyCluster, ConfigView
<1>13. ASSUME NEW t \in Tasks, ApplyList(t) PROVE TypeOK'
    BY <1>13 DEF ApplyList
<1>14. ASSUME NEW t \in Tasks, ApplyDropsDone(t) PROVE TypeOK'
    BY <1>14 DEF ApplyDropsDone
<1>15. ASSUME NEW t \in Tasks, ApplyState(t) PROVE TypeOK'
    BY <1>15 DEF ApplyState, CoordinatorState, ConfigView
<1>16. ASSUME NEW t \in Tasks, NEW s \in Spaces, ViewSpace(t, s) PROVE TypeOK'
  <2>1. CASE catalog[Coordinator][s] # NoDef
    <3>1. view' = [view EXCEPT ![t].spaces[s] = catalog[Coordinator][s]]
        BY <1>16, <2>1 DEF ViewSpace
    <3>2. catalog[Coordinator][s] \in Defs \cup {NoDef}
        BY DEF Runtimes, SpaceMap
    <3>3. view' \in [Tasks -> ConfigView]
        BY <3>1, <3>2 DEF ConfigView, SpaceMap
    <3>4. QED
        BY <1>16, <2>1, <3>3, SMTT(30) DEF ViewSpace
  <2>2. CASE catalog[Coordinator][s] = NoDef
    BY <1>16, <2>2 DEF ViewSpace
  <2>3. QED
    BY <2>1, <2>2
<1>17. ASSUME NEW t \in Tasks, NEW s \in Spaces, ApplyDrop(t, s) PROVE TypeOK'
    BY <1>17 DEF ApplyDrop
<1>18. ASSUME NEW t \in Tasks, NEW s \in Spaces, ApplyAdd(t, s) PROVE TypeOK'
  <2> DEFINE existing == catalog[RuntimeOf(t)][s]
             wanted == view[t].spaces[s]
  <2>1. wanted \in Defs \cup {NoDef}
    BY DEF ConfigView, SpaceMap
  <2>2. CASE existing = wanted
    BY <1>18, <2>2 DEF ApplyAdd
  <2>3. CASE existing # wanted
    <3>1. /\ def' = [def EXCEPT ![t] = wanted]
          /\ Goto(t, IF existing = NoDef THEN "create_storage" ELSE "drop_check")
        BY <1>18, <2>3 DEF ApplyAdd
    <3> HIDE DEF existing, wanted
    <3>2. def' \in [Tasks -> Defs \cup {NoDef}]
        BY <2>1, <3>1
    <3>3. pc' \in [Tasks -> Steps]
        BY <3>1
    <3>4. QED
        BY <1>18, <2>3, <3>2, <3>3 DEF ApplyAdd, existing, wanted
  <2>4. QED
    BY <2>2, <2>3
<1>19. ASSUME NEW t \in Tasks, ViewState(t) PROVE TypeOK'
    BY <1>19 DEF ViewState, ConfigView, CoordinatorState, Runtimes, NodeMap, SpaceMap,
       NoNodes, NoSpaces
<1>20. ASSUME NEW t \in Admins, NEW s \in Spaces, NEW d \in Defs, SpaceAdd(t, s, d)
      PROVE  TypeOK'
    BY <1>20 DEF SpaceAdd, Tasks
<1>21. ASSUME NEW t \in Admins, NEW s \in Spaces, SpaceRm(t, s) PROVE TypeOK'
    BY <1>21 DEF SpaceRm, Tasks
<1>22. ASSUME NEW d \in Daemons, NEW a \in Addrs, RegisterCatalog(d, a) PROVE TypeOK'
    BY <1>22 DEF RegisterCatalog, Tasks, Syncers, NodeMap, Runtimes
<1>23. ASSUME NEW d \in Daemons, RegisterCluster(d) PROVE TypeOK'
    BY <1>23 DEF RegisterCluster, Tasks, Syncers, NodeMap, Runtimes
<1>24. ASSUME NEW d \in Daemons, StartRuntime(d) PROVE TypeOK'
    BY <1>24 DEF StartRuntime, Tasks, Syncers, NodeMap, NoNodes, Runtimes
<1>25. ASSUME NEW d \in Daemons, Restart(d) PROVE TypeOK'
    BY <1>25 DEF Restart, Runtimes, NodeMap, SpaceMap, TableStates, NoNodes, NoSpaces,
       NoTables, CoordinatorState, InitialState
<1>26. ASSUME NEW d \in Daemons, NEW s \in Spaces, ClientWrite(d, s) PROVE TypeOK'
    BY <1>26 DEF ClientWrite, TableStates, Runtimes
<1>27. CASE UNCHANGED vars
    BY <1>27 DEF vars
<1>28. QED
    BY <1>1, <1>2, <1>3, <1>4, <1>5, <1>6, <1>7, <1>8, <1>9, <1>10, <1>11, <1>12, <1>13,
       <1>14, <1>15, <1>16, <1>17, <1>18, <1>19, <1>20, <1>21, <1>22, <1>23, <1>24,
       <1>25, <1>26, <1>27 DEF Next, Continue, RunDaemon, Tasks, Syncers

\* The initial state is typed.
LEMMA TypeInit == Init => TypeOK
BY DEF Init, TypeOK, SpaceMap, NodeMap, TableStates, CoordinatorState, ConfigView, Steps,
       RegisterSteps, NoSpaces, NoNodes, NoTables, NoView, InitialState

\* Every variable keeps its type, for every number of daemons, connections,
\* requests and spaces: in particular a step of one task never leaves another in a
\* step its procedure does not have.
THEOREM TypeCorrect == Spec => []TypeOK
<1>1. Init => TypeOK
    BY TypeInit
<1>2. TypeOK /\ [Next]_vars => TypeOK'
    BY TypeStep
<1>3. QED
    BY <1>1, <1>2, PTL DEF Spec

-------------------------------------------------------------------------------
\* No step moves a task into a procedure its kind does not run.
LEMMA TaskStepsStep == TypeOK /\ TaskSteps /\ [Next]_vars => TaskSteps'
<1> SUFFICES ASSUME TypeOK, TaskSteps, [Next]_vars PROVE TaskSteps'
    OBVIOUS
<1> USE TasksDisjoint DEF TypeOK, TaskSteps, Goto, runtimes, locals, Tasks, Syncers,
        CreateSteps, DropSteps, RegisterSteps
<1>1. ASSUME NEW t \in Tasks, CreateStorage(t) PROVE TaskSteps'
    BY <1>1 DEF CreateStorage
<1>2. ASSUME NEW t \in Tasks, CreateCatalog(t) PROVE TaskSteps'
    BY <1>2 DEF CreateCatalog
<1>3. ASSUME NEW t \in Tasks, DropCheck(t) PROVE TaskSteps'
    BY <1>3 DEF DropCheck
<1>4. ASSUME NEW t \in Tasks, DropCatalog(t) PROVE TaskSteps'
    BY <1>4 DEF DropCatalog
<1>5. ASSUME NEW t \in Tasks, DropStorage(t) PROVE TaskSteps'
    BY <1>5 DEF DropStorage
<1>6. ASSUME NEW t \in Tasks, RecordConfigChange(t) PROVE TaskSteps'
    BY <1>6 DEF RecordConfigChange, AfterRecord
<1>7. ASSUME NEW t \in Tasks, ViewCluster(t) PROVE TaskSteps'
    BY <1>7 DEF ViewCluster
<1>8. ASSUME NEW t \in Tasks, ViewList(t) PROVE TaskSteps'
    BY <1>8 DEF ViewList
<1>9. ASSUME NEW t \in Tasks, DeliverView(t) PROVE TaskSteps'
    BY <1>9 DEF DeliverView
<1>10. ASSUME NEW t \in Tasks, LoseReply(t) PROVE TaskSteps'
    BY <1>10 DEF LoseReply
<1>11. ASSUME NEW t \in Tasks, ApplyDaemons(t) PROVE TaskSteps'
    BY <1>11 DEF ApplyDaemons
<1>12. ASSUME NEW t \in Tasks, ApplyCluster(t) PROVE TaskSteps'
    BY <1>12 DEF ApplyCluster
<1>13. ASSUME NEW t \in Tasks, ApplyList(t) PROVE TaskSteps'
    BY <1>13 DEF ApplyList
<1>14. ASSUME NEW t \in Tasks, ApplyDropsDone(t) PROVE TaskSteps'
    BY <1>14 DEF ApplyDropsDone
<1>15. ASSUME NEW t \in Tasks, ApplyState(t) PROVE TaskSteps'
    BY <1>15 DEF ApplyState
<1>16. ASSUME NEW t \in Tasks, ViewState(t) PROVE TaskSteps'
    BY <1>16 DEF ViewState
<1>17. ASSUME NEW t \in Tasks, NEW s \in Spaces, ViewSpace(t, s) PROVE TaskSteps'
    BY <1>17 DEF ViewSpace
<1>18. ASSUME NEW t \in Tasks, NEW s \in Spaces, ApplyDrop(t, s) PROVE TaskSteps'
    BY <1>18 DEF ApplyDrop
<1>19. ASSUME NEW t \in Tasks, NEW s \in Spaces, ApplyAdd(t, s) PROVE TaskSteps'
    BY <1>19 DEF ApplyAdd
<1>20. ASSUME NEW t \in Admins, NEW s \in Spaces, NEW d \in Defs, SpaceAdd(t, s, d)
      PROVE  TaskSteps'
    BY <1>20 DEF SpaceAdd
<1>21. ASSUME NEW t \in Admins, NEW s \in Spaces, SpaceRm(t, s) PROVE TaskSteps'
    BY <1>21 DEF SpaceRm
<1>22. ASSUME NEW d \in Daemons, NEW a \in Addrs, RegisterCatalog(d, a) PROVE TaskSteps'
    BY <1>22 DEF RegisterCatalog
<1>23. ASSUME NEW d \in Daemons, RegisterCluster(d) PROVE TaskSteps'
    BY <1>23 DEF RegisterCluster
<1>24. ASSUME NEW d \in Daemons, StartRuntime(d) PROVE TaskSteps'
    BY <1>24 DEF StartRuntime
<1>25. ASSUME NEW d \in Daemons, Restart(d) PROVE TaskSteps'
    BY <1>25 DEF Restart
<1>26. ASSUME NEW d \in Daemons, NEW s \in Spaces, ClientWrite(d, s) PROVE TaskSteps'
    BY <1>26 DEF ClientWrite
<1>27. CASE UNCHANGED vars
    BY <1>27 DEF vars
<1>28. QED
    BY <1>1, <1>2, <1>3, <1>4, <1>5, <1>6, <1>7, <1>8, <1>9, <1>10, <1>11, <1>12, <1>13,
       <1>14, <1>15, <1>16, <1>17, <1>18, <1>19, <1>20, <1>21, <1>22, <1>23, <1>24,
       <1>25, <1>26, <1>27 DEF Next, Continue, RunDaemon

\* What reading one space does to the views.
ViewConsequences(t, s) ==
    /\ \A u \in Tasks : view'[u].version = view[u].version /\ view'[u].nodes = view[u].nodes
    /\ \A u \in Tasks \ {t} : view'[u] = view[u]
    /\ pc'[t] = "view_space" =>
          view'[t].spaces = [view[t].spaces EXCEPT ![s] = catalog[Coordinator][s]]

\* Reading one space adds that space to one view and leaves the label alone.
LEMMA ViewSpaceEffect ==
    ASSUME TypeOK, NEW t \in Tasks, NEW s \in Spaces, ViewSpace(t, s)
    PROVE  ViewConsequences(t, s)
<1> USE DEF ViewConsequences
<1>1. CASE catalog[Coordinator][s] # NoDef
  <2> DEFINE c == catalog[Coordinator][s]
  <2>1. view' = [view EXCEPT ![t].spaces[s] = c]
    BY <1>1 DEF ViewSpace
  <2> HIDE DEF c
  <2>2. view' = [view EXCEPT ![t] = [view[t] EXCEPT !.spaces = [view[t].spaces EXCEPT ![s] = c]]]
    BY <2>1
  <2>3. view \in [Tasks -> ConfigView]
    BY DEF TypeOK
  <2>4. view'[t] = [view[t] EXCEPT !.spaces = [view[t].spaces EXCEPT ![s] = c]]
    BY <2>2, <2>3
  <2>5. /\ view'[t].version = view[t].version
        /\ view'[t].nodes = view[t].nodes
        /\ view'[t].spaces = [view[t].spaces EXCEPT ![s] = c]
    BY <2>3, <2>4 DEF ConfigView
  <2>6. \A u \in Tasks \ {t} : view'[u] = view[u]
    BY <2>2, <2>3
  <2>7. QED
    BY <2>5, <2>6 DEF c
<1>2. CASE catalog[Coordinator][s] = NoDef
  <2>1. view' = view /\ pc' = [pc EXCEPT ![t] = "idle"]
    BY <1>2 DEF ViewSpace, Goto
  <2>2. pc'[t] = "idle"
    BY <2>1 DEF TypeOK
  <2>3. QED
    BY <2>1, <2>2
<1>3. QED
    BY <1>1, <1>2

\* Labels never run ahead: versions only grow, and a view takes its label from
\* the coordinator.
LEMMA LabelsStep == TypeOK /\ TaskSteps /\ LabelsBehind /\ [Next]_vars => LabelsBehind'
<1> SUFFICES ASSUME TypeOK, TaskSteps, LabelsBehind, [Next]_vars PROVE LabelsBehind'
    OBVIOUS
<1> USE TasksDisjoint, DaemonOfType DEF TypeOK, TaskSteps, LabelsBehind, HasLabel, Goto, runtimes, locals, Tasks, Syncers,
        Runtimes, RuntimeOf, ConfigView, CoordinatorState, RegisterSteps
<1>1. ASSUME NEW t \in Tasks, CreateStorage(t) PROVE LabelsBehind'
    BY <1>1 DEF CreateStorage
<1>2. ASSUME NEW t \in Tasks, CreateCatalog(t) PROVE LabelsBehind'
    BY <1>2 DEF CreateCatalog
<1>3. ASSUME NEW t \in Tasks, DropCheck(t) PROVE LabelsBehind'
    BY <1>3 DEF DropCheck
<1>4. ASSUME NEW t \in Tasks, DropCatalog(t) PROVE LabelsBehind'
    BY <1>4 DEF DropCatalog
<1>5. ASSUME NEW t \in Tasks, DropStorage(t) PROVE LabelsBehind'
    BY <1>5 DEF DropStorage
<1>6. ASSUME NEW t \in Tasks, RecordConfigChange(t) PROVE LabelsBehind'
    BY <1>6 DEF RecordConfigChange, AfterRecord
<1>7. ASSUME NEW t \in Tasks, ViewCluster(t) PROVE LabelsBehind'
  <2>1. coordinator_state' = coordinator_state
    BY <1>7 DEF ViewCluster
  <2>2. ASSUME NEW u \in Syncers PROVE view'[u].version = view[u].version
    BY <1>7 DEF ViewCluster
  <2>3. ASSUME NEW u \in Syncers, HasLabel(u)' PROVE HasLabel(u)
    BY <1>7, <2>3 DEF ViewCluster
  <2>4. QED
    BY <2>1, <2>2, <2>3
<1>8. ASSUME NEW t \in Tasks, ViewList(t) PROVE LabelsBehind'
    BY <1>8 DEF ViewList
<1>9. ASSUME NEW t \in Tasks, DeliverView(t) PROVE LabelsBehind'
    BY <1>9 DEF DeliverView
<1>10. ASSUME NEW t \in Tasks, LoseReply(t) PROVE LabelsBehind'
    BY <1>10 DEF LoseReply
<1>11. ASSUME NEW t \in Tasks, ApplyDaemons(t) PROVE LabelsBehind'
    BY <1>11 DEF ApplyDaemons
<1>12. ASSUME NEW t \in Tasks, ApplyCluster(t) PROVE LabelsBehind'
    BY <1>12 DEF ApplyCluster
<1>13. ASSUME NEW t \in Tasks, ApplyList(t) PROVE LabelsBehind'
    BY <1>13 DEF ApplyList
<1>14. ASSUME NEW t \in Tasks, ApplyDropsDone(t) PROVE LabelsBehind'
    BY <1>14 DEF ApplyDropsDone
<1>15. ASSUME NEW t \in Tasks, ApplyState(t) PROVE LabelsBehind'
  <2>1. t \notin Admins
    BY <1>15 DEF ApplyState, CreateSteps, DropSteps
  <2>2. coordinator_state'[Coordinator] = coordinator_state[Coordinator]
    BY <1>15, <2>1 DEF ApplyState
  <2>3. ASSUME NEW u \in Syncers, HasLabel(u)' PROVE HasLabel(u)
    BY <1>15, <2>3 DEF ApplyState
  <2>4. view' = view
    BY <1>15 DEF ApplyState
  <2>5. QED
    BY <2>2, <2>3, <2>4
<1>16. ASSUME NEW t \in Tasks, ViewState(t) PROVE LabelsBehind'
    BY <1>16 DEF ViewState
<1>17. ASSUME NEW t \in Tasks, NEW s \in Spaces, ViewSpace(t, s) PROVE LabelsBehind'
  <2>1. coordinator_state' = coordinator_state
    BY <1>17 DEF ViewSpace
  <2>2. ASSUME NEW u \in Syncers PROVE view'[u].version = view[u].version
    BY <1>17, ViewSpaceEffect DEF ViewConsequences
  <2>3. ASSUME NEW u \in Syncers, HasLabel(u)' PROVE HasLabel(u)
    BY <1>17, <2>3 DEF ViewSpace
  <2>4. QED
    BY <2>1, <2>2, <2>3
<1>18. ASSUME NEW t \in Tasks, NEW s \in Spaces, ApplyDrop(t, s) PROVE LabelsBehind'
    BY <1>18 DEF ApplyDrop
<1>19. ASSUME NEW t \in Tasks, NEW s \in Spaces, ApplyAdd(t, s) PROVE LabelsBehind'
    BY <1>19 DEF ApplyAdd
<1>20. ASSUME NEW t \in Admins, NEW s \in Spaces, NEW d \in Defs, SpaceAdd(t, s, d)
      PROVE  LabelsBehind'
    BY <1>20 DEF SpaceAdd
<1>21. ASSUME NEW t \in Admins, NEW s \in Spaces, SpaceRm(t, s) PROVE LabelsBehind'
    BY <1>21 DEF SpaceRm
<1>22. ASSUME NEW d \in Daemons, NEW a \in Addrs, RegisterCatalog(d, a) PROVE LabelsBehind'
    BY <1>22 DEF RegisterCatalog
<1>23. ASSUME NEW d \in Daemons, RegisterCluster(d) PROVE LabelsBehind'
    BY <1>23 DEF RegisterCluster
<1>24. ASSUME NEW d \in Daemons, StartRuntime(d) PROVE LabelsBehind'
    BY <1>24 DEF StartRuntime
<1>25. ASSUME NEW d \in Daemons, Restart(d) PROVE LabelsBehind'
    BY <1>25 DEF Restart
<1>26. ASSUME NEW d \in Daemons, NEW s \in Spaces, ClientWrite(d, s) PROVE LabelsBehind'
    BY <1>26 DEF ClientWrite
<1>27. CASE UNCHANGED vars
    BY <1>27 DEF vars
<1>28. QED
    BY <1>1, <1>2, <1>3, <1>4, <1>5, <1>6, <1>7, <1>8, <1>9, <1>10, <1>11, <1>12, <1>13,
       <1>14, <1>15, <1>16, <1>17, <1>18, <1>19, <1>20, <1>21, <1>22, <1>23, <1>24,
       <1>25, <1>26, <1>27 DEF Next, Continue, RunDaemon

\* Views start blank and gain spaces only after the catalog is listed.
LEMMA BlankStep == TypeOK /\ BlankViews /\ [Next]_vars => BlankViews'
<1> SUFFICES ASSUME TypeOK, BlankViews, [Next]_vars PROVE BlankViews'
    OBVIOUS
<1> USE TasksDisjoint DEF TypeOK, BlankViews, Goto, runtimes, locals, Tasks, Syncers
<1>1. ASSUME NEW t \in Tasks, CreateStorage(t) PROVE BlankViews'
    BY <1>1 DEF CreateStorage
<1>2. ASSUME NEW t \in Tasks, CreateCatalog(t) PROVE BlankViews'
    BY <1>2 DEF CreateCatalog
<1>3. ASSUME NEW t \in Tasks, DropCheck(t) PROVE BlankViews'
    BY <1>3 DEF DropCheck
<1>4. ASSUME NEW t \in Tasks, DropCatalog(t) PROVE BlankViews'
    BY <1>4 DEF DropCatalog
<1>5. ASSUME NEW t \in Tasks, DropStorage(t) PROVE BlankViews'
    BY <1>5 DEF DropStorage
<1>6. ASSUME NEW t \in Tasks, RecordConfigChange(t) PROVE BlankViews'
    BY <1>6 DEF RecordConfigChange, AfterRecord
<1>7. ASSUME NEW t \in Tasks, ViewCluster(t) PROVE BlankViews'
    BY <1>7 DEF ViewCluster
<1>8. ASSUME NEW t \in Tasks, ViewList(t) PROVE BlankViews'
    BY <1>8 DEF ViewList
<1>9. ASSUME NEW t \in Tasks, DeliverView(t) PROVE BlankViews'
    BY <1>9 DEF DeliverView
<1>10. ASSUME NEW t \in Tasks, LoseReply(t) PROVE BlankViews'
    BY <1>10 DEF LoseReply
<1>11. ASSUME NEW t \in Tasks, ApplyDaemons(t) PROVE BlankViews'
    BY <1>11 DEF ApplyDaemons
<1>12. ASSUME NEW t \in Tasks, ApplyCluster(t) PROVE BlankViews'
    BY <1>12 DEF ApplyCluster
<1>13. ASSUME NEW t \in Tasks, ApplyList(t) PROVE BlankViews'
    BY <1>13 DEF ApplyList
<1>14. ASSUME NEW t \in Tasks, ApplyDropsDone(t) PROVE BlankViews'
    BY <1>14 DEF ApplyDropsDone
<1>15. ASSUME NEW t \in Tasks, ApplyState(t) PROVE BlankViews'
    BY <1>15 DEF ApplyState
<1>16. ASSUME NEW t \in Tasks, ViewState(t) PROVE BlankViews'
    BY <1>16 DEF ViewState
<1>17. ASSUME NEW t \in Tasks, NEW s \in Spaces, ViewSpace(t, s) PROVE BlankViews'
    BY <1>17 DEF ViewSpace
<1>18. ASSUME NEW t \in Tasks, NEW s \in Spaces, ApplyDrop(t, s) PROVE BlankViews'
    BY <1>18 DEF ApplyDrop
<1>19. ASSUME NEW t \in Tasks, NEW s \in Spaces, ApplyAdd(t, s) PROVE BlankViews'
    BY <1>19 DEF ApplyAdd
<1>20. ASSUME NEW t \in Admins, NEW s \in Spaces, NEW d \in Defs, SpaceAdd(t, s, d)
      PROVE  BlankViews'
    BY <1>20 DEF SpaceAdd
<1>21. ASSUME NEW t \in Admins, NEW s \in Spaces, SpaceRm(t, s) PROVE BlankViews'
    BY <1>21 DEF SpaceRm
<1>22. ASSUME NEW d \in Daemons, NEW a \in Addrs, RegisterCatalog(d, a) PROVE BlankViews'
    BY <1>22 DEF RegisterCatalog
<1>23. ASSUME NEW d \in Daemons, RegisterCluster(d) PROVE BlankViews'
    BY <1>23 DEF RegisterCluster
<1>24. ASSUME NEW d \in Daemons, StartRuntime(d) PROVE BlankViews'
    BY <1>24 DEF StartRuntime
<1>25. ASSUME NEW d \in Daemons, Restart(d) PROVE BlankViews'
    BY <1>25 DEF Restart
<1>26. ASSUME NEW d \in Daemons, NEW s \in Spaces, ClientWrite(d, s) PROVE BlankViews'
    BY <1>26 DEF ClientWrite
<1>27. CASE UNCHANGED vars
    BY <1>27 DEF vars
<1>28. QED
    BY <1>1, <1>2, <1>3, <1>4, <1>5, <1>6, <1>7, <1>8, <1>9, <1>10, <1>11, <1>12, <1>13,
       <1>14, <1>15, <1>16, <1>17, <1>18, <1>19, <1>20, <1>21, <1>22, <1>23, <1>24,
       <1>25, <1>26, <1>27 DEF Next, Continue, RunDaemon

\* A step leaves what config_view reads as it was.
SourceKept ==
    /\ catalog'[Coordinator] = catalog[Coordinator]
    /\ cluster'[Coordinator] = cluster[Coordinator]
    /\ coordinator_state'[Coordinator] = coordinator_state[Coordinator]

\* A step leaves what every labelled task has read as it was.
ViewsKept ==
    \A u \in Syncers :
        HasLabel(u)' => /\ HasLabel(u)
                        /\ view'[u] = view[u]
                        /\ \/ pc'[u] = pc[u] /\ todo'[u] = todo[u]
                           \/ pc[u] \notin ViewSteps /\ pc'[u] \notin ViewSteps

\* A step that keeps both, and after which nothing waits to be recorded only if
\* nothing waited before, keeps the views true.
LEMMA KeptIsCurrent ==
    ASSUME CurrentSoFar, SourceKept, ViewsKept, Quiet' => Quiet
    PROVE  CurrentSoFar'
<1> SUFFICES ASSUME NEW u \in Syncers, HasLabel(u)', Labelled(u)', Quiet' PROVE ReadSoFar(u)'
    BY DEF CurrentSoFar, Syncers
<1>1. HasLabel(u) /\ view'[u] = view[u]
    BY DEF ViewsKept
<1>2. Labelled(u)
    BY <1>1 DEF Labelled, SourceKept
<1>3. ReadSoFar(u)
    BY <1>1, <1>2 DEF CurrentSoFar
<1>4. CASE pc'[u] = pc[u] /\ todo'[u] = todo[u]
    BY <1>1, <1>3, <1>4 DEF ReadSoFar, SourceKept
<1>5. CASE pc[u] \notin ViewSteps /\ pc'[u] \notin ViewSteps
    BY <1>1, <1>3, <1>5 DEF ReadSoFar, SourceKept, ViewSteps
<1>6. QED
    BY <1>4, <1>5 DEF ViewsKept

\* What a view has read stays true as long as its label stays current: a change
\* either waits to be recorded, and the coordinator is not quiet, or is recorded,
\* and the label is old.
LEMMA CurrentStep == TypeOK /\ TypeOK' /\ TaskSteps /\ TaskSteps' /\ LabelsBehind /\ BlankViews /\ CurrentSoFar /\ [Next]_vars => CurrentSoFar'
<1> SUFFICES ASSUME TypeOK, TypeOK', TaskSteps, TaskSteps', LabelsBehind, BlankViews, CurrentSoFar, [Next]_vars
      PROVE  CurrentSoFar'
    OBVIOUS
<1> USE TasksDisjoint, DaemonOfType DEF TypeOK, TaskSteps, CurrentSoFar, ReadSoFar, HasLabel, Labelled, Quiet, Pending,
        Goto, runtimes, locals, Tasks, Syncers, Runtimes, RuntimeOf, RegisterSteps,
        CreateSteps, DropSteps, ViewSteps
<1>1. ASSUME NEW t \in Tasks, CreateStorage(t) PROVE CurrentSoFar'
  <2>1. SourceKept
    BY <1>1 DEF CreateStorage, SourceKept
  <2>2. Quiet' => Quiet
    BY <1>1 DEF CreateStorage
  <2>3. ViewsKept
    BY <1>1 DEF CreateStorage, ViewsKept
  <2>4. QED
    BY <2>1, <2>2, <2>3, KeptIsCurrent
<1>2. ASSUME NEW t \in Tasks, CreateCatalog(t) PROVE CurrentSoFar'
  <2>1. CASE t \in Admins /\ catalog[Coordinator][space[t]] = NoDef
    <3>1. pc'[t] = "create_record"
        BY <1>2, <2>1 DEF CreateCatalog
    <3>2. QED
        BY <2>1, <3>1
  <2>2. CASE t \notin Admins \/ catalog[Coordinator][space[t]] # NoDef
    <3>1. SourceKept
        BY <1>2, <2>2 DEF CreateCatalog, SourceKept
    <3>2. Quiet' => Quiet
        BY <1>2 DEF CreateCatalog
    <3>3. ViewsKept
        BY <1>2 DEF CreateCatalog, ViewsKept
    <3>4. QED
        BY <3>1, <3>2, <3>3, KeptIsCurrent
  <2>3. QED
    BY <2>1, <2>2
<1>3. ASSUME NEW t \in Tasks, DropCheck(t) PROVE CurrentSoFar'
  <2>1. SourceKept
    BY <1>3 DEF DropCheck, SourceKept
  <2>2. Quiet' => Quiet
    BY <1>3 DEF DropCheck
  <2>3. ViewsKept
    BY <1>3 DEF DropCheck, ViewsKept
  <2>4. QED
    BY <2>1, <2>2, <2>3, KeptIsCurrent
<1>4. ASSUME NEW t \in Tasks, DropCatalog(t) PROVE CurrentSoFar'
  <2>1. CASE t \in Admins
    <3>1. pc'[t] = "drop_storage"
        BY <1>4 DEF DropCatalog
    <3>2. QED
        BY <2>1, <3>1
  <2>2. CASE t \notin Admins
    <3>1. SourceKept
        BY <1>4, <2>2 DEF DropCatalog, SourceKept
    <3>2. Quiet' => Quiet
        BY <1>4, <2>2 DEF DropCatalog
    <3>3. ViewsKept
        BY <1>4 DEF DropCatalog, ViewsKept
    <3>4. QED
        BY <3>1, <3>2, <3>3, KeptIsCurrent
  <2>3. QED
    BY <2>1, <2>2
<1>5. ASSUME NEW t \in Tasks, DropStorage(t) PROVE CurrentSoFar'
  <2>1. SourceKept
    BY <1>5 DEF DropStorage, SourceKept
  <2>2. Quiet' => Quiet
    BY <1>5 DEF DropStorage
  <2>3. ViewsKept
    BY <1>5 DEF DropStorage, ViewsKept
  <2>4. QED
    BY <2>1, <2>2, <2>3, KeptIsCurrent
<1>6. ASSUME NEW t \in Tasks, RecordConfigChange(t) PROVE CurrentSoFar'
  <2>1. CASE t \in Admins \/ pc[t] = "register_record"
    <3>1. coordinator_state'[Coordinator].version = coordinator_state[Coordinator].version + 1
        BY <1>6, <2>1 DEF RecordConfigChange
    <3>2. view' = view
        BY <1>6 DEF RecordConfigChange
    <3>3. ASSUME NEW u \in Syncers, HasLabel(u)' PROVE ~Labelled(u)'
      <4>1. CASE u = t
        <5>1. pc'[u] = "start"
            BY <1>6, <2>1, <4>1 DEF RecordConfigChange, AfterRecord
        <5>2. QED
            BY <3>3, <5>1
      <4>2. CASE u # t
        <5>1. HasLabel(u)
            BY <1>6, <3>3, <4>2 DEF RecordConfigChange
        <5>2. view[u].version <= coordinator_state[Coordinator].version
            BY <5>1 DEF LabelsBehind
        <5>3. view[u].version \in Nat /\ coordinator_state[Coordinator].version \in Nat
            BY DEF ConfigView, CoordinatorState
        <5>4. QED
            BY <3>1, <3>2, <5>2, <5>3
      <4>3. QED
        BY <4>1, <4>2
    <3>4. QED
        BY <3>3
  <2>2. CASE t \notin Admins /\ pc[t] # "register_record"
    <3>1. SourceKept
        BY <1>6, <2>2 DEF RecordConfigChange, SourceKept
    <3>2. Quiet' => Quiet
        BY <1>6, <2>2 DEF RecordConfigChange
    <3>3. ViewsKept
        BY <1>6, <2>2 DEF RecordConfigChange, AfterRecord, ViewsKept
    <3>4. QED
        BY <3>1, <3>2, <3>3, KeptIsCurrent
  <2>3. QED
    BY <2>1, <2>2
<1>7. ASSUME NEW t \in Tasks, ViewCluster(t) PROVE CurrentSoFar'
    BY <1>7 DEF ViewCluster
<1>8. ASSUME NEW t \in Tasks, ViewList(t) PROVE CurrentSoFar'
  <2>1. SourceKept /\ view' = view
    BY <1>8 DEF ViewList, SourceKept
  <2>2. Quiet' => Quiet
    BY <1>8 DEF ViewList
  <2>3. SUFFICES ASSUME NEW u \in Syncers, HasLabel(u)', Labelled(u)', Quiet' PROVE ReadSoFar(u)'
    OBVIOUS
  <2>4. HasLabel(u) /\ Labelled(u)
    BY <1>8, <2>1, <2>3 DEF ViewList, SourceKept
  <2>5. ReadSoFar(u)
    BY <2>2, <2>3, <2>4
  <2>6. CASE u = t
    <3>1. /\ pc[t] = "view_list" /\ pc'[t] = "view_space"
          /\ todo'[t] = {s \in Spaces : catalog[Coordinator][s] # NoDef}
        BY <1>8 DEF ViewList
    <3>2. view[t].spaces = NoSpaces
        BY <2>6, <3>1 DEF BlankViews
    <3>3. ASSUME NEW s \in Spaces \ todo'[t] PROVE view'[t].spaces[s] = catalog'[Coordinator][s]
        BY <2>1, <3>1, <3>2 DEF NoSpaces, SourceKept
    <3>4. QED
        BY <2>1, <2>5, <2>6, <3>1, <3>3 DEF SourceKept
  <2>7. CASE u # t
    BY <1>8, <2>1, <2>5, <2>7 DEF ViewList, SourceKept
  <2>8. QED
    BY <2>6, <2>7
<1>9. ASSUME NEW t \in Tasks, DeliverView(t) PROVE CurrentSoFar'
  <2>1. SourceKept /\ view' = view
    BY <1>9 DEF DeliverView, SourceKept
  <2>2. Quiet' => Quiet
    BY <1>9 DEF DeliverView
  <2>3. SUFFICES ASSUME NEW u \in Syncers, HasLabel(u)', Labelled(u)', Quiet' PROVE ReadSoFar(u)'
    OBVIOUS
  <2>4. HasLabel(u) /\ Labelled(u)
    BY <1>9, <2>1, <2>3 DEF DeliverView, SourceKept
  <2>5. ReadSoFar(u)
    BY <2>2, <2>3, <2>4
  <2>6. CASE u = t
    <3>1. pc[t] = "view_space" /\ todo[t] = {} /\ pc'[t] = "apply_daemons"
        BY <1>9 DEF DeliverView
    <3>2. \A s \in Spaces : view[t].spaces[s] = catalog[Coordinator][s]
        BY <2>5, <2>6, <3>1
    <3>3. view[t].spaces \in SpaceMap /\ catalog[Coordinator] \in SpaceMap
        BY DEF ConfigView
    <3>4. view[t].spaces = catalog[Coordinator]
        BY <3>2, <3>3 DEF SpaceMap
    <3>5. QED
        BY <2>1, <2>5, <2>6, <3>1, <3>4 DEF SourceKept
  <2>7. CASE u # t
    BY <1>9, <2>1, <2>5, <2>7 DEF DeliverView, SourceKept
  <2>8. QED
    BY <2>6, <2>7
<1>10. ASSUME NEW t \in Tasks, LoseReply(t) PROVE CurrentSoFar'
  <2>1. SourceKept
    BY <1>10 DEF LoseReply, SourceKept
  <2>2. Quiet' => Quiet
    BY <1>10 DEF LoseReply
  <2>3. ViewsKept
    BY <1>10 DEF LoseReply, ViewsKept
  <2>4. QED
    BY <2>1, <2>2, <2>3, KeptIsCurrent
<1>11. ASSUME NEW t \in Tasks, ApplyDaemons(t) PROVE CurrentSoFar'
  <2>1. SourceKept
    BY <1>11 DEF ApplyDaemons, ApplySteps, SourceKept
  <2>2. Quiet' => Quiet
    BY <1>11 DEF ApplyDaemons, ApplySteps
  <2>3. ViewsKept
    BY <1>11 DEF ApplyDaemons, ApplySteps, ViewsKept
  <2>4. QED
    BY <2>1, <2>2, <2>3, KeptIsCurrent
<1>12. ASSUME NEW t \in Tasks, ApplyCluster(t) PROVE CurrentSoFar'
  <2>1. SourceKept
    BY <1>12 DEF ApplyCluster, ApplySteps, SourceKept
  <2>2. Quiet' => Quiet
    BY <1>12 DEF ApplyCluster, ApplySteps
  <2>3. ViewsKept
    BY <1>12 DEF ApplyCluster, ApplySteps, ViewsKept
  <2>4. QED
    BY <2>1, <2>2, <2>3, KeptIsCurrent
<1>13. ASSUME NEW t \in Tasks, ApplyList(t) PROVE CurrentSoFar'
    BY <1>13, SMTT(30) DEF ApplyList
<1>14. ASSUME NEW t \in Tasks, ApplyDropsDone(t) PROVE CurrentSoFar'
    BY <1>14, SMTT(30) DEF ApplyDropsDone
<1>15. ASSUME NEW t \in Tasks, ApplyState(t) PROVE CurrentSoFar'
  <2>1. RuntimeOf(t) # Coordinator
    <3>1. t \notin Admins
        BY <1>15 DEF ApplyState
    <3>2. QED
        BY <3>1
  <2>2. SourceKept
    BY <1>15, <2>1 DEF ApplyState, SourceKept
  <2>3. Quiet' => Quiet
    BY <1>15 DEF ApplyState
  <2>4. ViewsKept
    BY <1>15 DEF ApplyState, ViewsKept
  <2>5. QED
    BY <2>2, <2>3, <2>4, KeptIsCurrent
<1>16. ASSUME NEW t \in Tasks, ViewState(t) PROVE CurrentSoFar'
    BY <1>16 DEF ViewState
<1>17. ASSUME NEW t \in Tasks, NEW s \in Spaces, ViewSpace(t, s) PROVE CurrentSoFar'
  <2>1. SourceKept
    BY <1>17 DEF ViewSpace, SourceKept
  <2>2. Quiet' => Quiet
    BY <1>17 DEF ViewSpace
  <2>3. ViewConsequences(t, s)
    BY <1>17, ViewSpaceEffect
  <2>4. SUFFICES ASSUME NEW u \in Syncers, HasLabel(u)', Labelled(u)', Quiet' PROVE ReadSoFar(u)'
    OBVIOUS
  <2>5. HasLabel(u)
    BY <1>17, <2>4 DEF ViewSpace
  <2>6. Labelled(u)
    BY <2>1, <2>3, <2>4 DEF ViewConsequences, SourceKept
  <2>7. ReadSoFar(u)
    BY <2>2, <2>4, <2>5, <2>6
  <2>8. CASE u = t
    <3>1. pc[t] = "view_space" /\ pc'[t] # "idle"
        BY <1>17, <2>4, <2>8 DEF ViewSpace
    <3>2. pc'[t] = "view_space" /\ todo'[t] = todo[t] \ {s}
        BY <1>17, <3>1 DEF ViewSpace
    <3>3. view'[t].spaces = [view[t].spaces EXCEPT ![s] = catalog[Coordinator][s]]
        BY <2>3, <3>2 DEF ViewConsequences
    <3>4. view[t].spaces \in SpaceMap
        BY DEF ConfigView
    <3>5. ASSUME NEW x \in Spaces \ todo'[t] PROVE view'[t].spaces[x] = catalog[Coordinator][x]
      <4>1. CASE x = s
        BY <3>3, <3>4, <4>1 DEF SpaceMap
      <4>2. CASE x # s
        BY <2>7, <2>8, <3>1, <3>2, <3>3, <3>4, <4>2 DEF SpaceMap
      <4>3. QED
        BY <4>1, <4>2
    <3>6. view'[t].nodes = cluster'[Coordinator]
        BY <2>1, <2>3, <2>7, <2>8, <3>1 DEF ViewConsequences, SourceKept
    <3>7. QED
        BY <2>1, <2>8, <3>2, <3>5, <3>6 DEF SourceKept
  <2>9. CASE u # t
    <3>1. view'[u] = view[u] /\ pc'[u] = pc[u] /\ todo'[u] = todo[u]
        BY <1>17, <2>3, <2>9 DEF ViewConsequences, ViewSpace
    <3>2. QED
        BY <2>1, <2>7, <3>1 DEF SourceKept
  <2>10. QED
    BY <2>8, <2>9
<1>18. ASSUME NEW t \in Tasks, NEW s \in Spaces, ApplyDrop(t, s) PROVE CurrentSoFar'
    BY <1>18 DEF ApplyDrop
<1>19. ASSUME NEW t \in Tasks, NEW s \in Spaces, ApplyAdd(t, s) PROVE CurrentSoFar'
    BY <1>19 DEF ApplyAdd
<1>20. ASSUME NEW t \in Admins, NEW s \in Spaces, NEW d \in Defs, SpaceAdd(t, s, d)
      PROVE  CurrentSoFar'
  <2>1. SourceKept
    BY <1>20 DEF SpaceAdd, SourceKept
  <2>2. Quiet' => Quiet
    BY <1>20 DEF SpaceAdd
  <2>3. ViewsKept
    BY <1>20 DEF SpaceAdd, ViewsKept
  <2>4. QED
    BY <2>1, <2>2, <2>3, KeptIsCurrent
<1>21. ASSUME NEW t \in Admins, NEW s \in Spaces, SpaceRm(t, s) PROVE CurrentSoFar'
  <2>1. SourceKept
    BY <1>21 DEF SpaceRm, SourceKept
  <2>2. Quiet' => Quiet
    BY <1>21 DEF SpaceRm
  <2>3. ViewsKept
    BY <1>21 DEF SpaceRm, ViewsKept
  <2>4. QED
    BY <2>1, <2>2, <2>3, KeptIsCurrent
<1>22. ASSUME NEW d \in Daemons, NEW a \in Addrs, RegisterCatalog(d, a) PROVE CurrentSoFar'
  <2>1. SourceKept
    BY <1>22 DEF RegisterCatalog, SourceKept
  <2>2. Quiet' => Quiet
    BY <1>22 DEF RegisterCatalog
  <2>3. ViewsKept
    BY <1>22 DEF RegisterCatalog, ViewsKept
  <2>4. QED
    BY <2>1, <2>2, <2>3, KeptIsCurrent
<1>23. ASSUME NEW d \in Daemons, RegisterCluster(d) PROVE CurrentSoFar'
  <2>1. CASE cluster[Coordinator][d] = addr[d]
    <3>1. cluster'[Coordinator] = [cluster[Coordinator] EXCEPT ![d] = addr[d]]
        BY <1>23 DEF RegisterCluster
    <3>2. cluster[Coordinator] \in NodeMap
        OBVIOUS
    <3>3. cluster'[Coordinator] = cluster[Coordinator]
        BY <2>1, <3>1, <3>2 DEF NodeMap
    <3>4. SourceKept
        BY <1>23, <3>3 DEF RegisterCluster, SourceKept
    <3>5. Quiet' => Quiet
        BY <1>23 DEF RegisterCluster
    <3>6. ViewsKept
        BY <1>23 DEF RegisterCluster, ViewsKept
    <3>7. QED
        BY <3>4, <3>5, <3>6, KeptIsCurrent
  <2>2. CASE cluster[Coordinator][d] # addr[d]
    <3>1. pc'[d] = "register_record"
        BY <1>23, <2>2 DEF RegisterCluster
    <3>2. QED
        BY <3>1
  <2>3. QED
    BY <2>1, <2>2
<1>24. ASSUME NEW d \in Daemons, StartRuntime(d) PROVE CurrentSoFar'
    BY <1>24 DEF StartRuntime
<1>25. ASSUME NEW d \in Daemons, Restart(d) PROVE CurrentSoFar'
  <2>1. SourceKept
    BY <1>25 DEF Restart, SourceKept
  <2>2. ASSUME NEW u \in Tasks, Pending(u) PROVE pc'[u] = pc[u]
    <3>1. u # d
        BY <1>25, <2>2 DEF Restart, Started
    <3>2. u \notin Requests
        BY <2>2
    <3>3. QED
        BY <1>25, <3>1, <3>2 DEF Restart
  <2>3. Quiet' => Quiet
    BY <2>2
  <2>4. ViewsKept
    BY <1>25 DEF Restart, ViewsKept
  <2>5. QED
    BY <2>1, <2>3, <2>4, KeptIsCurrent
<1>26. ASSUME NEW d \in Daemons, NEW s \in Spaces, ClientWrite(d, s) PROVE CurrentSoFar'
    BY <1>26 DEF ClientWrite
<1>27. CASE UNCHANGED vars
    BY <1>27 DEF vars
<1>28. QED
    BY <1>1, <1>2, <1>3, <1>4, <1>5, <1>6, <1>7, <1>8, <1>9, <1>10, <1>11, <1>12, <1>13,
       <1>14, <1>15, <1>16, <1>17, <1>18, <1>19, <1>20, <1>21, <1>22, <1>23, <1>24,
       <1>25, <1>26, <1>27 DEF Next, Continue, RunDaemon

\* The initial state satisfies the inductive invariant: no task holds a label yet.
LEMMA InductiveInit == Init => IInv
<1> SUFFICES ASSUME Init PROVE IInv
    OBVIOUS
<1>1. TypeOK
    BY TypeInit
<1>2. \A t \in Tasks : pc[t] = IF t \in Daemons THEN "boot" ELSE "idle"
    BY DEF Init
<1>3. TaskSteps
    BY <1>2, TasksDisjoint DEF TaskSteps, Tasks, Syncers, RegisterSteps
<1>4. \A t \in Syncers : ~HasLabel(t)
    BY <1>2 DEF HasLabel, Tasks, RegisterSteps
<1>5. BlankViews
    BY <1>2 DEF BlankViews, Tasks
<1>6. QED
    BY <1>1, <1>3, <1>4, <1>5 DEF IInv, LabelsBehind, CurrentSoFar

\* Every step keeps the inductive invariant.
LEMMA InductiveStep == IInv /\ [Next]_vars => IInv'
<1> SUFFICES ASSUME IInv, [Next]_vars PROVE IInv'
    OBVIOUS
<1>1. TypeOK /\ TaskSteps /\ LabelsBehind /\ BlankViews /\ CurrentSoFar
    BY DEF IInv
<1>2. TypeOK'
    BY <1>1, TypeStep
<1>3. TaskSteps'
    BY <1>1, TaskStepsStep
<1>4. LabelsBehind'
    BY <1>1, LabelsStep
<1>5. BlankViews'
    BY <1>1, BlankStep
<1>6. CurrentSoFar'
    BY <1>1, <1>2, <1>3, CurrentStep
<1>7. QED
    BY <1>2, <1>3, <1>4, <1>5, <1>6 DEF IInv

\* config_view's torn reads are harmless: a view that carries the coordinator's
\* present version, at a moment when no change waits to be recorded, is exactly the
\* coordinator's configuration, whatever the administrators, the registering
\* daemons and the other readers did between its four locks.
THEOREM ViewsAreExact == Spec => []CurrentViewIsExact
<1>1. Init => IInv
    BY InductiveInit
<1>2. IInv /\ [Next]_vars => IInv'
    BY InductiveStep
<1>3. IInv => CurrentViewIsExact
  <2> SUFFICES ASSUME IInv, NEW t \in Syncers, HoldsView(t), Labelled(t), Quiet
               PROVE  /\ view[t].spaces = catalog[Coordinator]
                      /\ view[t].nodes = cluster[Coordinator]
    BY DEF CurrentViewIsExact
  <2>1. HasLabel(t)
    BY DEF HoldsView, HasLabel, ApplySteps, CreateSteps, DropSteps, RegisterSteps
  <2>2. ReadSoFar(t)
    BY <2>1 DEF IInv, CurrentSoFar
  <2>3. CASE pc[t] = "view_space" /\ todo[t] = {}
    <3>1. \A s \in Spaces : view[t].spaces[s] = catalog[Coordinator][s]
        BY <2>2, <2>3 DEF ReadSoFar
    <3>2. view[t].spaces \in SpaceMap /\ catalog[Coordinator] \in SpaceMap
        BY DEF IInv, TypeOK, ConfigView, Runtimes, Tasks
    <3>3. view[t].spaces = catalog[Coordinator]
        BY <3>1, <3>2 DEF SpaceMap
    <3>4. QED
        BY <2>2, <2>3, <3>3 DEF ReadSoFar
  <2>4. CASE pc[t] \in ApplySteps \cup CreateSteps \cup DropSteps
    BY <2>2, <2>4 DEF ReadSoFar, ApplySteps, CreateSteps, DropSteps, ViewSteps
  <2>5. QED
    BY <2>3, <2>4 DEF HoldsView
<1>4. QED
    BY <1>1, <1>2, <1>3, PTL DEF Spec


-------------------------------------------------------------------------------
(* Proofs about a daemon that only its own loop synchronises: no legacy       *)
(* request refreshes its view (Requests = {}), so nothing but the daemon's    *)
(* task, its clients' writes and its restarts changes its runtime.  What an   *)
(* apply_config_view leaves behind can then be followed step by step.         *)

Version == coordinator_state[Coordinator].version

\* Between two applications of a view.
Resting(d) == pc[d] \in {"idle"} \cup ViewSteps
Applying(d) == pc[d] \in ApplySteps \cup CreateSteps \cup DropSteps

\* create_space or drop_space is at work on space[d].
Working(d) == pc[d] \in CreateSteps \cup DropSteps

\* The two loops of apply_config_view: a drop that carries a definition is the
\* first half of a redefinition.
Dropping(d) == pc[d] = "apply_drop" \/ (pc[d] \in DropSteps /\ def[d] = NoDef)
Adding(d) == pc[d] = "apply_add" \/ pc[d] \in CreateSteps \/ (pc[d] \in DropSteps /\ def[d] # NoDef)

\* A process that has not started its runtime has nothing.
Fresh(d) ==
    pc[d] \in RegisterSteps =>
        catalog[d] = NoSpaces /\ tables[d] = NoTables /\ coordinator_state[d].version = 0

\* The nodes of the view are installed first, in the catalog and then in the cluster.
Installed(d) ==
    Applying(d) => /\ pc[d] # "apply_daemons" => daemons[d] = view[d].nodes
                   /\ pc[d] \notin {"apply_daemons", "apply_cluster"} => cluster[d] = view[d].nodes

\* Catalog and storage agree on every space but the one between its two locks, and
\* the space at work is as far as the step says.
Shelved(d) ==
    /\ \A s \in Spaces :
          \/ (tables[d][s] = "none") <=> (catalog[d][s] = NoDef)
          \/ s = space[d] /\ pc[d] \in {"drop_storage", "create_catalog"}
    /\ pc[d] \in {"drop_check", "drop_catalog"} => catalog[d][space[d]] # NoDef
    /\ pc[d] \in {"drop_storage", "drop_record", "create_storage", "create_catalog"} =>
          catalog[d][space[d]] = NoDef
    /\ pc[d] = "create_catalog" => tables[d][space[d]] # "none"
    /\ pc[d] = "create_record" => catalog[d][space[d]] = def[d]

\* The first loop still has to visit every local space the view does not have,
\* and only those.
Trimmed(d) ==
    Dropping(d) =>
        /\ \A s \in Spaces : view[d].spaces[s] = NoDef /\ catalog[d][s] # NoDef =>
              s \in todo[d] \/ (Working(d) /\ s = space[d])
        /\ \A s \in todo[d] : catalog[d][s] # NoDef /\ view[d].spaces[s] = NoDef
        /\ Working(d) => space[d] \notin todo[d] /\ view[d].spaces[space[d]] = NoDef

\* The second loop still has to visit every space that differs from the view.
Filled(d) ==
    Adding(d) =>
        /\ \A s \in Spaces :
              catalog[d][s] = view[d].spaces[s] \/ s \in todo[d] \/ (Working(d) /\ s = space[d])
        /\ \A s \in todo[d] : view[d].spaces[s] # NoDef
        /\ Working(d) => def[d] = view[d].spaces[space[d]] /\ def[d] # NoDef

Local(d) == Fresh(d) /\ Installed(d) /\ Shelved(d) /\ Trimmed(d) /\ Filled(d)

\* A registered daemon has made the coordinator record a change.
Numbered(d) ==
    /\ pc[d] = "boot" => daemons[Coordinator][d] = NoAddr \/ Version >= 1
    /\ pc[d] = "register_cluster" => changed[d] \/ Version >= 1
    /\ pc[d] \notin {"boot", "register_cluster", "register_record"} => Version >= 1

\* Between two applications the daemon's version is one the coordinator had, and
\* can be trusted.
Synced(d) ==
    Resting(d) => /\ coordinator_state[d].version <= Version
                  /\ coordinator_state[d].version = Version /\ Quiet => Mirrors(d)

\* A space the coordinator never dropped is, wherever it is known, known as the
\* coordinator knows it; a view that lacks it reached a daemon that lacks it; and
\* no daemon is dropping it.
Tracked(d) ==
    \A s \in Spaces \ dropped :
        /\ catalog[d][s] # NoDef => catalog[d][s] = catalog[Coordinator][s]
        /\ view[d].spaces[s] # NoDef => view[d].spaces[s] = catalog[Coordinator][s]
        /\ (pc[d] = "view_space" /\ s \notin todo[d]) \/ Applying(d) =>
              (view[d].spaces[s] = NoDef => catalog[d][s] = NoDef)
        /\ pc[d] \in DropSteps => s # space[d]

LoopInv == IInv /\ \A d \in Daemons : Local(d) /\ Numbered(d) /\ Synced(d)
KeepInv == IInv /\ \A d \in Daemons : Local(d) /\ Tracked(d)

-------------------------------------------------------------------------------
\* A step of task t, and what a step of another task leaves alone.
Moves(t) ==
    \/ Continue(t) \/ ViewState(t) \/ LoseReply(t)
    \/ \E s \in Spaces : SpaceRm(t, s) \/ \E e \in Defs : SpaceAdd(t, s, e)
    \/ \E a \in Addrs : RegisterCatalog(t, a)
    \/ RegisterCluster(t) \/ StartRuntime(t) \/ (t \in Daemons /\ Restart(t))

RuntimeKept(d) ==
    /\ catalog'[d] = catalog[d] /\ daemons'[d] = daemons[d] /\ cluster'[d] = cluster[d]
    /\ coordinator_state'[d] = coordinator_state[d]

Untouched(d) ==
    /\ RuntimeKept(d) /\ tables'[d] = tables[d]
    /\ pc'[d] = pc[d] /\ space'[d] = space[d] /\ def'[d] = def[d] /\ todo'[d] = todo[d]
    /\ view'[d] = view[d] /\ changed'[d] = changed[d]
    /\ daemons'[Coordinator][d] = daemons[Coordinator][d]

\* Every step is a task's or a client's.
LEMMA StepSplit ==
    ASSUME [Next]_vars
    PROVE  \/ UNCHANGED vars
           \/ \E t \in Tasks : Moves(t)
           \/ \E d \in Daemons, s \in Spaces : ClientWrite(d, s)
<1>1. ASSUME NEW t \in Tasks, Continue(t) PROVE Moves(t)
    BY <1>1 DEF Moves
<1>2. ASSUME NEW t \in Tasks, ViewState(t) PROVE Moves(t)
    BY <1>2 DEF Moves
<1>3. ASSUME NEW t \in Tasks, LoseReply(t) PROVE Moves(t)
    BY <1>3 DEF Moves
<1>4. ASSUME NEW t \in Admins, NEW s \in Spaces, SpaceRm(t, s) \/ \E e \in Defs : SpaceAdd(t, s, e)
      PROVE  Moves(t)
    BY <1>4 DEF Moves
<1>5. ASSUME NEW d \in Daemons, RunDaemon(d) \/ Restart(d) PROVE Moves(d)
    BY <1>5 DEF Moves, RunDaemon
<1>6. QED
    BY <1>1, <1>2, <1>3, <1>4, <1>5 DEF Next, Tasks, Syncers

\* Without requests, the steps of every other task leave a daemon alone.
LEMMA OthersStep ==
    ASSUME TypeOK, TaskSteps, Requests = {}, NEW d \in Daemons, NEW t \in Tasks, t # d, Moves(t)
    PROVE  Untouched(d)
<1>0. /\ t # Coordinator /\ d \in Runtimes /\ d \in Tasks /\ Coordinator \in Runtimes /\ d # Coordinator
      /\ RuntimeOf(t) # d /\ RuntimeOf(t) \in Runtimes
    BY TasksDisjoint DEF Tasks, Syncers, Runtimes, RuntimeOf
<1> USE <1>0 DEF TypeOK, Untouched, RuntimeKept, Goto, runtimes, locals
<1> HIDE DEF RuntimeOf, Runtimes, Tasks
<1>1. CASE CreateStorage(t) \/ CreateCatalog(t)
    BY <1>1 DEF CreateStorage, CreateCatalog
<1>2. CASE DropCheck(t) \/ DropCatalog(t) \/ DropStorage(t)
    BY <1>2 DEF DropCheck, DropCatalog, DropStorage
<1>3. CASE RecordConfigChange(t)
    BY <1>3 DEF RecordConfigChange
<1>4. CASE ViewCluster(t) \/ ViewList(t) \/ DeliverView(t) \/ LoseReply(t)
    BY <1>4 DEF ViewCluster, ViewList, DeliverView, LoseReply
<1>5. CASE ApplyDaemons(t) \/ ApplyCluster(t) \/ ApplyList(t) \/ ApplyDropsDone(t) \/ ApplyState(t)
  <2>1. ApplyDaemons(t) => RuntimeOf(t) # Coordinator
    BY TasksDisjoint DEF ApplyDaemons, TaskSteps, RuntimeOf, Tasks, Syncers, CreateSteps, DropSteps
  <2>2. QED
    BY <1>5, <2>1 DEF ApplyDaemons, ApplyCluster, ApplyList, ApplyDropsDone, ApplyState
<1>6. ASSUME NEW s \in Spaces, ViewSpace(t, s) \/ ApplyDrop(t, s) \/ ApplyAdd(t, s)
      PROVE  Untouched(d)
    BY <1>6 DEF ViewSpace, ApplyDrop, ApplyAdd
<1>7. CASE ViewState(t)
    BY <1>7 DEF ViewState
<1>8. ASSUME NEW s \in Spaces, SpaceRm(t, s) \/ \E e \in Defs : SpaceAdd(t, s, e)
      PROVE  Untouched(d)
    BY <1>8 DEF SpaceRm, SpaceAdd
<1>9. ASSUME NEW a \in Addrs, RegisterCatalog(t, a) PROVE Untouched(d)
    BY <1>9 DEF RegisterCatalog, NodeMap
<1>10. CASE RegisterCluster(t) \/ StartRuntime(t)
    BY <1>10 DEF RegisterCluster, StartRuntime
<1>11. CASE t \in Daemons /\ Restart(t)
    BY <1>11 DEF Restart
<1>12. QED
    BY <1>1, <1>2, <1>3, <1>4, <1>5, <1>6, <1>7, <1>8, <1>9, <1>10, <1>11 DEF Moves, Continue

\* A client's write only marks a table that is there.
LEMMA WriteStep ==
    ASSUME TypeOK, NEW d \in Daemons, NEW e \in Daemons, NEW s \in Spaces, ClientWrite(e, s)
    PROVE  /\ RuntimeKept(d) /\ pc'[d] = pc[d] /\ space'[d] = space[d] /\ def'[d] = def[d]
           /\ todo'[d] = todo[d] /\ view'[d] = view[d] /\ changed'[d] = changed[d]
           /\ daemons'[Coordinator][d] = daemons[Coordinator][d]
           /\ \A x \in Spaces : \/ tables'[d][x] = tables[d][x]
                                \/ tables[d][x] # "none" /\ tables'[d][x] = "data"
           /\ UNCHANGED <<catalog, cluster, coordinator_state, pc, dropped>>
BY TasksDisjoint DEF TypeOK, ClientWrite, RuntimeKept, locals, Runtimes

-------------------------------------------------------------------------------
(* The local invariant.                                                       *)

\* What the types say of one daemon.
LEMMA DaemonTypes ==
    ASSUME TypeOK, NEW d \in Daemons
    PROVE  /\ d \in Tasks /\ d \in Runtimes /\ d # Coordinator /\ RuntimeOf(d) = d /\ d \notin Admins
           /\ catalog[d] \in [Spaces -> Defs \cup {NoDef}]
           /\ tables[d] \in [Spaces -> TableStates]
           /\ view[d].spaces \in [Spaces -> Defs \cup {NoDef}]
           /\ space[d] \in Spaces /\ todo[d] \in SUBSET Spaces /\ pc[d] \in Steps
           /\ view[d].version \in Nat /\ coordinator_state[d].version \in Nat
<1>1. d \in Tasks /\ d \in Runtimes /\ d # Coordinator /\ RuntimeOf(d) = d /\ d \notin Admins
    BY TasksDisjoint DEF Tasks, Syncers, Runtimes, RuntimeOf
<1>2. view[d] \in ConfigView /\ coordinator_state[d] \in CoordinatorState
    BY <1>1 DEF TypeOK
<1>3. /\ view[d].version \in Nat /\ coordinator_state[d].version \in Nat
      /\ view[d].spaces \in [Spaces -> Defs \cup {NoDef}]
    BY <1>2 DEF ConfigView, CoordinatorState, SpaceMap
<1>4. QED
    BY <1>1, <1>3 DEF TypeOK, SpaceMap

\* A daemon that a step does not touch keeps its local invariant.
LEMMA LocalKept ==
    ASSUME NEW d \in Daemons, Local(d), Untouched(d)
    PROVE  Local(d)'
BY DEF Local, Fresh, Installed, Shelved, Trimmed, Filled, Applying, Working, Dropping, Adding,
       Untouched, RuntimeKept

\* create_space and drop_space of a sync, one lock at a time.  Neither finds what
\* would make it fail.
LEMMA LocalSpaceStep ==
    ASSUME TypeOK, NEW d \in Daemons, Local(d),
           \/ CreateStorage(d) \/ CreateCatalog(d) \/ DropCheck(d) \/ DropCatalog(d)
           \/ DropStorage(d) \/ (RecordConfigChange(d) /\ pc[d] # "register_record")
    PROVE  Local(d)' /\ pc'[d] # "idle"
<1> DEFINE c == catalog[d]
           s == space[d]
<1>0. /\ d \in Tasks /\ d \in Runtimes /\ d # Coordinator /\ RuntimeOf(d) = d /\ d \notin Admins
      /\ catalog[d] \in [Spaces -> Defs \cup {NoDef}] /\ tables[d] \in [Spaces -> TableStates]
      /\ space[d] \in Spaces /\ todo[d] \in SUBSET Spaces
    BY DaemonTypes
<1>1. CASE CreateStorage(d)
  <2>1. /\ pc[d] = "create_storage" /\ pc'[d] = "create_catalog"
        /\ tables'[d] = [tables[d] EXCEPT ![s] = IF @ = "none" THEN "empty" ELSE @]
        /\ UNCHANGED <<catalog, daemons, cluster, coordinator_state, locals>>
    BY <1>0, <1>1 DEF CreateStorage, Goto, TypeOK
  <2>2. QED
    BY <1>0, <2>1 DEF Local, Fresh, Installed, Shelved, Trimmed, Filled, Applying, Working,
       Dropping, Adding, locals, CreateSteps, DropSteps, ApplySteps, RegisterSteps
<1>2. CASE CreateCatalog(d)
  <2>1. c[s] = NoDef
    BY <1>2 DEF CreateCatalog, Local, Shelved
  <2>2. /\ pc[d] = "create_catalog" /\ pc'[d] = "create_record"
        /\ catalog'[d] = [catalog[d] EXCEPT ![s] = def[d]]
        /\ UNCHANGED <<tables, daemons, cluster, coordinator_state, locals>>
    BY <1>0, <1>2, <2>1 DEF CreateCatalog, Goto, TypeOK
  <2>3. def[d] # NoDef
    BY <2>2 DEF Local, Filled, Adding, Working, CreateSteps
  <2>4. QED
    BY <1>0, <2>2, <2>3 DEF Local, Fresh, Installed, Shelved, Trimmed, Filled, Applying, Working,
       Dropping, Adding, locals, CreateSteps, DropSteps, ApplySteps, RegisterSteps
<1>3. CASE DropCheck(d)
  <2>1. c[s] # NoDef
    BY <1>3 DEF DropCheck, Local, Shelved
  <2>2. /\ pc[d] = "drop_check" /\ pc'[d] = "drop_catalog"
        /\ UNCHANGED <<runtimes, locals>>
    BY <1>0, <1>3, <2>1 DEF DropCheck, Goto, TypeOK
  <2>3. QED
    BY <1>0, <2>1, <2>2 DEF Local, Fresh, Installed, Shelved, Trimmed, Filled, Applying, Working,
       Dropping, Adding, runtimes, locals, CreateSteps, DropSteps, ApplySteps, RegisterSteps
<1>4. CASE DropCatalog(d)
  <2>1. /\ pc[d] = "drop_catalog" /\ pc'[d] = "drop_storage"
        /\ catalog'[d] = [catalog[d] EXCEPT ![s] = NoDef]
        /\ UNCHANGED <<tables, daemons, cluster, coordinator_state, locals>>
    BY <1>0, <1>4 DEF DropCatalog, Goto, TypeOK
  <2>2. QED
    BY <1>0, <2>1 DEF Local, Fresh, Installed, Shelved, Trimmed, Filled, Applying, Working,
       Dropping, Adding, locals, CreateSteps, DropSteps, ApplySteps, RegisterSteps
<1>5. CASE DropStorage(d)
  <2>1. /\ pc[d] = "drop_storage" /\ pc'[d] = "drop_record"
        /\ tables'[d] = [tables[d] EXCEPT ![s] = "none"]
        /\ UNCHANGED <<catalog, daemons, cluster, coordinator_state, locals>>
    BY <1>0, <1>5 DEF DropStorage, Goto, TypeOK
  <2>2. QED
    BY <1>0, <2>1 DEF Local, Fresh, Installed, Shelved, Trimmed, Filled, Applying, Working,
       Dropping, Adding, locals, CreateSteps, DropSteps, ApplySteps, RegisterSteps
<1>6. CASE RecordConfigChange(d) /\ pc[d] # "register_record"
  <2>1. /\ \/ pc[d] = "create_record" /\ pc'[d] = "apply_add"
           \/ pc[d] = "drop_record" /\ def[d] = NoDef /\ pc'[d] = "apply_drop"
           \/ pc[d] = "drop_record" /\ def[d] # NoDef /\ pc'[d] = "create_storage"
        /\ UNCHANGED <<catalog, tables, daemons, cluster, locals>>
    BY <1>0, <1>6 DEF RecordConfigChange, AfterRecord, Goto, TypeOK
  <2>2. QED
    BY <1>0, <2>1 DEF Local, Fresh, Installed, Shelved, Trimmed, Filled, Applying, Working,
       Dropping, Adding, locals, CreateSteps, DropSteps, ApplySteps, RegisterSteps
<1>7. QED
    BY <1>1, <1>2, <1>3, <1>4, <1>5, <1>6

\* Reading a view changes nothing of the daemon.
LEMMA LocalViewStep ==
    ASSUME TypeOK, NEW d \in Daemons, Local(d),
           \/ ViewState(d) \/ ViewCluster(d) \/ ViewList(d) \/ DeliverView(d) \/ LoseReply(d)
           \/ \E s \in Spaces : ViewSpace(d, s)
    PROVE  Local(d)' /\ Resting(d) /\ UNCHANGED runtimes
<1>0. /\ d \in Tasks /\ d \notin Admins
    BY DaemonTypes
<1>1. /\ pc[d] \in {"idle"} \cup ViewSteps /\ pc'[d] \in {"idle", "apply_daemons"} \cup ViewSteps
      /\ UNCHANGED <<runtimes, space, def>>
  <2>1. CASE ViewState(d) \/ ViewCluster(d) \/ ViewList(d) \/ DeliverView(d) \/ LoseReply(d)
    BY <1>0, <2>1 DEF ViewState, ViewCluster, ViewList, DeliverView, LoseReply, Goto, TypeOK,
       ViewSteps, locals
  <2>2. ASSUME NEW s \in Spaces, ViewSpace(d, s)
        PROVE  /\ pc[d] \in {"idle"} \cup ViewSteps /\ pc'[d] \in {"idle"} \cup ViewSteps
               /\ UNCHANGED <<runtimes, space, def>>
    BY <1>0, <2>2 DEF ViewSpace, Goto, TypeOK, ViewSteps
  <2>3. QED
    BY <2>1, <2>2
<1>2. QED
    BY <1>1 DEF Resting, runtimes, Local, Fresh, Installed, Shelved, Trimmed, Filled, Applying, Working,
       Dropping, Adding, locals, CreateSteps, DropSteps, ApplySteps, ViewSteps, RegisterSteps

\* apply_config_view outside of create_space and drop_space.
LEMMA LocalApplyStep ==
    ASSUME TypeOK, NEW d \in Daemons, Local(d),
           \/ ApplyDaemons(d) \/ ApplyCluster(d) \/ ApplyList(d) \/ ApplyDropsDone(d)
           \/ ApplyState(d)
           \/ \E s \in Spaces : ApplyDrop(d, s) \/ ApplyAdd(d, s)
    PROVE  Local(d)'
<1>0. /\ d \in Tasks /\ d \in Runtimes /\ d # Coordinator /\ RuntimeOf(d) = d /\ d \notin Admins
      /\ catalog[d] \in [Spaces -> Defs \cup {NoDef}] /\ tables[d] \in [Spaces -> TableStates]
      /\ view[d].spaces \in [Spaces -> Defs \cup {NoDef}]
      /\ space[d] \in Spaces /\ todo[d] \in SUBSET Spaces
    BY DaemonTypes
<1>1. CASE ApplyDaemons(d)
  <2>1. /\ pc[d] = "apply_daemons" /\ pc'[d] = "apply_cluster" /\ daemons'[d] = view[d].nodes
        /\ UNCHANGED <<catalog, tables, cluster, coordinator_state, locals>>
    BY <1>0, <1>1 DEF ApplyDaemons, Goto, TypeOK
  <2>2. QED
    BY <1>0, <2>1 DEF Local, Fresh, Installed, Shelved, Trimmed, Filled, Applying, Working,
       Dropping, Adding, locals, CreateSteps, DropSteps, ApplySteps, ViewSteps, RegisterSteps
<1>2. CASE ApplyCluster(d)
  <2>1. /\ pc[d] = "apply_cluster" /\ pc'[d] = "apply_list" /\ cluster'[d] = view[d].nodes
        /\ UNCHANGED <<catalog, tables, daemons, coordinator_state, locals>>
    BY <1>0, <1>2 DEF ApplyCluster, Goto, TypeOK
  <2>2. QED
    BY <1>0, <2>1 DEF Local, Fresh, Installed, Shelved, Trimmed, Filled, Applying, Working,
       Dropping, Adding, locals, CreateSteps, DropSteps, ApplySteps, ViewSteps, RegisterSteps
<1>3. CASE ApplyList(d)
  <2>1. /\ pc[d] = "apply_list" /\ pc'[d] = "apply_drop"
        /\ todo'[d] = {s \in Spaces : catalog[d][s] # NoDef /\ view[d].spaces[s] = NoDef}
        /\ UNCHANGED <<runtimes, space, def, view>>
    BY <1>0, <1>3 DEF ApplyList, Goto, TypeOK
  <2>2. QED
    BY <1>0, <2>1 DEF runtimes, Local, Fresh, Installed, Shelved, Trimmed, Filled, Applying, Working,
       Dropping, Adding, locals, CreateSteps, DropSteps, ApplySteps, ViewSteps, RegisterSteps
<1>4. CASE ApplyDropsDone(d)
  <2>1. /\ pc[d] = "apply_drop" /\ pc'[d] = "apply_add" /\ todo[d] = {}
        /\ todo'[d] = {s \in Spaces : view[d].spaces[s] # NoDef}
        /\ UNCHANGED <<runtimes, space, def, view>>
    BY <1>0, <1>4 DEF ApplyDropsDone, Goto, TypeOK
  <2>2. \A s \in Spaces : view[d].spaces[s] = NoDef => catalog[d][s] = NoDef
    BY <2>1 DEF Local, Trimmed, Dropping, Working, CreateSteps, DropSteps
  <2>3. QED
    BY <1>0, <2>1, <2>2 DEF runtimes, Local, Fresh, Installed, Shelved, Trimmed, Filled, Applying, Working,
       Dropping, Adding, locals, CreateSteps, DropSteps, ApplySteps, ViewSteps, RegisterSteps
<1>5. CASE ApplyState(d)
  <2>1. /\ pc[d] = "apply_add" /\ pc'[d] = "idle"
        /\ UNCHANGED <<catalog, tables, daemons, cluster, locals>>
    BY <1>0, <1>5 DEF ApplyState, Goto, TypeOK
  <2>2. QED
    BY <1>0, <2>1 DEF Local, Fresh, Installed, Shelved, Trimmed, Filled, Applying, Working,
       Dropping, Adding, locals, CreateSteps, DropSteps, ApplySteps, ViewSteps, RegisterSteps
<1>6. ASSUME NEW s \in Spaces, ApplyDrop(d, s) PROVE Local(d)'
  <2>1. /\ pc[d] = "apply_drop" /\ pc'[d] = "drop_check" /\ s \in todo[d]
        /\ todo'[d] = todo[d] \ {s} /\ space'[d] = s /\ def'[d] = NoDef
        /\ UNCHANGED <<runtimes, view>>
    BY <1>0, <1>6 DEF ApplyDrop, Goto, TypeOK
  <2>2. QED
    BY <1>0, <2>1 DEF runtimes, Local, Fresh, Installed, Shelved, Trimmed, Filled, Applying, Working,
       Dropping, Adding, locals, CreateSteps, DropSteps, ApplySteps, ViewSteps, RegisterSteps
<1>7. ASSUME NEW s \in Spaces, ApplyAdd(d, s) PROVE Local(d)'
  <2>1. CASE catalog[d][s] = view[d].spaces[s]
    <3>1. /\ pc[d] = "apply_add" /\ pc'[d] = "apply_add" /\ s \in todo[d]
          /\ todo'[d] = todo[d] \ {s} /\ UNCHANGED <<runtimes, view, space, def>>
        BY <1>0, <1>7, <2>1 DEF ApplyAdd, TypeOK
    <3>2. QED
        BY <1>0, <2>1, <3>1 DEF runtimes, Local, Fresh, Installed, Shelved, Trimmed, Filled, Applying, Working,
       Dropping, Adding, locals, CreateSteps, DropSteps, ApplySteps, ViewSteps, RegisterSteps
  <2>2. CASE catalog[d][s] # view[d].spaces[s]
    <3>1. /\ pc[d] = "apply_add" /\ s \in todo[d]
          /\ pc'[d] = IF catalog[d][s] = NoDef THEN "create_storage" ELSE "drop_check"
          /\ todo'[d] = todo[d] \ {s} /\ space'[d] = s /\ def'[d] = view[d].spaces[s]
          /\ UNCHANGED <<runtimes, view>>
        BY <1>0, <1>7, <2>2 DEF ApplyAdd, Goto, TypeOK
    <3>2. view[d].spaces[s] # NoDef
        BY <3>1 DEF Local, Filled, Adding
    <3>3. Shelved(d)' /\ Filled(d)'
        BY <1>0, <3>1, <3>2 DEF runtimes, Local, Fresh, Installed, Shelved, Trimmed, Filled, Applying, Working,
       Dropping, Adding, locals, CreateSteps, DropSteps, ApplySteps, ViewSteps, RegisterSteps
    <3>4. Fresh(d)' /\ Installed(d)' /\ Trimmed(d)'
        BY <1>0, <3>1, <3>2 DEF runtimes, Local, Fresh, Installed, Shelved, Trimmed, Filled, Applying, Working,
       Dropping, Adding, locals, CreateSteps, DropSteps, ApplySteps, ViewSteps, RegisterSteps
    <3>5. QED
        BY <3>3, <3>4 DEF Local
  <2>3. QED
    BY <2>1, <2>2
<1>8. QED
    BY <1>1, <1>2, <1>3, <1>4, <1>5, <1>6, <1>7

\* Registration, the start of the runtime and a restart.
LEMMA LocalBootStep ==
    ASSUME TypeOK, NEW d \in Daemons, Local(d),
           \/ \E a \in Addrs : RegisterCatalog(d, a)
           \/ RegisterCluster(d) \/ (RecordConfigChange(d) /\ pc[d] = "register_record")
           \/ StartRuntime(d) \/ Restart(d)
    PROVE  Local(d)'
<1>0. /\ d \in Tasks /\ d \in Runtimes /\ d # Coordinator /\ RuntimeOf(d) = d /\ d \notin Admins
      /\ Coordinator \in Runtimes
    BY DaemonTypes DEF Runtimes
<1>1. CASE Restart(d)
  <2>1. /\ pc'[d] = "boot" /\ catalog'[d] = NoSpaces /\ tables'[d] = NoTables
        /\ coordinator_state'[d] = InitialState
    BY <1>0, <1>1 DEF Restart, TypeOK
  <2>2. coordinator_state'[d].version = 0
    BY <2>1 DEF InitialState
  <2>3. QED
    BY <1>0, <2>1, <2>2 DEF NoSpaces, NoTables, Local, Fresh, Installed, Shelved, Trimmed, Filled, Applying, Working,
       Dropping, Adding, locals, CreateSteps, DropSteps, ApplySteps, ViewSteps, RegisterSteps
<1>2. CASE ~Restart(d)
  <2>1. /\ pc[d] \in RegisterSteps /\ pc'[d] \in RegisterSteps \cup {"idle"}
        /\ catalog' = catalog /\ tables' = tables /\ coordinator_state'[d] = coordinator_state[d]
    <3>1. ASSUME NEW a \in Addrs, RegisterCatalog(d, a)
          PROVE  /\ pc[d] \in RegisterSteps /\ pc'[d] \in RegisterSteps \cup {"idle"}
                 /\ catalog' = catalog /\ tables' = tables
                 /\ coordinator_state'[d] = coordinator_state[d]
        BY <1>0, <3>1 DEF RegisterCatalog, Goto, TypeOK, RegisterSteps
    <3>2. CASE RegisterCluster(d)
        BY <1>0, <3>2 DEF RegisterCluster, Goto, TypeOK, RegisterSteps
    <3>3. CASE RecordConfigChange(d) /\ pc[d] = "register_record"
        BY <1>0, <3>3 DEF RecordConfigChange, AfterRecord, Goto, TypeOK, RegisterSteps
    <3>4. CASE StartRuntime(d)
        BY <1>0, <3>4 DEF StartRuntime, Goto, TypeOK, RegisterSteps
    <3>5. QED
        BY <1>2, <3>1, <3>2, <3>3, <3>4
  <2>2. catalog[d] = NoSpaces /\ tables[d] = NoTables /\ coordinator_state[d].version = 0
    BY <2>1 DEF Local, Fresh
  <2>3. \A s \in Spaces : catalog'[d][s] = NoDef /\ tables'[d][s] = "none"
    BY <2>1, <2>2 DEF NoSpaces, NoTables
  <2>4. QED
    BY <2>1, <2>2, <2>3 DEF Local, Fresh, Installed, Shelved, Trimmed, Filled, Applying, Working,
       Dropping, Adding, locals, CreateSteps, DropSteps, ApplySteps, ViewSteps, RegisterSteps
<1>3. QED
    BY <1>1, <1>2

\* The daemon's own steps keep its local invariant.
LEMMA LocalOwnStep ==
    ASSUME TypeOK, NEW d \in Daemons, Local(d), Moves(d)
    PROVE  Local(d)'
<1>1. ~\E s \in Spaces : SpaceRm(d, s) \/ \E e \in Defs : SpaceAdd(d, s, e)
    BY DaemonTypes DEF SpaceRm, SpaceAdd
<1>2. QED
    BY <1>1, LocalSpaceStep, LocalViewStep, LocalApplyStep, LocalBootStep DEF Moves, Continue

\* A client's write to a daemon keeps its local invariant.
LEMMA LocalWriteStep ==
    ASSUME TypeOK, NEW d \in Daemons, Local(d), NEW e \in Daemons, NEW s \in Spaces, ClientWrite(e, s)
    PROVE  Local(d)'
<1>1. /\ RuntimeKept(d) /\ pc'[d] = pc[d] /\ space'[d] = space[d] /\ def'[d] = def[d]
      /\ todo'[d] = todo[d] /\ view'[d] = view[d]
      /\ \A x \in Spaces : (tables'[d][x] = "none") <=> (tables[d][x] = "none")
    BY WriteStep
<1>2. pc[d] \in RegisterSteps => tables'[d] = tables[d]
  <2>1. CASE e = d
    BY <2>1 DEF ClientWrite, Started
  <2>2. CASE e # d
    BY <2>2, DaemonTypes DEF ClientWrite, TypeOK
  <2>3. QED
    BY <2>1, <2>2
<1>3. space[d] \in Spaces
    BY DaemonTypes
<1>4. QED
    BY <1>1, <1>2, <1>3 DEF Local, Fresh, Installed, Shelved, Trimmed, Filled, Applying, Working,
       Dropping, Adding, RuntimeKept

\* Every step keeps the local invariant of every daemon.
LEMMA LocalStep ==
    ASSUME TypeOK, TaskSteps, Requests = {}, NEW d \in Daemons, Local(d), [Next]_vars
    PROVE  Local(d)'
<1>1. CASE UNCHANGED vars
    BY <1>1, LocalKept DEF vars, runtimes, locals, Untouched, RuntimeKept
<1>2. ASSUME NEW t \in Tasks, Moves(t) PROVE Local(d)'
  <2>1. CASE t = d
    BY <1>2, <2>1, LocalOwnStep
  <2>2. CASE t # d
    BY <1>2, <2>2, OthersStep, LocalKept
  <2>3. QED
    BY <2>1, <2>2
<1>3. QED
    BY <1>1, <1>2, StepSplit, LocalWriteStep

-------------------------------------------------------------------------------
(* SyncedDaemonIsExact.                                                       *)

\* What a step does to what config_view reads: it is recorded, or waits to be
\* recorded, or nothing changes.
SourceMoves ==
    \/ Version' = Version + 1
    \/ Version' = Version /\ ~Quiet'
    \/ SourceKept /\ (Quiet' => Quiet)

\* Every step moves the coordinator's source in one of these ways.
LEMMA SourceStep == TypeOK /\ TaskSteps /\ [Next]_vars => SourceMoves
<1> SUFFICES ASSUME TypeOK, TaskSteps, [Next]_vars PROVE SourceMoves
    OBVIOUS
<1>0. Coordinator \in Runtimes
    BY DEF Runtimes
<1>s. ASSUME NEW t \in Tasks
      PROVE  /\ t \in Admins => RuntimeOf(t) = Coordinator
             /\ t \notin Admins => RuntimeOf(t) # Coordinator
             /\ RuntimeOf(t) \in Runtimes /\ space[t] \in Spaces
    BY TasksDisjoint, DaemonOfType DEF Tasks, Syncers, Runtimes, RuntimeOf, TypeOK
<1>1. ASSUME NEW t \in Tasks, Moves(t) PROVE SourceMoves
  <2>0. /\ t \in Admins => RuntimeOf(t) = Coordinator
        /\ t \notin Admins => RuntimeOf(t) # Coordinator
        /\ RuntimeOf(t) \in Runtimes /\ space[t] \in Spaces
    BY <1>s
  <2>t. t \in Admins => pc[t] \notin RegisterSteps \cup ViewSteps \cup ApplySteps
    BY DEF TaskSteps, RegisterSteps, ViewSteps, ApplySteps, CreateSteps, DropSteps
  <2> USE <1>0, <2>0 DEF TypeOK, Goto, runtimes, locals, SourceMoves, SourceKept, Version
  <2> HIDE DEF RuntimeOf, Runtimes, Tasks
  <2>1. CASE CreateStorage(t)
    <3>1. Quiet' => Quiet
        BY <2>1 DEF CreateStorage, Quiet, Pending
    <3>2. QED
        BY <2>1, <3>1 DEF CreateStorage
  <2>2. CASE CreateCatalog(t)
    <3>1. CASE t \in Admins /\ pc'[t] = "create_record"
        BY <2>2, <3>1 DEF CreateCatalog, Quiet, Pending
    <3>2. CASE ~(t \in Admins /\ pc'[t] = "create_record")
      <4>1. Quiet' => Quiet
        BY <2>2, <3>2 DEF CreateCatalog, Quiet, Pending
      <4>2. QED
        BY <2>2, <3>2, <4>1 DEF CreateCatalog
    <3>3. QED
        BY <3>1, <3>2
  <2>3. CASE DropCheck(t)
    <3>1. Quiet' => Quiet
        BY <2>3 DEF DropCheck, Quiet, Pending
    <3>2. QED
        BY <2>3, <3>1 DEF DropCheck
  <2>4. CASE DropCatalog(t)
    <3>1. CASE t \in Admins
        BY <2>4, <3>1 DEF DropCatalog, Quiet, Pending
    <3>2. CASE t \notin Admins
      <4>1. Quiet' => Quiet
        BY <2>4, <3>2 DEF DropCatalog, Quiet, Pending
      <4>2. QED
        BY <2>4, <3>2, <4>1 DEF DropCatalog
    <3>3. QED
        BY <3>1, <3>2
  <2>5. CASE DropStorage(t)
    <3>1. Quiet' => Quiet
        BY <2>5 DEF DropStorage, Quiet, Pending
    <3>2. QED
        BY <2>5, <3>1 DEF DropStorage
  <2>6. CASE RecordConfigChange(t)
    <3>1. CASE t \in Admins \/ pc[t] = "register_record"
        BY <2>6, <3>1 DEF RecordConfigChange
    <3>2. CASE t \notin Admins /\ pc[t] # "register_record"
      <4>1. Quiet' => Quiet
        BY <2>6, <3>2 DEF RecordConfigChange, Quiet, Pending
      <4>2. QED
        BY <2>6, <3>2, <4>1 DEF RecordConfigChange
    <3>3. QED
        BY <3>1, <3>2
  <2>7. CASE \/ ViewState(t) \/ ViewCluster(t) \/ ViewList(t) \/ DeliverView(t) \/ LoseReply(t)
             \/ ApplyList(t) \/ ApplyDropsDone(t)
    <3>1. Quiet' => Quiet
        BY <2>7 DEF ViewState, ViewCluster, ViewList, DeliverView, LoseReply, ApplyList,
           ApplyDropsDone, Quiet, Pending
    <3>2. QED
        BY <2>7, <3>1 DEF ViewState, ViewCluster, ViewList, DeliverView, LoseReply, ApplyList,
           ApplyDropsDone
  <2>8. ASSUME NEW s \in Spaces, ViewSpace(t, s) \/ ApplyDrop(t, s) \/ ApplyAdd(t, s)
        PROVE  SourceMoves
    <3>1. Quiet' => Quiet
        BY <2>8 DEF ViewSpace, ApplyDrop, ApplyAdd, Quiet, Pending
    <3>2. QED
        BY <2>8, <3>1 DEF ViewSpace, ApplyDrop, ApplyAdd
  <2>9. CASE ApplyDaemons(t) \/ ApplyCluster(t) \/ ApplyState(t)
    <3>1. Quiet' => Quiet
        BY <2>9 DEF ApplyDaemons, ApplyCluster, ApplyState, Quiet, Pending
    <3>2. t \notin Admins
        BY <2>9, <2>t DEF ApplyDaemons, ApplyCluster, ApplyState, ApplySteps
    <3>3. QED
        BY <2>9, <3>1, <3>2 DEF ApplyDaemons, ApplyCluster, ApplyState
  <2>10. ASSUME NEW s \in Spaces, SpaceRm(t, s) \/ \E e \in Defs : SpaceAdd(t, s, e)
         PROVE  SourceMoves
    <3>1. Quiet' => Quiet
        BY <2>10 DEF SpaceRm, SpaceAdd, Quiet, Pending
    <3>2. QED
        BY <2>10, <3>1 DEF SpaceRm, SpaceAdd
  <2>11. ASSUME NEW a \in Addrs, RegisterCatalog(t, a) PROVE SourceMoves
    <3>1. Quiet' => Quiet
        BY <2>11 DEF RegisterCatalog, Quiet, Pending
    <3>2. QED
        BY <2>11, <3>1 DEF RegisterCatalog
  <2>12. CASE RegisterCluster(t)
    <3>1. CASE pc'[t] = "register_record"
        BY <2>12, <3>1 DEF RegisterCluster, Quiet, Pending
    <3>2. CASE pc'[t] # "register_record"
      <4>1. Quiet' => Quiet
        BY <2>12 DEF RegisterCluster, Quiet, Pending
      <4>2. cluster[Coordinator][t] = addr[t] /\ cluster[Coordinator] \in NodeMap
        BY <2>12, <3>2 DEF RegisterCluster, Tasks, Syncers
      <4>3. cluster'[Coordinator] = cluster[Coordinator]
        BY <2>12, <4>2 DEF RegisterCluster, NodeMap
      <4>4. QED
        BY <2>12, <4>1, <4>3 DEF RegisterCluster
    <3>3. QED
        BY <3>1, <3>2
  <2>13. CASE StartRuntime(t)
    <3>1. Quiet' => Quiet
        BY <2>13 DEF StartRuntime, Quiet, Pending
    <3>2. t # Coordinator
        BY TasksDisjoint DEF Tasks, Syncers
    <3>3. QED
        BY <2>13, <3>1, <3>2 DEF StartRuntime
  <2>14. CASE t \in Daemons /\ Restart(t)
    <3>1. t # Coordinator
        BY TasksDisjoint DEF Tasks, Syncers
    <3>2. SourceKept
        BY <2>14, <3>1 DEF Restart
    <3>3. ASSUME NEW u \in Tasks, Pending(u) PROVE Pending(u)'
      <4>1. u # t
        BY <2>14, <3>3, TasksDisjoint DEF Restart, Started, Pending, RegisterSteps
      <4>2. u \notin Requests
        BY <3>3, TasksDisjoint DEF Pending, TaskSteps, RegisterSteps
      <4>3. pc'[u] = pc[u]
        BY <2>14, <4>1, <4>2 DEF Restart
      <4>4. QED
        BY <3>3, <4>3 DEF Pending
    <3>4. QED
        BY <3>2, <3>3 DEF Quiet
  <2>15. QED
    BY <1>1, <2>1, <2>2, <2>3, <2>4, <2>5, <2>6, <2>7, <2>8, <2>9, <2>10, <2>11, <2>12, <2>13,
       <2>14 DEF Moves, Continue
<1>2. ASSUME NEW d \in Daemons, NEW s \in Spaces, ClientWrite(d, s) PROVE SourceMoves
    BY <1>2 DEF ClientWrite, SourceMoves, SourceKept, Version, Quiet, Pending
<1>3. CASE UNCHANGED vars
    BY <1>3 DEF vars, runtimes, SourceMoves, SourceKept, Version, Quiet, Pending
<1>4. QED
    BY <1>1, <1>2, <1>3, StepSplit

\* The coordinator's version never goes back.
LEMMA VersionGrows ==
    ASSUME TypeOK, SourceMoves
    PROVE  /\ Version \in Nat /\ Version' \in Nat /\ Version' >= Version
<1>1. Version \in Nat
    BY DEF TypeOK, Version, Runtimes, CoordinatorState
<1>2. Version' = Version + 1 \/ Version' = Version
    BY DEF SourceMoves, SourceKept, Version
<1>3. QED
    BY <1>1, <1>2

\* A daemon that starts its runtime has made the coordinator record a change, in
\* this life or in an earlier one.
LEMMA NumberedStep ==
    ASSUME TypeOK, TaskSteps, Requests = {}, NEW d \in Daemons, Numbered(d), [Next]_vars
    PROVE  Numbered(d)'
<1>0. SourceMoves /\ Version \in Nat /\ Version' \in Nat /\ Version' >= Version
    BY SourceStep, VersionGrows
<1>1. CASE /\ pc'[d] = pc[d] /\ changed'[d] = changed[d]
           /\ daemons'[Coordinator][d] = daemons[Coordinator][d]
    BY <1>0, <1>1 DEF Numbered
<1>2. CASE Moves(d)
  <2>0. d \in Tasks /\ d # Coordinator /\ Coordinator \in Runtimes /\ d \notin Admins /\ RuntimeOf(d) = d
    BY DaemonTypes DEF Runtimes
  <2>1. ASSUME NEW a \in Addrs, RegisterCatalog(d, a) PROVE Numbered(d)'
    <3>1. /\ pc[d] = "boot" /\ pc'[d] = "register_cluster"
          /\ changed'[d] = (daemons[Coordinator][d] # a)
        BY <2>0, <2>1 DEF RegisterCatalog, Goto, TypeOK
    <3>2. a # NoAddr
        BY AbsentValues
    <3>3. QED
      <4>1. CASE daemons[Coordinator][d] = a
        <5>1. Version >= 1
            BY <3>1, <3>2, <4>1 DEF Numbered
        <5>2. Version' >= 1
            BY <1>0, <5>1
        <5>3. QED
            BY <3>1, <5>2 DEF Numbered
      <4>2. CASE daemons[Coordinator][d] # a
        <5>1. changed'[d]
            BY <3>1, <4>2
        <5>2. QED
            BY <3>1, <5>1 DEF Numbered
      <4>3. QED
        BY <4>1, <4>2
  <2>2. CASE RegisterCluster(d)
    <3>1. /\ pc[d] = "register_cluster" /\ pc'[d] \in {"register_record", "start"}
          /\ changed[d] => pc'[d] = "register_record"
        BY <2>0, <2>2 DEF RegisterCluster, Goto, TypeOK
    <3>2. QED
        BY <1>0, <3>1 DEF Numbered
  <2>3. CASE RecordConfigChange(d) /\ pc[d] = "register_record"
    <3>1. pc'[d] = "start" /\ Version' = Version + 1
        BY <2>0, <2>3 DEF RecordConfigChange, AfterRecord, Goto, TypeOK, Version
    <3>2. QED
        BY <1>0, <3>1 DEF Numbered
  <2>4. CASE pc[d] \notin {"boot", "register_cluster", "register_record"}
    <3>1. Version' >= 1
        BY <1>0, <2>4 DEF Numbered
    <3>2. QED
        BY <3>1 DEF Numbered
  <2>5. CASE pc[d] \in {"boot", "register_cluster", "register_record"}
    <3>1. ~Continue(d) \/ RecordConfigChange(d)
        BY <2>5 DEF Continue, CreateStorage, CreateCatalog, DropCheck, DropCatalog, DropStorage,
           ViewCluster, ViewList, DeliverView, ApplyDaemons, ApplyCluster, ApplyList,
           ApplyDropsDone, ApplyState, ViewSpace, ApplyDrop, ApplyAdd
    <3>2. ~ViewState(d) /\ ~LoseReply(d) /\ ~StartRuntime(d) /\ ~Restart(d)
        BY <2>5 DEF ViewState, LoseReply, StartRuntime, Restart, Started, RegisterSteps
    <3>3. RecordConfigChange(d) => pc[d] = "register_record"
        BY <2>5 DEF RecordConfigChange
    <3>4. ~\E s \in Spaces : SpaceRm(d, s) \/ \E e \in Defs : SpaceAdd(d, s, e)
        BY <2>0 DEF SpaceRm, SpaceAdd
    <3>5. QED
        BY <1>2, <2>1, <2>2, <2>3, <3>1, <3>2, <3>3, <3>4 DEF Moves
  <2>6. QED
    BY <2>4, <2>5
<1>3. ASSUME NEW t \in Tasks, t # d, Moves(t) PROVE Numbered(d)'
    BY <1>1, <1>3, OthersStep DEF Untouched
<1>4. ASSUME NEW e \in Daemons, NEW s \in Spaces, ClientWrite(e, s) PROVE Numbered(d)'
    BY <1>1, <1>4, WriteStep
<1>5. CASE UNCHANGED vars
    BY <1>1, <1>5 DEF vars, runtimes, locals
<1>6. QED
    BY <1>2, <1>3, <1>4, <1>5, StepSplit

\* A daemon between two syncs whose runtime a step leaves alone stays in step.
LEMMA SyncedKept ==
    ASSUME TypeOK, NEW d \in Daemons, Synced(d), SourceMoves, RuntimeKept(d), Resting(d)
    PROVE  Synced(d)'
<1>0. Version \in Nat /\ Version' \in Nat /\ Version' >= Version /\ coordinator_state[d].version \in Nat
    BY VersionGrows, DaemonTypes
<1>1. coordinator_state[d].version <= Version /\ coordinator_state'[d].version = coordinator_state[d].version
    BY DEF Synced, RuntimeKept
<1>2. coordinator_state'[d].version <= Version'
    BY <1>0, <1>1
<1>3. ASSUME coordinator_state'[d].version = Version', Quiet' PROVE Mirrors(d)'
  <2>1. Version' # Version + 1
    BY <1>0, <1>1, <1>3
  <2>2. SourceKept /\ Quiet
    BY <1>3, <2>1 DEF SourceMoves
  <2>3. Mirrors(d)
    BY <1>1, <1>3, <2>2 DEF Synced, SourceKept, Version
  <2>4. QED
    BY <2>2, <2>3 DEF Mirrors, SourceKept, RuntimeKept
<1>4. QED
    BY <1>2, <1>3 DEF Synced

\* The last step of an application, after which the daemon is what the view says,
\* and the others.
LEMMA SyncedStep ==
    ASSUME IInv, Requests = {}, NEW d \in Daemons, Local(d), Numbered(d), Synced(d), [Next]_vars
    PROVE  Synced(d)'
<1>0. /\ TypeOK /\ TaskSteps /\ SourceMoves
      /\ d \in Tasks /\ d \in Runtimes /\ d # Coordinator /\ d \notin Admins /\ RuntimeOf(d) = d
      /\ Version \in Nat /\ Version' \in Nat /\ Version' >= Version
    BY SourceStep, VersionGrows, DaemonTypes DEF IInv
<1>1. CASE Moves(d)
  <2>1. CASE ApplyState(d)
    <3>1. /\ pc[d] = "apply_add" /\ todo[d] = {}
          /\ coordinator_state'[d].version = view[d].version
          /\ UNCHANGED <<catalog, daemons, cluster, view>>
        BY <1>0, <2>1 DEF ApplyState, TypeOK, locals
    <3>2. Version' = Version /\ (Quiet' => Quiet)
      <4>1. Version' = Version
        BY <1>0, <2>1 DEF ApplyState, TypeOK, Version
      <4>2. QED
        BY <2>1, <4>1 DEF ApplyState, Goto, Quiet, Pending, TypeOK, IInv
    <3>3. HasLabel(d)
        BY <3>1 DEF HasLabel, Syncers, RegisterSteps
    <3>4. view[d].version <= Version
        BY <3>3 DEF IInv, LabelsBehind, Syncers, Version
    <3>5. catalog[d] = view[d].spaces
      <4>1. \A s \in Spaces : catalog[d][s] = view[d].spaces[s]
        BY <3>1 DEF Local, Filled, Adding, Working, CreateSteps, DropSteps
      <4>2. /\ catalog[d] \in [Spaces -> Defs \cup {NoDef}]
            /\ view[d].spaces \in [Spaces -> Defs \cup {NoDef}]
        BY <1>0, DaemonTypes
      <4>3. QED
        BY <4>1, <4>2
    <3>6. daemons[d] = view[d].nodes /\ cluster[d] = view[d].nodes
        BY <3>1 DEF Local, Installed, Applying, ApplySteps
    <3>7. ASSUME view[d].version = Version, Quiet PROVE Mirrors(d)
      <4>1. ReadSoFar(d)
        BY <3>3, <3>7 DEF IInv, CurrentSoFar, Labelled, Version, Syncers
      <4>2. view[d].nodes = cluster[Coordinator] /\ view[d].spaces = catalog[Coordinator]
        BY <3>1, <4>1 DEF ReadSoFar, ViewSteps
      <4>3. QED
        BY <3>5, <3>6, <4>2 DEF Mirrors
    <3>8. Mirrors(d) => Mirrors(d)'
        BY <3>1 DEF Mirrors
    <3>9. QED
        BY <3>1, <3>2, <3>4, <3>7, <3>8 DEF Synced
  <2>2. CASE StartRuntime(d)
    <3>1. pc[d] = "start" /\ coordinator_state' = coordinator_state
        BY <2>2 DEF StartRuntime
    <3>2. coordinator_state[d].version = 0 /\ Version >= 1
        BY <3>1 DEF Local, Fresh, Numbered, RegisterSteps
    <3>3. QED
        BY <1>0, <3>1, <3>2 DEF Synced, Version
  <2>3. CASE \/ ViewState(d) \/ ViewCluster(d) \/ ViewList(d) \/ DeliverView(d) \/ LoseReply(d)
             \/ \E s \in Spaces : ViewSpace(d, s)
    <3>1. Resting(d) /\ UNCHANGED runtimes
        BY <1>0, <2>3, LocalViewStep
    <3>2. RuntimeKept(d)
        BY <3>1 DEF RuntimeKept, runtimes
    <3>3. QED
        BY <1>0, <3>1, <3>2, SyncedKept
  <2>4. ASSUME \/ CreateStorage(d) \/ CreateCatalog(d) \/ DropCheck(d) \/ DropCatalog(d)
               \/ DropStorage(d) \/ (RecordConfigChange(d) /\ pc[d] # "register_record")
        PROVE  ~Resting(d)'
    <3>1. pc'[d] # "idle"
        BY <1>0, <2>4, LocalSpaceStep
    <3>2. pc'[d] \notin ViewSteps
        BY <1>0, <2>4 DEF CreateStorage, CreateCatalog, DropCheck, DropCatalog, DropStorage,
           RecordConfigChange, AfterRecord, Goto, TypeOK, ViewSteps
    <3>3. QED
        BY <3>1, <3>2 DEF Resting
  <2>5. ASSUME \/ ApplyDaemons(d) \/ ApplyCluster(d) \/ ApplyList(d) \/ ApplyDropsDone(d)
               \/ \E s \in Spaces : ApplyDrop(d, s) \/ ApplyAdd(d, s)
        PROVE  ~Resting(d)'
    BY <1>0, <2>5 DEF ApplyDaemons, ApplyCluster, ApplyList, ApplyDropsDone, ApplyDrop, ApplyAdd,
       Goto, TypeOK, Resting, ViewSteps
  <2>6. ASSUME \/ \E a \in Addrs : RegisterCatalog(d, a)
               \/ RegisterCluster(d) \/ (RecordConfigChange(d) /\ pc[d] = "register_record")
               \/ Restart(d)
        PROVE  ~Resting(d)'
    BY <1>0, <2>6 DEF RegisterCatalog, RegisterCluster, RecordConfigChange, AfterRecord, Restart,
       Goto, TypeOK, Resting, ViewSteps
  <2>7. ~\E s \in Spaces : SpaceRm(d, s) \/ \E e \in Defs : SpaceAdd(d, s, e)
    BY <1>0 DEF SpaceRm, SpaceAdd
  <2>8. ~Resting(d)' => Synced(d)'
    BY DEF Synced
  <2>9. QED
    BY <1>1, <2>1, <2>2, <2>3, <2>4, <2>5, <2>6, <2>7, <2>8 DEF Moves, Continue
<1>2. ASSUME RuntimeKept(d), pc'[d] = pc[d] PROVE Synced(d)'
  <2>1. CASE Resting(d)
    BY <1>0, <1>2, <2>1, SyncedKept
  <2>2. CASE ~Resting(d)
    BY <1>2, <2>2 DEF Synced, Resting
  <2>3. QED
    BY <2>1, <2>2
<1>3. ASSUME NEW t \in Tasks, t # d, Moves(t) PROVE Synced(d)'
    BY <1>0, <1>2, <1>3, OthersStep DEF Untouched
<1>4. ASSUME NEW e \in Daemons, NEW s \in Spaces, ClientWrite(e, s) PROVE Synced(d)'
    BY <1>0, <1>2, <1>4, WriteStep
<1>5. CASE UNCHANGED vars
    BY <1>2, <1>5 DEF vars, runtimes, locals, RuntimeKept
<1>6. QED
    BY <1>1, <1>3, <1>4, <1>5, StepSplit

\* The invariant holds initially: every daemon is about to boot.
LEMMA LocalInit == Init => \A d \in Daemons : Local(d) /\ Numbered(d) /\ Synced(d) /\ Tracked(d)
<1> SUFFICES ASSUME Init, NEW d \in Daemons PROVE Local(d) /\ Numbered(d) /\ Synced(d) /\ Tracked(d)
    OBVIOUS
<1>0. d \in Tasks /\ d \in Runtimes /\ Coordinator \in Runtimes
    BY DEF Tasks, Syncers, Runtimes
<1>1. /\ pc[d] = "boot" /\ catalog[d] = NoSpaces /\ tables[d] = NoTables
      /\ coordinator_state[d].version = 0 /\ daemons[Coordinator][d] = NoAddr
      /\ view[d].spaces = NoSpaces
    BY <1>0 DEF Init, InitialState, NoNodes, NoView
<1>2. Local(d) /\ Numbered(d) /\ Synced(d)
    BY <1>1 DEF Local, Fresh, Installed, Shelved, Trimmed, Filled, Applying, Working, Dropping,
       Adding, Numbered, Synced, Resting, CreateSteps, DropSteps, ApplySteps, ViewSteps,
       RegisterSteps, NoSpaces, NoTables
<1>3. Tracked(d)
    BY <1>1 DEF Tracked, Applying, CreateSteps, DropSteps, ApplySteps, NoSpaces
<1>4. QED
    BY <1>2, <1>3

\* Without a refresh that races it, the loop can be trusted: a daemon between two syncs
\* whose version is the coordinator's, while no change waits to be recorded, has the
\* coordinator's spaces and nodes and a table for each space, whatever apply_config_view
\* had to drop, create and redefine, whatever was lost and restarted on the way, and
\* although the changes it makes are themselves recorded in its version until the last
\* step replaces it.
THEOREM SyncedDaemonsAreExact ==
    ASSUME Requests = {}
    PROVE  Spec => []SyncedDaemonIsExact
<1>1. Init => LoopInv
    BY InductiveInit, LocalInit DEF LoopInv
<1>2. LoopInv /\ [Next]_vars => LoopInv'
  <2> SUFFICES ASSUME LoopInv, [Next]_vars PROVE LoopInv'
    OBVIOUS
  <2>1. IInv /\ TypeOK /\ TaskSteps
    BY DEF LoopInv, IInv
  <2>2. IInv'
    BY <2>1, InductiveStep
  <2>3. ASSUME NEW d \in Daemons PROVE (Local(d) /\ Numbered(d) /\ Synced(d))'
    <3>1. Local(d) /\ Numbered(d) /\ Synced(d)
        BY DEF LoopInv
    <3>2. QED
        BY <2>1, <3>1, LocalStep, NumberedStep, SyncedStep
  <2>4. QED
    BY <2>2, <2>3 DEF LoopInv
<1>3. LoopInv => SyncedDaemonIsExact
  <2> SUFFICES ASSUME LoopInv, NEW d \in Daemons, pc[d] = "idle", Quiet,
                      coordinator_state[d].version = coordinator_state[Coordinator].version
               PROVE  Mirrors(d) /\ Stocked(d)
    BY DEF SyncedDaemonIsExact
  <2>1. Mirrors(d)
    BY DEF LoopInv, Synced, Resting, Version
  <2>2. Stocked(d)
    BY DEF LoopInv, Local, Shelved, Stocked
  <2>3. QED
    BY <2>1, <2>2
<1>4. QED
    BY <1>1, <1>2, <1>3, PTL DEF Spec

-------------------------------------------------------------------------------
(* KeepsUndroppedData.                                                        *)

\* A space that was never dropped only ever appeared in the coordinator's catalog.
CatalogMoves ==
    /\ dropped \subseteq dropped'
    /\ \A s \in Spaces \ dropped' :
          catalog'[Coordinator][s] = catalog[Coordinator][s] \/ catalog[Coordinator][s] = NoDef

\* Every step moves the coordinator's catalog this way.
LEMMA CatalogStep ==
    ASSUME TypeOK, [Next]_vars
    PROVE  CatalogMoves
<1>0. Coordinator \in Runtimes /\ Coordinator \notin Daemons
    BY TasksDisjoint DEF Runtimes
<1>1. ASSUME NEW t \in Tasks, Moves(t) PROVE CatalogMoves
  <2>0. /\ t \in Admins => RuntimeOf(t) = Coordinator
        /\ t \notin Admins => RuntimeOf(t) # Coordinator
        /\ RuntimeOf(t) \in Runtimes /\ space[t] \in Spaces /\ catalog[Coordinator] \in SpaceMap
    BY <1>0, TasksDisjoint, DaemonOfType DEF Tasks, Syncers, Runtimes, RuntimeOf, TypeOK
  <2>1. CASE CreateCatalog(t)
    BY <1>0, <2>0, <2>1 DEF CreateCatalog, CatalogMoves, TypeOK, SpaceMap
  <2>2. CASE DropCatalog(t)
    BY <1>0, <2>0, <2>2 DEF DropCatalog, CatalogMoves, TypeOK, SpaceMap
  <2>3. CASE t \in Daemons /\ Restart(t)
    BY <1>0, <2>3 DEF Restart, CatalogMoves, TypeOK
  <2>4. CASE ~CreateCatalog(t) /\ ~DropCatalog(t) /\ ~(t \in Daemons /\ Restart(t))
    <3>1. catalog' = catalog /\ dropped' = dropped
        BY <1>1, <2>4 DEF Moves, Continue, CreateStorage, DropCheck, DropStorage,
           RecordConfigChange, ViewCluster, ViewList, DeliverView, LoseReply, ApplyDaemons,
           ApplyCluster, ApplyList, ApplyDropsDone, ApplyState, ViewSpace, ApplyDrop, ApplyAdd,
           ViewState, SpaceRm, SpaceAdd, RegisterCatalog, RegisterCluster, StartRuntime, runtimes
    <3>2. QED
        BY <3>1 DEF CatalogMoves
  <2>5. QED
    BY <2>1, <2>2, <2>3, <2>4
<1>2. ASSUME NEW d \in Daemons, NEW s \in Spaces, ClientWrite(d, s) PROVE CatalogMoves
    BY <1>2 DEF ClientWrite, CatalogMoves
<1>3. CASE UNCHANGED vars
    BY <1>3 DEF vars, runtimes, CatalogMoves
<1>4. QED
    BY <1>1, <1>2, <1>3, StepSplit

\* A daemon whose catalog and sync a step leaves alone.
LEMMA TrackedKept ==
    ASSUME NEW d \in Daemons, Tracked(d), CatalogMoves, catalog'[d] = catalog[d],
           pc'[d] = pc[d], space'[d] = space[d], todo'[d] = todo[d], view'[d] = view[d]
    PROVE  Tracked(d)'
BY DEF Tracked, CatalogMoves, Applying

\* A daemon's own steps keep its installed definitions tracked.
LEMMA TrackedOwnStep ==
    ASSUME TypeOK, TaskSteps, NEW d \in Daemons, Local(d), Tracked(d), Moves(d)
    PROVE  Tracked(d)'
<1>0. /\ d \in Tasks /\ d \in Runtimes /\ d # Coordinator /\ RuntimeOf(d) = d /\ d \notin Admins
      /\ catalog[d] \in [Spaces -> Defs \cup {NoDef}]
      /\ view[d].spaces \in [Spaces -> Defs \cup {NoDef}]
      /\ space[d] \in Spaces /\ todo[d] \in SUBSET Spaces /\ Coordinator \in Runtimes
    BY DaemonTypes DEF Runtimes
<1>1. CASE CreateCatalog(d)
  <2>1. catalog[d][space[d]] = NoDef
    BY <1>1 DEF CreateCatalog, Local, Shelved
  <2>2. /\ pc[d] = "create_catalog" /\ pc'[d] = "create_record"
        /\ catalog'[d] = [catalog[d] EXCEPT ![space[d]] = def[d]]
        /\ catalog'[Coordinator] = catalog[Coordinator]
        /\ UNCHANGED <<locals, dropped>>
    BY <1>0, <1>1, <2>1 DEF CreateCatalog, Goto, TypeOK
  <2>3. def[d] = view[d].spaces[space[d]] /\ def[d] # NoDef
    BY <2>2 DEF Local, Filled, Adding, Working, CreateSteps
  <2>4. QED
    BY <1>0, <2>2, <2>3 DEF Tracked, Applying, locals, CreateSteps, DropSteps, ApplySteps
<1>2. CASE DropCatalog(d)
  <2>1. /\ pc[d] = "drop_catalog" /\ pc'[d] = "drop_storage"
        /\ catalog'[d] = [catalog[d] EXCEPT ![space[d]] = NoDef]
        /\ catalog'[Coordinator] = catalog[Coordinator]
        /\ UNCHANGED <<locals, dropped>>
    BY <1>0, <1>2 DEF DropCatalog, Goto, TypeOK
  <2>2. QED
    BY <1>0, <2>1 DEF Tracked, Applying, locals, CreateSteps, DropSteps, ApplySteps
<1>3. CASE \/ CreateStorage(d) \/ DropCheck(d) \/ DropStorage(d) \/ RecordConfigChange(d)
           \/ ApplyDaemons(d) \/ ApplyCluster(d) \/ ApplyState(d)
           \/ RegisterCluster(d) \/ StartRuntime(d)
  <2>1. /\ pc[d] \in DropSteps \/ pc'[d] \notin DropSteps
        /\ Applying(d) \/ ~Applying(d)'
        /\ pc'[d] # "view_space" /\ UNCHANGED <<catalog, space, todo, view, dropped>>
    BY <1>0, <1>3 DEF CreateStorage, DropCheck, DropStorage, RecordConfigChange, AfterRecord,
       ApplyDaemons, ApplyCluster, ApplyState, RegisterCluster, StartRuntime, Goto, TypeOK,
       runtimes, locals, Applying, CreateSteps, DropSteps, ApplySteps
  <2>2. QED
    BY <2>1 DEF Tracked
<1>4. CASE \E a \in Addrs : RegisterCatalog(d, a)
  <2>1. pc'[d] = "register_cluster" /\ UNCHANGED <<catalog, view, dropped>>
    BY <1>0, <1>4 DEF RegisterCatalog, Goto, TypeOK
  <2>2. QED
    BY <2>1 DEF Tracked, Applying, CreateSteps, DropSteps, ApplySteps
<1>5. CASE Restart(d)
  <2>1. /\ pc'[d] = "boot" /\ catalog'[d] = NoSpaces /\ catalog'[Coordinator] = catalog[Coordinator]
        /\ UNCHANGED <<view, dropped>>
    BY <1>0, <1>5 DEF Restart, TypeOK, locals
  <2>2. QED
    BY <2>1 DEF Tracked, Applying, CreateSteps, DropSteps, ApplySteps, NoSpaces
<1>6. CASE ViewState(d) \/ ViewCluster(d) \/ LoseReply(d)
  <2>1. /\ pc'[d] \in {"idle", "view_cluster", "view_list"} /\ UNCHANGED <<catalog, dropped>>
        /\ view'[d].spaces = NoSpaces \/ view'[d].spaces = view[d].spaces
    <3>1. view \in [Tasks -> ConfigView]
        BY DEF TypeOK
    <3>2. ViewCluster(d) => view'[d].spaces = view[d].spaces
        BY <1>0, <3>1 DEF ViewCluster, ConfigView
    <3>3. QED
        BY <1>0, <1>6, <3>2 DEF ViewState, ViewCluster, LoseReply, Goto, TypeOK, runtimes, locals
  <2>2. QED
    BY <2>1 DEF Tracked, Applying, CreateSteps, DropSteps, ApplySteps, NoSpaces
<1>7. CASE ViewList(d)
  <2>1. /\ pc'[d] = "view_space" /\ UNCHANGED <<catalog, dropped, view>>
        /\ todo'[d] = {s \in Spaces : catalog[Coordinator][s] # NoDef}
    BY <1>0, <1>7 DEF ViewList, Goto, TypeOK, runtimes
  <2>2. QED
    BY <2>1 DEF Tracked, Applying, CreateSteps, DropSteps, ApplySteps
<1>8. ASSUME NEW s \in Spaces, ViewSpace(d, s) PROVE Tracked(d)'
  <2>1. pc[d] = "view_space" /\ UNCHANGED <<catalog, dropped>>
    BY <1>8 DEF ViewSpace, runtimes
  <2>2. CASE catalog[Coordinator][s] = NoDef
    <3>1. pc'[d] = "idle" /\ view' = view
        BY <1>0, <1>8, <2>2 DEF ViewSpace, Goto, TypeOK
    <3>2. QED
        BY <2>1, <3>1 DEF Tracked, Applying, CreateSteps, DropSteps, ApplySteps
  <2>3. CASE catalog[Coordinator][s] # NoDef
    <3>1. /\ pc'[d] = "view_space" /\ todo'[d] = todo[d] \ {s}
          /\ view'[d].spaces = [view[d].spaces EXCEPT ![s] = catalog[Coordinator][s]]
      <4>1. pc'[d] = "view_space" /\ todo'[d] = todo[d] \ {s}
        BY <1>0, <1>8, <2>1, <2>3 DEF ViewSpace, TypeOK
      <4>2. QED
        BY <1>0, <1>8, <4>1, ViewSpaceEffect DEF ViewConsequences
    <3>2. QED
        BY <1>0, <2>1, <2>3, <3>1 DEF Tracked, Applying, CreateSteps, DropSteps, ApplySteps
  <2>4. QED
    BY <2>2, <2>3
<1>9. CASE DeliverView(d)
  <2>1. /\ pc[d] = "view_space" /\ todo[d] = {} /\ pc'[d] = "apply_daemons"
        /\ UNCHANGED <<catalog, dropped, view>>
    BY <1>0, <1>9 DEF DeliverView, Goto, TypeOK, runtimes, locals
  <2>2. QED
    BY <2>1 DEF Tracked, Applying, CreateSteps, DropSteps, ApplySteps
<1>10. CASE ApplyList(d) \/ ApplyDropsDone(d)
  <2>1. /\ pc[d] \in ApplySteps /\ pc'[d] \in ApplySteps /\ UNCHANGED <<catalog, dropped, view>>
    BY <1>0, <1>10 DEF ApplyList, ApplyDropsDone, Goto, TypeOK, runtimes, ApplySteps
  <2>2. QED
    BY <2>1 DEF Tracked, Applying, CreateSteps, DropSteps, ApplySteps
<1>11. ASSUME NEW s \in Spaces, ApplyDrop(d, s) PROVE Tracked(d)'
  <2>1. /\ pc[d] = "apply_drop" /\ pc'[d] = "drop_check" /\ s \in todo[d] /\ space'[d] = s
        /\ UNCHANGED <<catalog, dropped, view>>
    BY <1>0, <1>11 DEF ApplyDrop, Goto, TypeOK, runtimes
  <2>2. catalog[d][s] # NoDef /\ view[d].spaces[s] = NoDef
    BY <2>1 DEF Local, Trimmed, Dropping
  <2>3. QED
    BY <2>1, <2>2 DEF Tracked, Applying, CreateSteps, DropSteps, ApplySteps
<1>12. ASSUME NEW s \in Spaces, ApplyAdd(d, s) PROVE Tracked(d)'
  <2>1. /\ pc[d] = "apply_add" /\ s \in todo[d] /\ UNCHANGED <<catalog, dropped, view>>
        /\ \/ pc'[d] \in {"apply_add", "create_storage"}
           \/ /\ pc'[d] = "drop_check" /\ space'[d] = s /\ catalog[d][s] # NoDef
              /\ catalog[d][s] # view[d].spaces[s]
    BY <1>0, <1>12 DEF ApplyAdd, Goto, TypeOK, runtimes
  <2>2. view[d].spaces[s] # NoDef
    BY <2>1 DEF Local, Filled, Adding
  <2>3. QED
    BY <2>1, <2>2 DEF Tracked, Applying, CreateSteps, DropSteps, ApplySteps
<1>13. ~\E s \in Spaces : SpaceRm(d, s) \/ \E e \in Defs : SpaceAdd(d, s, e)
    BY <1>0 DEF SpaceRm, SpaceAdd
<1>14. QED
    BY <1>1, <1>2, <1>3, <1>4, <1>5, <1>6, <1>7, <1>8, <1>9, <1>10, <1>11, <1>12, <1>13
       DEF Moves, Continue

\* Every step keeps the installed definitions tracked.
LEMMA TrackedStep ==
    ASSUME TypeOK, TaskSteps, Requests = {}, NEW d \in Daemons, Local(d), Tracked(d), [Next]_vars
    PROVE  Tracked(d)'
<1>0. CatalogMoves
    BY CatalogStep
<1>1. CASE UNCHANGED vars
    BY <1>0, <1>1, TrackedKept DEF vars, runtimes, locals
<1>2. ASSUME NEW t \in Tasks, Moves(t) PROVE Tracked(d)'
  <2>1. CASE t = d
    BY <1>2, <2>1, TrackedOwnStep
  <2>2. CASE t # d
    <3>1. Untouched(d)
        BY <1>2, <2>2, OthersStep
    <3>2. QED
        BY <1>0, <3>1, TrackedKept DEF Untouched, RuntimeKept
  <2>3. QED
    BY <2>1, <2>2
<1>3. ASSUME NEW e \in Daemons, NEW s \in Spaces, ClientWrite(e, s) PROVE Tracked(d)'
  <2>1. /\ RuntimeKept(d) /\ pc'[d] = pc[d] /\ space'[d] = space[d]
        /\ todo'[d] = todo[d] /\ view'[d] = view[d]
    BY <1>3, WriteStep
  <2>2. QED
    BY <1>0, <2>1, TrackedKept DEF RuntimeKept
<1>4. QED
    BY <1>1, <1>2, <1>3, StepSplit

\* A step that takes the records of a space from a daemon is a restart or drops a
\* space that the coordinator has dropped before.
LEMMA KeepsData ==
    ASSUME TypeOK, TaskSteps, Requests = {}, NEW d \in Daemons, NEW s \in Spaces, Tracked(d),
           [Next]_vars, tables[d][s] = "data", s \notin dropped, pc'[d] # "boot"
    PROVE  tables'[d][s] = "data"
<1>0. /\ d \in Tasks /\ d \in Runtimes /\ RuntimeOf(d) = d /\ d \notin Admins
      /\ tables[d] \in [Spaces -> TableStates] /\ space[d] \in Spaces
    BY DaemonTypes
<1>1. CASE UNCHANGED vars
    BY <1>1 DEF vars, runtimes
<1>2. ASSUME NEW t \in Tasks, t # d, Moves(t) PROVE tables'[d][s] = "data"
    BY <1>2, OthersStep DEF Untouched
<1>3. ASSUME NEW e \in Daemons, NEW x \in Spaces, ClientWrite(e, x) PROVE tables'[d][s] = "data"
    BY <1>3, WriteStep
<1>4. CASE Moves(d)
  <2>1. CASE DropStorage(d)
    <3>1. pc[d] = "drop_storage" /\ tables'[d] = [tables[d] EXCEPT ![space[d]] = "none"]
        BY <1>0, <2>1 DEF DropStorage, TypeOK
    <3>2. s # space[d]
        BY <3>1 DEF Tracked, DropSteps
    <3>3. QED
        BY <1>0, <3>1, <3>2
  <2>2. CASE CreateStorage(d)
    <3>1. tables'[d] = [tables[d] EXCEPT ![space[d]] = IF @ = "none" THEN "empty" ELSE @]
        BY <1>0, <2>2 DEF CreateStorage, TypeOK
    <3>2. QED
        BY <1>0, <3>1
  <2>3. ~Restart(d)
    BY <1>0 DEF Restart, TypeOK
  <2>4. CASE ~DropStorage(d) /\ ~CreateStorage(d)
    <3>1. tables' = tables
        BY <1>4, <2>3, <2>4 DEF Moves, Continue, CreateCatalog, DropCheck, DropCatalog,
           RecordConfigChange, ViewCluster, ViewList, DeliverView, LoseReply, ApplyDaemons,
           ApplyCluster, ApplyList, ApplyDropsDone, ApplyState, ViewSpace, ApplyDrop, ApplyAdd,
           ViewState, SpaceRm, SpaceAdd, RegisterCatalog, RegisterCluster, StartRuntime, runtimes
    <3>2. QED
        BY <3>1
  <2>5. QED
    BY <2>1, <2>2, <2>4
<1>5. QED
    BY <1>1, <1>2, <1>3, <1>4, StepSplit

\* Without a refresh that races it, apply_config_view never throws away the records of a
\* space the coordinator has never dropped, however old the view it applies: what a daemon
\* drops or redefines was dropped by the coordinator first.  Only a restart loses it.
THEOREM SyncsKeepData ==
    ASSUME Requests = {}
    PROVE  Spec => KeepsUndroppedData
<1> DEFINE P == \A d \in Daemons, s \in Spaces :
                    tables[d][s] = "data" /\ s \notin dropped /\ pc'[d] # "boot"
                        => tables'[d][s] = "data"
<1>1. Init => KeepInv
    BY InductiveInit, LocalInit DEF KeepInv
<1>2. KeepInv /\ [Next]_vars => KeepInv'
  <2> SUFFICES ASSUME KeepInv, [Next]_vars PROVE KeepInv'
    OBVIOUS
  <2>1. IInv /\ TypeOK /\ TaskSteps
    BY DEF KeepInv, IInv
  <2>2. IInv'
    BY <2>1, InductiveStep
  <2>3. ASSUME NEW d \in Daemons PROVE (Local(d) /\ Tracked(d))'
    <3>1. Local(d) /\ Tracked(d)
        BY DEF KeepInv
    <3>2. QED
        BY <2>1, <3>1, LocalStep, TrackedStep
  <2>4. QED
    BY <2>2, <2>3 DEF KeepInv
<1>3. KeepInv /\ [Next]_vars => [P]_vars
  <2> SUFFICES ASSUME KeepInv, [Next]_vars PROVE P
    OBVIOUS
  <2>1. TypeOK /\ TaskSteps
    BY DEF KeepInv, IInv
  <2>2. QED
    BY <2>1, KeepsData DEF KeepInv
<1>4. KeepsUndroppedData <=> [][P]_vars
    BY PTL DEF KeepsUndroppedData
<1> HIDE DEF P
<1>5. QED
    BY <1>1, <1>2, <1>3, <1>4, PTL DEF Spec
===============================================================================
