# Verification of hyperdex-rs

hyperdex-rs is a Rust rewrite of the HyperDex key-value store: one coordinator that
owns the configuration, and daemons that hold the records. This directory holds
TLA+ models of its core, the TLC configurations that check them, and TLAPS proofs.
Source paths below are relative to the repository root (`src/` here); `lib.rs`
without a path is `crates/server/src/lib.rs`, `main.rs` is `crates/server/src/main.rs`.

## The system

| part | state | operations | talks to |
|---|---|---|---|
| `ClusterRuntime` (lib.rs) | catalog, storage engine, `cluster_config`, `coordinator_state`, each behind its own lock | everything below | the same struct runs in the coordinator and in every daemon |
| configuration distribution | the coordinator's version, the daemons' copies | `create_space`, `drop_space`, `register_daemon`, `config_view`, `apply_config_view` | a daemon registers once, then fetches `config_get` every 50 ms and whenever a request finds no space |
| replicated data path | one record per key and node | `put`, `conditional_put`, `delete`, `get`, `search`, `count`, `delete_group` | entry node -> primary -> peers (`ValidatePrimary`) and secondaries (`Replicated*`) |
| legacy placement | none (a function of the node list) | `legacy_locate_string_key`, `legacy_replica_sets`, the encoded regions | decides primary and secondaries, and where clients send their requests |
| definitions of spaces | none | schema parser and formatter, packed-space decoder, datatype codes | administrators send them, clients are told of them |
| coordinator admin session | per connection: identity, pending waits, queued frames | identify, bootstrap, `cond_wait`, `call` | reads the shared version, calls the configuration operations |
| legacy client requests | search cursors per client | `ReqAtomic`, search start/next/stop, count, get | the data path |
| legacy frontend | per connection identity | accept, identify, dispatch | legacy client requests |
| storage engines | tables of records | put, get, delete, conditional put, search, delete matching | the data path |
| placement strategies (placement-core) | none | rendezvous and hyperspace ring | a key that is no string; the runtime has none |
| consensus backends, transports, wire protocols | see PROJECT.json | | |

What is hard about it:

* **One lock at a time.** `config_view` and `apply_config_view` touch four pieces of
  state behind four locks; administrators, registering daemons, the sync loop and
  request-triggered refreshes interleave between any two of them.
* **No lock on a key.** A mutation is a local write followed by a sequential fan-out
  with an await per replica, and a rollback when one of them fails.
* **Stale routing.** Every daemon routes by its own copy of the node list; routing,
  node list and schema are adopted in separate steps; peers are asked to confirm a
  primary, and unreachable ones are skipped.
* **Two of everything.** An atomic request is computed by the engine's mutations or by
  function calls on a copy; a region is found by the client from the cuts it was sent and
  by the daemons from a product; datatype codes are read by one crate and written by
  another; a request has a protocol and a named form. The pairs must agree.
* **Waits.** A condition wait is parked, found ready and answered in separate
  readings of a version that other connections change.

The correctness properties wanted of each part, and the line where each can go
wrong, are the `hazards` of PROJECT.json.

## Modules

| module | models | extends |
|---|---|---|
| `ConfigSync` | configuration distribution: coordinator, daemons, sync loop, refresh | |
| `ConfigSyncProofs` | types; what a view of the configuration holds, and what the sync loop leaves on a daemon | `ConfigSync`, `TLAPS` |
| `Placement` | `legacy_replica_sets`, `legacy_locate_string_key` as operators | |
| `Schema` | the schema language, packed spaces, datatype codes, as operators | |
| `Layout` | the client configuration's regions beside the daemons' placement; the strategies of placement-core | `Placement` |
| `Spaces` | the spaces of a layout in the forms administrators send and clients see | `Layout`, `Schema` |
| `FoldsAndOrders` | nothing: induction in set form, folds, sums, concatenations, ranks in an order, for the proofs | the library's theorem modules |
| `LayoutProofs` | types, regions, routes, both strategies | `Layout`, `FoldsAndOrders` |
| `Replication` | put, conditional put, delete and get of one key | |
| `ReplicationProofs` | types, the veto of newer peers, races of conditional puts, where records come from and what a get returns | `Replication`, `TLAPS` |
| `Register` | the abstract specification that `Replication` implements | |
| `RegisterProofs` | acknowledgements, failures, the refinement of `Register` | `ReplicationProofs` |
| `GroupOps` | search, count and delete-group over several keys, beside puts and restarts | |
| `GroupOpsProofs` | types, delete-groups: completeness, rollback, count; searches beside puts | `GroupOps`, `TLAPS` |
| `AdminSession` | the coordinator's legacy admin connections | |
| `AdminSessionProofs` | types, answers, waits, identities | `AdminSession`, `TLAPS` |
| `LegacyValues` | kinds, values, their encodings and integer arithmetic, as operators | |
| `LegacyFuncalls` | validation, function calls, checks, mutations, as operators | `LegacyValues` |
| `LegacyRequests` | the legacy client requests of one daemon | `LegacyFuncalls` |
| `LegacyRequestsProofs` | values and their encodings, types, searches, additions, checked changes, the two paths of a change, what fails a connection | `LegacyRequests`, `FoldsAndOrders` |
| `MC*` | the instances TLC checks; `MCReplication` and `MCGroupOps` take their replicas from `Placement` | the above |

### ConfigSync

The coordinator and the daemons run the same `ClusterRuntime`, so every variable that
stands for a lock (`catalog`, `tables`, `daemons`, `cluster`, `coordinator_state`) is a
function of the runtime. A task is an admin connection, a daemon (its start and its
sync loop) or a legacy request that asked for a refresh; `pc` says which lock it takes
next, and an action takes exactly one:

* `create_space` is `CreateStorage`, `CreateCatalog`, `RecordConfigChange`; `drop_space`
  is `DropCheck`, `DropCatalog`, `DropStorage`, `RecordConfigChange`. Administrators run
  them on the coordinator, `apply_config_view` on a daemon.
* `register_daemon` is `RegisterCatalog`, `RegisterCluster`, `RecordConfigChange`.
* `config_view` is `ViewState`, `ViewCluster`, `ViewList` and one `ViewSpace` per name:
  the label of a view is read first and its content after.
* `apply_config_view` is `ApplyDaemons`, `ApplyCluster`, `ApplyList`, an `ApplyDrop` and
  an `ApplyAdd` per space, and `ApplyState`, which overwrites what the creations and drops
  recorded.
* `LoseReply` and `Restart` are the faults. A restarted daemon comes back empty, perhaps
  at another address; an address is a model value, a record is "data in the table".

### Replication

One key. `rec` is its record on every node; `layout`, `conf` and `schema` are a node's
routing (the catalog's nodes), its peers (`cluster_config`) and whether it knows the
space, because `apply_config_view` changes them in three steps (`AdoptLayout`,
`AdoptConf`, `AdoptSpace`). An operation enters at a node, is forwarded to what that node
holds to be the primary, and goes through the phases of `apply_primary_put`,
`apply_primary_conditional_put`, `apply_primary_delete` or
`execute_get_with_replica_fallback`: confirmation by the peers, reading, local write,
fan-out to one secondary at a time, rollback. An internode call is one step, with two ways
to fail: it does not arrive (`refused`), or it takes effect and its answer is lost
(`lost`). The record is a value, the one attribute every put sets, so that a put replaces it
(what the engine merges when puts set different attributes is in `LegacyFuncalls`); a
conditional put expects one. `confirm_local_primary_with_peers` reads `cluster_config` twice:
the nodes it tells its peers to have (`counted`) and the nodes it visits may be of two
configurations.

### Register, and the refinement

`Register` is what one key promises to clients that take turns: a request takes effect at
once and completely, or is answered with an error and has no effect. `Replication` maps to
it by `Abstract`: the abstract value is the primary's record, or, while a mutation is
between its local write and its answer, the record it would roll back to; the abstract
request and answer are those of the operation. `ImplementsRegister` says that every
behaviour of `Replication` is one of `Register`: the answer of the last secondary, or of the
failed one after the rollback, is the step at which the register changes or refuses, and
everything before it is a stutter. The bounds are part of the claim: one configuration, one
secondary, one operation at a time, calls that fail before they arrive. Beyond them it does
not hold (see below).

### GroupOps

Several keys, one configuration. A search or count visits the node list, merges what it
finds and skips nodes that do not answer; a delete-group is snapshot of every node,
comparison, deletion node by node, division by the replica factor, and rollback record by
record. Puts and daemon restarts run beside them. What a behaviour may do is its plan: the
node list, the replicas of each key, the puts and the kinds of each group operation. The
properties of delete-groups are about plans without puts and the property of searches about
plans without delete-groups (`Separate`), because nothing in the code orders the two.

### AdminSession

One `handle_coordinator_admin_frame` per frame, split where it reads the shared version
anew. A session has its identity, its parked waits and the frames queued for it; a
frame's nonce is its number; `received`, which only the bound `MaxFrames` reads, counts the
frames of all connections and their ends. Configuration changes are one step here; `ConfigSync` has
their insides.

### LegacyValues, LegacyFuncalls, LegacyRequests

`LegacyValues` has the kinds of attributes and the values that a protocol field can decode
to and be encoded from (`legacy_value_from_kind_bytes`, `legacy_protocol_value_from_kind`),
with integers of `Width` bits: additions saturate, division rounds down and keeps the
smallest integer divided by -1, as the code's do. A float is a number and its bits, so that
reading one for an integer shows. `IsValue` says what is stored for a kind, `HasDatatype` which
kinds have a code. `LegacyFuncalls` has the validation of a request,
every function call on a copy of a record (`legacy_apply_protocol_funcall`), the mutations
of the engine (`apply_mutations`), checks, and the translation of named requests.

`LegacyRequests` is `handle_legacy_request` behind `serve_connection_with`, on a cluster of one
node. Every way of making or changing a record goes through `materialize_key_mutation` (`Keyed`):
the record holds its own key, as bytes, under the key attribute, which is not in the schema, and
checks may name it (`KeySearchFindsRecord`). An atomic request is `AtomicDispatch` (validation,
existence, flags), and then either `AtomicChange` (mutations, applied under the engine's lock) or
`AtomicPrefetch` and `AtomicStore` (`legacy_apply_atomic_direct`), or `AtomicErase`. A search is
`SearchRun`, `SearchInsert` and a `SearchResponse` per record; the table has a cursor, with the
records still to be sent, for the ids that have one. A handler that fails ends its connection
(`Fail`). The plan of a behaviour is a schema, the first records and what each client may send.
`rec` is the engine's table: a key has a record or none, a record has an attribute or not.

### Schema

A schema text is a sequence of lines, a type a sequence of words, brackets and commas:
what the parser splits and nests is there, spelling is not. `ReadLine` is one turn of the
loop of `parse_hyperdex_space`; `WellPacked` and `DecodePacked` are the packed-space
decoder; codes are the code's own numbers. `CanEncode` says which spaces
`encode_legacy_space` can encode, its counts of attributes and subspaces (u16) included; in
`Layout` a region's replicas are counted in a u8 (`CountOf`). The u32 count of regions and
the lengths of names are left out.

### Layout, Spaces

Daemons register, spaces are created and dropped. What a request defines, and whether the
configuration can carry it, are the constants `Definition` and `Encodable` of `Layout`: its
regions depend on the counts of a definition only, and the module that is proved about does
not reach the recursive types of `Schema`. `Spaces` gives the constants their meaning, a
definition by schema text, packed space or control request, and states what comes back of
one; `MCLayout` puts the two together. `EncodeSpace` is the client configuration of a space:
boxes of hashes, each with its daemons; there are `Size` hashes. A root taken in floating point
may come out just below an exact integer, so the cuts are a choice (`Sides`). `Rendezvous`
and `HyperSpace` are the strategies of placement-core, over hashes chosen at the start.

## Runs

| run | shows |
|---|---|
| `config_sync_loop` | Two administrators, one daemon that registers, restarts and loses replies: `CurrentViewIsExact`, `SyncedDaemonIsExact`, `KeepsUndroppedData`. |
| `config_sync_converge` | Liveness: `Converges`. `MaxVersion` 4, so that a space is dropped and created again with another definition and the daemon restarts at another address. |
| `config_sync_refresh` | Liveness: `MirrorsEventually`, with a request-triggered refresh on the loop's daemon. |
| `replication_serial` | One operation at a time on a primary and a secondary, two refused calls: `PairFailureLeavesNoTrace`, `AckMeansEveryReplica`, `ImplementsRegister`. |
| `replication_concurrent` | Two writers and a get, two at a time, on three replicas, one call refused and one answer lost: `CasExclusion`, `CompleteGetIsCommitted`, `FailedMutationLeavesPrefix`. |
| `replication_handoff` | Daemon 3 joins and takes the key over during a mutation: `NewerPeerVetoes`. |
| `replication_stale_primary` | *Violation*, see below. |
| `admin_sessions` | Two connections, four frames: `AnsweredOnce`, `BootstrapMatchesIdentify`, `OwnChangesWakeWaits`, `WaitsAnsweredInTime`. |
| `group_ops` | Three attempts of a delete-group on two nodes with two refused calls, two lost answers and a restart: `AcknowledgedDeleteGroupIsComplete`, `DeletedCountIsLogical`, `FailedDeleteGroupRestores`. A search or count beside two puts on three nodes: `SearchFindsAcknowledged`. |
| `group_coverage` | *Violation*, see below. |
| `legacy_requests` | Two clients, three keys, every function call, both request forms: `AddsAccumulate`, `CheckedChangesExclude`, `SearchDeliversEach`, `KeySearchFindsRecord`, `StoredValuesRoundTrip`, `OnlyUnservedRequestsFail`, `PathsAgree`. |
| `layout` | Three daemons in any order (four where a replica list outgrows its count), up to 27 partitions and three dimensions, colliding hashes, definitions in every form: `RegionsTile`, `ClientRoutesToPrimary`, `PlacementIgnoresOrder`, `JoinMovesToNewcomer`, `PackedSpacesComeBack`, `SchemaRoundTrips`. |

Every property is stated in a comment above its definition. The `mutants` of PROJECT.json
give, for each, a plausible slip in the code that breaks it.

### Disagreements found

* `replication_stale_primary`: the ledger says that a stale primary is rejected also
  while the newer-view peer is unavailable. `confirm_local_primary_with_peers` accepts
  when *any* peer confirms, and that peer may be as stale as the primary.
* `group_coverage`: a test expects incomplete replica coverage to abort a delete-group.
  It is detected by a remainder only, so an even number of records on half of the
  replicas passes.

### What does not hold, and is not claimed

The models also show where a promise ends:

* With a request-triggered refresh racing the loop, `KeepsUndroppedData`,
  `SyncedDaemonIsExact` and `Converges` fail: the two appliers undo each other's steps
  and may leave a space without a table. Only `MirrorsEventually` is left.
* Of conditional puts that expect one record two may be acknowledged when another mutation
  restores that record: a put of it, or a delete or a later conditional put that is rolled
  back (`CasExclusion` is about racing conditional puts and gets).
* With three configurations a peer may route by a newer list than the caller although its
  node list is older than the caller's routing, and then it confirms
  (`NewerPeerVetoes` asks for a node list as new).
* A rollback restores the primary only. With one secondary that is enough
  (`PairFailureLeavesNoTrace`); with two, a mutation that fails at the second stays on the
  first, and `FailedMutationLeavesPrefix` says that this is all that stays.
  `docs/workstreams/active/failure-testing/ledger.md:64` says that "failed replicated writes
  now roll back cleanly instead of leaking primary-local state": that is right of the
  primary-local state, and not of the secondaries before the one that failed.
* Concurrent puts of a key may reach the secondaries in different orders, and a rollback
  may erase an acknowledged write; a put during a delete-group may be lost or come back.
* A delete-group with the replica factor the processes are started with (1) counts
  copies; on three nodes with two copies its snapshots never agree.
* A wait is woken only by frames of its own connection.
* Two clients that insert a key with `fail_if_found` may both succeed; the direct path
  sets every attribute of its copy and so undoes concurrent changes of the others; two
  clients with the same search id share a cursor.
* The operand of a float's datatype on an integer attribute is rounded on the direct path
  and taken for the bits of an integer by the engine (`PathsAgree` leaves it out).
* A push of a list to an attribute that holds lists of lists is validated and stored, and no get
  or search can send the record any more, because a container of containers has no datatype
  code: `StoredValuesRoundTrip` is about attributes whose kind has one, `OnlyUnservedRequestsFail`
  about spaces without other kinds.
* A search that one client started in the named form, and another goes on with under its id,
  is sent in the named form and may fail the other's connection.
* A named search by text never matches what an atomic request stored in a string or document
  attribute: one is stored as bytes, the other compared as text. (Checks of the key and of bytes
  attributes are compared as bytes, and match.) A record without an attribute fails every check on
  it, although a get reports the default; in a space with a bool or timestamp attribute a get of
  such a record ends the connection.
* For a number of partitions that is not a power of two, a client sends keys whose hash
  lies just below a cut to the next region's daemon (`ClientRoutesToPrimary` bounds the gap).
* A space with zero partitions, a bool or nested attribute, or a subspace of unknown
  attributes is accepted from a schema text or a control request, and then no client gets a
  configuration; so are attributes and dimensions beyond what a u16 counts, and a daemon with
  a host name. Packed spaces are safe (`PackedSpacesComeBack`), unless a key has more replicas
  than a u8 counts.
* Division (by zero, by a negative number, the smallest integer by -1) is in `LegacyValues` and
  in the run, but no property says what a quotient is to be; `server/src/tests/mod.rs` does.
* A space without attributes cannot be written in the schema language, and a subspace
  without dimensions is read back as an attribute.

### Bounds

Faults, versions, frames and requests are bounded by the constants whose names begin with `Max`,
each in the guard of the action it bounds. They are chosen so that a fault can hit every step of an
operation and be followed by a retry: one fault and four versions for a sync (create, drop, create
again, register), one refused and one lost call beside two concurrent operations, three attempts of
a delete-group with up to two faults of each kind, a search of two records (item, item, done).
`Layout` has hashes of ten bits, so that every partition count of the run has cuts that do and do
not divide the hash space, and tokens and scores of three values, so that they collide; a u8 ends at
`MaxU8` (3), a u16 at `MaxU16` (4) and a u32 at `MaxU32`, so that a request of the run outgrows
each. Integers of legacy requests have three bits, so that every operation reaches both ends. The
daemon of a `ConfigSync` run is one because daemons share nothing but the coordinator; the proofs
have any number. Symmetry is used over connections (`MCAdminSession`) and over administrators and
spaces (`MCConfigSync`, in the run without liveness). `CHECK_DEADLOCK FALSE` is said where the
operations run out; the sync loop never stops, and its runs check deadlock.

### Fairness

`ConfigSync` has the only fairness. tokio runs every task that is ready, so a begun
operation continues (`WF` of `Continue`), and a daemon's loop ticks and goes on
(`WF` of `RunDaemon`). Nothing obliges an administrator, a client or a fault to act.
Faults and versions are bounded, which is the assumption of `Converges` that
administrators and faults stop eventually.

## Proofs

The proofs hold for every value of the constants: any number of daemons, administrators, spaces,
clients, operations, connections and frames, any list of replicas, any bound on faults. They use the
named assumptions of the component's module and no others: names of tasks, absent values and
requests are distinct, bounds are naturals, sets that are counted are finite, a node list and a
replica list name a node once, and successive configurations of `Replication` do not get shorter,
because the coordinator registers daemons and never removes one. `Layout` assumes that the number of
hashes is even, that ids, scores and token positions are naturals, that a u8 can count one replica,
and that the counts of a definition are unsigned and an encodable one has partitions and dimensions.
`LegacyRequests` assumes that no two keys have the same bytes, a width whose powers of two are
numbers (which the prover does not know of `^`), that a failure or an absent value is no integer and
no check, that a decoded request has its form and its fields, an argument is bytes of what the
protocol can carry (a text where its datatype is one) and read as a number has one of the width, and
that the first records have their keys and attributes of the schema. TLC evaluates each of them on
the runs of the component. Where a theorem has a hypothesis, it is the scope in which the property
is claimed; "What does not hold" says what happens outside of it.

| theorem | hypothesis | inductive invariant |
|---|---|---|
| `ConfigSyncProofs!TypeCorrect`, `ViewsAreExact` (`CurrentViewIsExact`) | | `IInv` |
| `ConfigSyncProofs!SyncedDaemonsAreExact` (`SyncedDaemonIsExact`) | `Requests = {}`: only the sync loop installs views | `LoopInv` |
| `ConfigSyncProofs!SyncsKeepData` (`KeepsUndroppedData`) | `Requests = {}` | `KeepInv` |
| `ReplicationProofs!TypeCorrect`, `NewerPeersVeto` (`NewerPeerVetoes`) | | `BaseInv` |
| `ReplicationProofs!CasExcludes` (`CasExclusion`) | `Len(Views) = 1`: one configuration | `CasInv` |
| `ReplicationProofs!CompleteGets` (`CompleteGetIsCommitted`) | one configuration, `ValuesNameWriters` | `CompleteInv` |
| `RegisterProofs!AcksMeanEveryReplica` (`AckMeansEveryReplica`) | `MaxConcurrent = 1`: clients take turns | `AckInv` |
| `RegisterProofs!Implements` (`ImplementsRegister`) | `Pair`: one configuration, at most one secondary, turns, no lost answer | `PairInv` |
| `RegisterProofs!PairFailuresLeaveNoTrace` (`PairFailureLeavesNoTrace`) | `Pair`, `ValuesNameWriters` | `TraceInv` |
| `GroupOpsProofs!TypeCorrect` | | `TypeInv` |
| `GroupOpsProofs!DeleteGroupsComplete` (`AcknowledgedDeleteGroupIsComplete`) | `MaxActive = 1`: one at a time; `Separate` | `CompleteInv` |
| `GroupOpsProofs!FailuresRestore` (`FailedDeleteGroupRestores`) | the same | `ExactInv` |
| `GroupOpsProofs!CountsAreLogical` (`DeletedCountIsLogical`) | the same, `FullyReplicated` | `CountInv` |
| `GroupOpsProofs!SearchesFind` (`SearchFindsAcknowledged`) | `Separate`, `OnePutPerKey` | `SearchInv` |
| `AdminSessionProofs!TypeCorrect` | | `TypeInv` |
| `AdminSessionProofs!AnswersAreSingle` (`AnsweredOnce`), `WaitsInTime` (`WaitsAnsweredInTime`) | | `OnceInv` |
| `AdminSessionProofs!OwnChangesWake` (`OwnChangesWakeWaits`) | | `AwakeInv` |
| `AdminSessionProofs!BootstrapsMatch` (`BootstrapMatchesIdentify`) | | `IdentityInv` |
| `LegacyRequestsProofs!SearchesDeliver` (`SearchDeliversEach`) | in the property: no two clients use one search id | `SearchInv` |
| `LegacyRequestsProofs!BothWaysAgree` (`PathsAgree`) | in the property: operands of the attribute's datatype | `HandlerInv` |
| `LegacyRequestsProofs!ValuesReadBack` (`StoredValuesRoundTrip`) | in the property: the kind has a datatype | `HandlerInv` |
| `LegacyRequestsProofs!KeySearchFinds` (`KeySearchFindsRecord`) | | `HandlerInv` |
| `LegacyRequestsProofs!TypeCorrect` | | `HandlerInv`, `FoundInv` |
| `LegacyRequestsProofs!SupportedRequestsServed` (`OnlyUnservedRequestsFail`) | in the property: supported kinds, the protocol's own form | `FoundInv`, `FailInv` |
| `LegacyRequestsProofs!AddsCount` (`AddsAccumulate`) | in the property: only additions changed the key | `ChangeInv` |
| `LegacyRequestsProofs!CompareAndSwap` (`CheckedChangesExclude`) | in the property: every change of the key checks for one value and moves it away | `ChangeInv` |
| `LayoutProofs!TypeCorrect` | | `IndInv` |
| `LayoutProofs!RegionsTileSpace` (`RegionsTile`) | | `IndInv` |
| `LayoutProofs!RoutesToPrimary` (`ClientRoutesToPrimary`) | | `IndInv` |
| `LayoutProofs!OrderIgnored` (`PlacementIgnoresOrder`) | | `IndInv` |
| `LayoutProofs!NewcomerMovesToItself` (`JoinMovesToNewcomer`) | | `IndInv` |

`ValuesNameWriters` says that two operations do not write the same value and none writes
the value that is there first: it is what lets a record that is found be attributed to the
operation that wrote it, and costs no generality, since the data path never looks into a
value. `FullyReplicated` says that each key has as many replicas as the replica factor; without
it a success counts copies (see above).

None of these properties is inductive: each speaks of finished views, answers or
operations, and the invariant has to say what is true on the way there.

* **Views.** `config_view` takes four locks in turn; the version is read first and recorded
  by every change last. `IInv` adds that labels never run ahead of the coordinator
  (`LabelsBehind`), that a view has no spaces before the catalog is listed (`BlankViews`),
  which procedures a task can be in (`TaskSteps`), and `CurrentSoFar`: what a view with the
  present label has read *so far* is still true when no change is pending. A change makes a
  task pending, recording it makes every label old, and a read in between reads the truth.
* **The sync loop.** `apply_config_view` on a daemon is interrupted by lost replies, restarts and
  its own creations and drops, which record changes in the daemon's version. `Local` says, lock by
  lock, how much of the view a daemon has installed: which spaces are still to be dropped or added,
  and that what is not in the view any more is on its way out. `Numbered` says that a registered
  daemon finds a version above zero, which no fresh daemon has; `Synced` that a daemon at rest is
  not ahead of the coordinator, and at the coordinator's version holds its configuration. `Tracked`
  (for `KeepsUndroppedData`) says that a space a daemon holds and the coordinator never dropped has
  the coordinator's definition, so that no view makes the daemon drop or redefine it.
* **Types of the data path.** `BaseInv` has the order in which a node adopts routing, node
  list and space, and for each phase of an operation which positions of which list are left:
  without it the replica that is visited next need not exist. `NewerPeersVeto` follows from
  it: neither the list a primary counts nor the one it confirms with is newer than its routing.
* **Races.** A conditional put that passed *holds* the key from its local write to its answer
  or the end of its rollback; `Exclusive` says that one racer holds it, and none while the
  primary has the expected record.
* **Complete gets.** Fan-out and gets visit the replicas in the same order, so a value at the
  *last* replica is that of a mutation that cannot fail any more (`LastIsSealed`);
  `Provenance` says where every record comes from.
* **The register.** `PairInv` says how far the secondary is behind the primary at every
  point of an operation. Each action then is one of three abstract steps: silent, takes
  effect (a get's answer included), or fails. `TraceInv` follows the value of a failed mutation.
* **Delete-groups.** `CompleteInv`: a node that was visited has a snapshot or nothing to
  delete (`Covered`), after that what is not deleted yet is in the remaining snapshots
  (`Pending`), and a later attempt holds nothing to put back (`Cleared`). `ExactInv`: a
  snapshot equals its node until the deletion, and the rest of a rollback is in `undo`.
  `CountInv`: the total is the number of records times the nodes gone through.
* **Searches.** `SearchInv` follows an acknowledged value to the replicas of its key, and from
  the nodes a search went through into what it found.
* **Admin sessions.** `Tidy` relates the phase of a handler to the two pending tables and the
  ready set; `Settled` says that the stream (written, then queued) answers a nonce once, and
  only nonces that are not parked. `Awake` says which waits a handler still has to flush,
  `Faithful` that the ids of the replies are those of the last identify.
* **Searches of legacy clients.** `Follows`: what a client has received, and what the cursor
  of its last search still holds, make up what the search matched, response by response;
  an empty cursor is removed, and a done search has none. That ids are apart keeps the
  other clients' starts and stops away from it. Attribute values have no type here, so the
  lemmas are about sequences of anything.
* **Legacy changes.** `HandlerInv` says what a handler holds between two awaits: a request of
  its client, validated, on the path its calls choose; and that every record, and every copy
  that is changed, has its key, and otherwise attributes of the schema with values of their
  kinds, which validated calls keep. `ChangeInv` relates the records to the
  answers. A key that no answered request changed is as it was at the start, and a copy fetched
  before any change is a copy of that (`Copied`): without it the second phase of the direct
  path could put back anything. A key that only additions changed holds the first value and
  their sum, stopped at the largest integer (`Counted`); that an addition of nought or more
  comes in any order rests on saturation from one side only. Of the requests that expect one
  value and move it away, one has succeeded and the attribute has another value (`Excluded`):
  the check is evaluated with the change, on the record that is there.
* **Two ways of a change.** The engine folds mutations over a record, the direct path folds
  function calls over a copy. Both are followed call by call along the traces of the two folds;
  where the calls are those that are routed to the engine, and the operands those of the
  attribute's datatype, the two traces are one.
* **Values.** `ValueRoundTrip` says that a value of a kind is encoded and decoded to itself:
  element by element for a list, and for a set or a map in whatever order its elements are put,
  because distinct elements have distinct positions and the last of equal keys is the only one.
  The other half is that a call cannot store anything else: what decodes for a kind is a value of
  it (`ValueDecoded`), and so is what each function call makes of one and a decoded argument
  (`NewValueIs`), on the engine's way as well (`MutationKeeps`). `FailInv` adds the form in which
  cursors are to be sent, and why each failed connection did: a default is a value of its kind,
  so whatever was found can be sent; and the engine's fold never stops half way (`EngineApplies`).
* **Regions.** A subspace is a product of cuts, and its boxes a fold over the dimensions whose
  partial results are the boxes of the dimensions so far. `RegionsTile` follows from it,
  dimension by dimension: points tile a line, and a tiling extended by points tiles one
  dimension more (`ExtendedTile`); volumes multiply. It does not matter how the root of the
  partitions was rounded, only that every cut is positive. A region's daemons are a stride
  through a rotation of the daemons, whose members differ. Routes come down to one inequality
  between `hash * P \div Size` and the cuts at multiples of `2 * ((Size \div 2) \div P)`.
* **Strategies.** A sorted list is determined by its set: the place of an element is the number
  of those before it (`FoldsAndOrders`). Rendezvous sorts by score and id, the ring by position,
  node and token and is then turned at the key. Ties are broken by ids, so the order is total and
  the list of daemons does not matter; taking the newcomer out of the order with it leaves the
  order without it.

Induction over numbers is an ordinary lemma about a set of numbers (`Induction` of
`FoldsAndOrders`), from which follow that folds have traces and what sums, products,
concatenations and sorted lists are.

The runs check the properties themselves on small instances; the invariants are proved for all.

Only model-checked:

* Liveness (`Converges`, `MirrorsEventually`): fairness is out of the prover's reach.
* `PackedSpacesComeBack` and `SchemaRoundTrips`: types nest, so `Schema` is recursive, and a
  module that reaches a recursive operator cannot have theorems.

## Not modelled

* Byte layouts: the frames of the Replicant, BusyBee and legacy client protocols, and the
  generated gRPC code. They hold no state and their round-trip tests reach them.
* Sockets, framing, identify frames of the client frontend, the configuration file and
  the command line: I/O and constants.
* The consensus backends: constructed by name, never called by the runtime.
* A restart of the coordinator. Its catalog is held in memory, and a new one begins empty at
  its first version; what is claimed of configurations (`KeepsUndroppedData`, `Converges` and
  the others of `ConfigSync` and `AdminSession`) is claimed of a coordinator that keeps running.
* The Rocks engine: the memory engine's interface over a library.
* The simulation harness and the tests.

See `components` of PROJECT.json.

## Plan

The plan was: configuration distribution, then the data path of one key with its abstract
register, group operations, admin sessions, legacy requests with their values and function
calls, client regions, placement strategies and definitions; and after each component the
theorems that state its safety properties for every value of the constants. All of it is
there, except for the proofs of the properties named above, which are left to TLC, and the
parts under "Not modelled". A change of the code belongs into the definitions that `map`
names for its lines; the runs say what it breaks, and the lemmas of the action it changed
have to be proved again.
