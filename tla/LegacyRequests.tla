---------------------------- MODULE LegacyRequests -----------------------------
(* The legacy client requests of one daemon: handle_legacy_request behind the *)
(* BusyBee connections of serve_connection_with.                              *)
(*                                                                            *)
(* A connection handles one request at a time; connections interleave at      *)
(* every await.  An atomic request looks whether the record exists, and then  *)
(* either hands its change to the data path as mutations, which the storage   *)
(* engine applies under its lock, or reads the record, computes the new one   *)
(* and puts it back (LegacyFuncalls).  Search results wait in a table of      *)
(* cursors.  The data path is that of a cluster of one node; Replication and  *)
(* GroupOps have more.                                                        *)
EXTENDS LegacyFuncalls

CONSTANTS Clients,    \* connections
          Keys,       \* numbers, in the order of the storage engine
          KeyBytes,   \* key -> its bytes
          RequestOf,  \* request number -> the request after decoding
          Plans       \* what a behaviour may start from: the schema of the space, the
                      \* records, and per client the requests it may send and how many

ASSUME KeysAssumption ==
    /\ Keys \subseteq Nat /\ IsFiniteSet(Keys)
    /\ KeyBytes \in [Keys -> Texts] /\ \A j, k \in Keys : KeyBytes[j] = KeyBytes[k] => j = k

\* What a record has under the key attribute.
KeyValue(k) == Bytes(KeyBytes[k])

\* Whether an argument that is read as a number has one: the bytes of a protocol
\* argument, or the value of a named one.
HasNumber(format, arg) ==
    IF format = "protocol"
    THEN arg # <<>> /\ arg[1][1] \in {"i", "f"} => arg[1][2] \in Ints
    ELSE arg # Absent /\ arg[1] = "int" => arg[2] \in Ints

\* The arguments of a function call: units, those of a text where the datatype is one;
\* or the values of a named call.
IsBytes(dt, arg) ==
    arg \in Seq(Units) /\ (dt \in Text => arg \in Texts) /\ HasNumber("protocol", arg)
IsNamed(g) ==
    HasNumber("named", g) /\ (g # Absent /\ g[1] \in {"bytes", "string"} => g[2] \in Texts)
IsCall(format, f) ==
    IF format = "protocol" THEN IsBytes(f.dt1, f.arg1) /\ IsBytes(f.dt2, f.arg2)
    ELSE IsNamed(f.arg1) /\ IsNamed(f.arg2)

\* A request has its format, and an atomic one its fields.
ASSUME RequestsAssumption ==
    \A q \in Range(RequestOf) :
        /\ q # Err
        /\ q.kind \in {"atomic", "start", "get", "count"} => q.format \in {"protocol", "named"}
        /\ q.kind = "atomic" =>
            /\ DOMAIN q = {"kind", "format", "key", "erase", "fail_if_found", "fail_if_not_found",
                           "checks", "funcalls"}
            /\ q.key \in Keys /\ IsList(q.checks) /\ IsList(q.funcalls)
            /\ \A i \in DOMAIN q.funcalls : IsCall(q.format, q.funcalls[i])
            /\ \A i \in DOMAIN q.checks : HasNumber(q.format, q.checks[i].value)

\* A check of an integer n that was decoded is no failure.
ASSUME ChecksAssumption == Err \notin [attr : {"n"}, predicate : Predicates, value : {"int"} \X Int]

\* The records at the start were put: they have their key and attributes of the schema,
\* and their integers have the width.
ASSUME PlansAssumption ==
    \A p \in DOMAIN Plans :
        /\ KeyAttribute \notin DOMAIN Plans[p].schema
        /\ DOMAIN Plans[p].initial \subseteq Keys
        /\ \A k \in DOMAIN Plans[p].initial :
              /\ Existing(Plans[p].initial[k], KeyAttribute) = KeyValue(k)
              /\ \A x \in DOMAIN Plans[p].initial[k] \ {KeyAttribute} :
                    /\ x \in DOMAIN Plans[p].schema /\ Plans[p].initial[k][x] # Err
                    /\ IsValue(Plans[p].schema[x], Plans[p].initial[k][x])
                    /\ Plans[p].schema[x] = KInt => Plans[p].initial[k][x] \in {"int"} \X Ints
        /\ Plans[p].menu \in [Clients -> SUBSET DOMAIN RequestOf]
        /\ Plans[p].limit \in [Clients -> Nat]

VARIABLES plan,     \* the plan of this behaviour
          rec,      \* the keys with a record -> the record: the attributes it has -> value
          cursors,  \* legacy_searches: the search ids with a cursor -> the records
                    \* still to be sent
          conn,     \* client -> its connection and the request being handled
          log       \* the requests that were answered, with their status

vars == <<plan, rec, cursors, conn, log>>

Phases == {"idle", "handle", "change", "prefetch", "store", "erase", "insert", "respond",
           "closed", "failed"}
Statuses == {"success", "not_found", "compare_failed", "bad_dimension_spec",
             "item", "done", "count", "config_mismatch"}
ASSUME StatusesAssumption == Err \notin Statuses

Schema == Plans[plan].schema
Initial == Plans[plan].initial

\* Per connection: its last request, as it was sent and as it was decoded, the record
\* that was prefetched and the search result that is not filed yet; and of its last
\* search, its id, how it stands, the keys the engine matched and those the client has
\* received.
Init ==
    /\ plan \in DOMAIN Plans
    /\ rec = Plans[plan].initial
    /\ cursors = NoAttributes
    /\ conn = [c \in Clients |->
                 [pc |-> "idle", request |-> 0, decoded |-> Absent, sent |-> 0,
                  fetched |-> NoAttributes, found |-> <<>>,
                  search |-> "none", under |-> 0, matched |-> <<>>, received |-> <<>>]]
    /\ log = {}

Request(c) == RequestOf[conn[c].request]
Entry(c, status) ==
    [client |-> c, number |-> conn[c].sent, request |-> conn[c].request, status |-> status]

\* The response is written and the connection reads its next frame.
Answer(c, status) ==
    /\ conn' = [conn EXCEPT ![c].pc = "idle", ![c].fetched = NoAttributes]
    /\ log' = log \cup {Entry(c, status)}

Goto(c, pc) == conn' = [conn EXCEPT ![c].pc = pc] /\ UNCHANGED log

\* A handler that fails ends its connection without an answer.
Fail(c) == Goto(c, "failed")

-------------------------------------------------------------------------------
(* The head of handle_legacy_request: decoding and validation                 *)

Converted(items, Convert(_)) ==
    LET out == [i \in DOMAIN items |-> Convert(items[i])]
    IN  IF Err \in Range(out) THEN Err ELSE out

\* The request in protocol form: legacy_named_atomic_request for a named one.
KeyChange(schema, q) ==
    IF q.format = "protocol" THEN q
    ELSE LET checks == Converted(q.checks, LAMBDA check : NamedCheck(schema, check))
             funcalls == Converted(q.funcalls, LAMBDA f : NamedFuncall(schema, f))
         IN  IF checks = Err \/ funcalls = Err THEN Err
             ELSE [q EXCEPT !.checks = checks, !.funcalls = funcalls]

DecodedChecks(schema, checks) == Converted(checks, LAMBDA check : DecodedCheck(schema, check))

\* legacy_search_start, legacy_count_checks: a named count has no checks.
SearchChecks(schema, q) ==
    IF q.format = "protocol" THEN DecodedChecks(schema, q.checks)
    ELSE Converted(q.checks, LAMBDA check : DecodedNamedCheck(schema, check))
CountChecks(schema, q) == IF q.format = "protocol" THEN DecodedChecks(schema, q.checks) ELSE <<>>

\* What decoding and validation make of a request: they look at the schema only.
Decoded(schema, q) ==
    CASE q.kind = "atomic" ->
            LET change == KeyChange(schema, q)
                valid == change # Err /\ ValidAtomic(schema, change)
            IN  [change |-> change, valid |-> valid,
                 checks |-> IF valid THEN DecodedChecks(schema, change.checks) ELSE Err]
      [] q.kind = "start" -> [checks |-> SearchChecks(schema, q)]
      [] q.kind = "count" -> [checks |-> CountChecks(schema, q)]
      [] OTHER -> [checks |-> <<>>]
-------------------------------------------------------------------------------
(* serve_connection_with                                                      *)

\* A frame arrives on an idle connection.
Receive(c, q) ==
    /\ conn[c].pc = "idle" /\ conn[c].sent < Plans[plan].limit[c]
    /\ conn' = [conn EXCEPT ![c].request = q, ![c].sent = @ + 1, ![c].pc = "handle",
                            ![c].decoded = Decoded(Schema, RequestOf[q])]
    /\ UNCHANGED <<plan, rec, cursors, log>>

\* The stream ends; the cursors of its searches stay.
Disconnect(c) ==
    /\ conn[c].pc = "idle"
    /\ Goto(c, "closed")
    /\ UNCHANGED <<plan, rec, cursors>>

\* A body that does not decode, or that names another space.
Garbled(c) ==
    /\ conn[c].pc = "handle" /\ Request(c).kind = "garbled"
    /\ Fail(c)
    /\ UNCHANGED <<plan, rec, cursors>>

-------------------------------------------------------------------------------
(* ReqAtomic                                                                  *)

Change(c) == conn[c].decoded.change
Checks(c) == conn[c].decoded.checks

\* The engine's condition: no record fails every check.
Passes(k, checks) == checks = <<>> \/ (k \in DOMAIN rec /\ RecordMatches(rec[k], checks))
Mutations(q) == [i \in DOMAIN q.funcalls |-> MutationFrom(q.funcalls[i])]
EntryOf(k) == IF k \in DOMAIN rec THEN rec[k] ELSE NoAttributes

\* Mutant: the key is the table's alone.
WithoutKey(k, r) == r

\* materialize_key_mutation: a put or conditional put sets the key's attribute first.
\* (No call that is valid sets it, and a copy of a record sets it to what it was.)
Keyed(k, r) == With(r, KeyAttribute, KeyValue(k))

\* legacy_record_exists, the two flags, and which way the change goes.
\* A check on an erase ends the connection.
AtomicRoute(c, q, exists) ==
    \/ exists /\ q.fail_if_found /\ Answer(c, "compare_failed")
    \/ ~exists /\ q.fail_if_not_found /\ Answer(c, "not_found")
    \/ /\ IF exists THEN ~q.fail_if_found ELSE ~q.fail_if_not_found
       /\ Goto(c, CASE q.erase -> IF q.checks = <<>> THEN "erase" ELSE "failed"
                    [] OTHER -> IF CanUseRuntimeMutations(Schema, q.funcalls) THEN "change"
                                ELSE "prefetch")

\* legacy_validate_atomic_request comes first.
AtomicDispatch(c) ==
    /\ conn[c].pc = "handle" /\ Request(c).kind = "atomic"
    /\ \/ Change(c) = Err /\ Fail(c)
       \/ Change(c) # Err /\ ~conn[c].decoded.valid /\ Answer(c, "bad_dimension_spec")
       \/ Change(c) # Err /\ conn[c].decoded.valid
          /\ AtomicRoute(c, Change(c), Request(c).key \in DOMAIN rec)
    /\ UNCHANGED <<plan, rec, cursors>>

\* A put or conditional put of mutations, under the engine's lock.  An engine that
\* fails half way keeps what it did, and its error ends the connection.
AtomicChange(c) ==
    /\ conn[c].pc = "change"
    /\ \E q \in {Change(c)} :
          IF Passes(q.key, Checks(c))
          THEN \E applied \in {ApplyMutations(Keyed(q.key, EntryOf(q.key)), Mutations(q))} :
                  /\ rec' = With(rec, q.key, applied.record)
                  /\ IF applied.ok THEN Answer(c, "success") ELSE Fail(c)
          ELSE Answer(c, "compare_failed") /\ UNCHANGED rec
    /\ UNCHANGED <<plan, cursors>>

\* legacy_apply_atomic_direct, first await: the record is read and changed in memory.
AtomicPrefetch(c) ==
    /\ conn[c].pc = "prefetch"
    /\ \E q \in {Change(c)} :
       \E updated \in {ApplyFuncalls(Schema, EntryOf(q.key), q.funcalls)} :
          \/ ~updated.ok /\ Answer(c, "bad_dimension_spec")
          \/ /\ updated.ok
             /\ conn' = [conn EXCEPT ![c].pc = "store", ![c].fetched = updated.record]
             /\ UNCHANGED log
    /\ UNCHANGED <<plan, rec, cursors>>

\* Every attribute the record has is set in the table; the others stay.
Overwrite(r, with) ==
    [a \in DOMAIN r \cup DOMAIN with |-> IF a \in DOMAIN with THEN with[a] ELSE r[a]]

\* Mutant: the changed copy is put back without the checks of the request.
StoreUnchecked(c) ==
    /\ conn[c].pc = "store"
    /\ \E k \in {Request(c).key} :
          rec' = With(rec, k, Overwrite(Keyed(k, EntryOf(k)), conn[c].fetched))
    /\ Answer(c, "success")
    /\ UNCHANGED <<plan, cursors>>

\* legacy_apply_atomic_direct, second await: put or conditional put;
\* the engine evaluates the checks on the record in its table.
AtomicStore(c) ==
    /\ conn[c].pc = "store"
    /\ \E q \in {Change(c)} :
          IF Passes(q.key, Checks(c))
          THEN /\ rec' = With(rec, q.key, Overwrite(Keyed(q.key, EntryOf(q.key)), conn[c].fetched))
               /\ Answer(c, "success")
          ELSE Answer(c, "compare_failed") /\ UNCHANGED rec
    /\ UNCHANGED <<plan, cursors>>

\* A delete answers success whether or not there was a record.
AtomicErase(c) ==
    /\ conn[c].pc = "erase"
    /\ rec' = Without(rec, Request(c).key)
    /\ Answer(c, "success")
    /\ UNCHANGED <<plan, cursors>>

-------------------------------------------------------------------------------
(* ReqSearchStart, ReqSearchNext, ReqSearchStop                               *)

\* The keys that match a search, in order.
Matches(checks) == {k \in DOMAIN rec : RecordMatches(rec[k], checks)}
InOrder(S) == [i \in 1..Cardinality(S) |->
                 CHOOSE k \in S : Cardinality({j \in S : j < k}) = i - 1]

Copies(S) == [i \in 1..Cardinality(S) |->
                LET key == InOrder(S)[i] IN [key |-> key, record |-> rec[key]]]

\* The search runs; its result, a copy of the records, is not filed yet.
SearchRun(c) ==
    /\ conn[c].pc = "handle" /\ Request(c).kind = "start"
    /\ \/ Checks(c) = Err /\ Fail(c)
       \/ /\ Checks(c) # Err
          /\ conn' = [conn EXCEPT ![c].pc = "insert", ![c].found = Copies(Matches(Checks(c)))]
          /\ UNCHANGED log
    /\ UNCHANGED <<plan, rec, cursors>>

\* The cursor is filed under the client's id.  (The lock is released and taken again
\* before the first record is sent.)
SearchInsert(c) ==
    LET found == conn[c].found IN
    /\ conn[c].pc = "insert"
    /\ cursors' = With(cursors, Request(c).id,
                       [records |-> found, format |-> Request(c).format])
    /\ conn' = [conn EXCEPT ![c].pc = "respond", ![c].found = <<>>, ![c].search = "open",
                            ![c].under = Request(c).id,
                            ![c].matched = [i \in DOMAIN found |-> found[i].key],
                            ![c].received = <<>>]
    /\ UNCHANGED <<plan, rec, log>>

Popped(id) == [cursors EXCEPT ![id].records = Tail(@)]

\* Mutant: a cursor is removed when one record is left in it.
DropsLast(id) == IF Len(cursors[id].records) <= 2 THEN Without(cursors, id) ELSE Popped(id)

\* What is left of the cursors after a record was sent; an empty one is removed.
AfterPop(id) == IF Len(cursors[id].records) = 1 THEN Without(cursors, id) ELSE Popped(id)

\* What a search has still to send.
Left(id) == IF id \in DOMAIN cursors THEN cursors[id].records ELSE <<>>

\* legacy_search_response, under the lock of the cursors; for a start as for a next.
\* A record that cannot be sent is lost, and an empty cursor then stays.
SearchResponse(c) ==
    LET id == Request(c).id
        own == id = conn[c].under
        item == Head(Left(id))
        sendable == CanSend(cursors[id].format, Schema, item.record)
    IN  /\ \/ conn[c].pc = "handle" /\ Request(c).kind = "next"
           \/ conn[c].pc = "respond"
        /\ \/ /\ Left(id) = <<>>
              /\ cursors' = Without(cursors, id)
              /\ conn' = [conn EXCEPT ![c].pc = "idle",
                                      ![c].search = IF own /\ @ = "open" THEN "done" ELSE @]
              /\ log' = log \cup {Entry(c, "done")}
           \/ /\ Left(id) # <<>> /\ sendable
              /\ cursors' = AfterPop(id)
              /\ conn' = [conn EXCEPT ![c].pc = "idle",
                                      ![c].received = IF own THEN Append(@, item.key) ELSE @]
              /\ log' = log \cup {Entry(c, "item")}
           \/ /\ Left(id) # <<>> /\ ~sendable
              /\ cursors' = Popped(id)
              /\ Fail(c)
        /\ UNCHANGED <<plan, rec>>

SearchStop(c) ==
    /\ conn[c].pc = "handle" /\ Request(c).kind = "stop"
    /\ cursors' = Without(cursors, Request(c).id)
    /\ conn' = [conn EXCEPT ![c].pc = "idle",
                            ![c].search = IF Request(c).id = conn[c].under THEN "none" ELSE @]
    /\ log' = log \cup {Entry(c, "done")}
    /\ UNCHANGED <<plan, rec>>

-------------------------------------------------------------------------------
\* ReqGet, ReqCount and the message types that are not served change nothing.
AnswerOf(c) ==
    LET q == Request(c) IN
    CASE q.kind = "get" /\ q.key \notin DOMAIN rec -> "not_found"
      [] q.kind = "get" /\ q.key \in DOMAIN rec ->
            IF CanSend(q.format, Schema, rec[q.key]) THEN "success" ELSE Err
      [] q.kind = "count" -> IF Checks(c) = Err THEN Err ELSE "count"
      [] q.kind = "other" -> "config_mismatch"
Inspect(c) ==
    /\ conn[c].pc = "handle" /\ Request(c).kind \in {"get", "count", "other"}
    /\ \E status \in {AnswerOf(c)} :
          \/ status = Err /\ Fail(c)
          \/ status # Err /\ Answer(c, status)
    /\ UNCHANGED <<plan, rec, cursors>>

Next ==
    \E c \in Clients :
        \/ \E q \in Plans[plan].menu[c] : Receive(c, q)
        \/ Disconnect(c) \/ Garbled(c)
        \/ AtomicDispatch(c) \/ AtomicChange(c) \/ AtomicPrefetch(c)
        \/ AtomicStore(c) \/ AtomicErase(c)
        \/ SearchRun(c) \/ SearchInsert(c) \/ SearchResponse(c) \/ SearchStop(c)
        \/ Inspect(c)

Spec == Init /\ [][Next]_vars

-------------------------------------------------------------------------------
AttributesOf(r) == DOMAIN r \subseteq DOMAIN Schema \cup {KeyAttribute}
TypeOK ==
    /\ plan \in DOMAIN Plans
    /\ DOMAIN rec \subseteq Keys /\ \A k \in DOMAIN rec : AttributesOf(rec[k])
    /\ \A id \in DOMAIN cursors :
          \A i \in DOMAIN cursors[id].records : AttributesOf(cursors[id].records[i].record)
    /\ \A c \in Clients :
          /\ conn[c].pc \in Phases /\ conn[c].sent \in 0..Plans[plan].limit[c]
          /\ conn[c].request \in Plans[plan].menu[c] \cup {0}
          /\ AttributesOf(conn[c].fetched)
          /\ conn[c].matched \in Seq(Keys) /\ conn[c].received \in Seq(Keys)
    /\ \A e \in log : e.status \in Statuses /\ e.request \in Plans[plan].menu[e.client]

\* What was answered with success among the requests that changed a key.
Changes(k) == {e \in log : /\ RequestOf[e.request].kind = "atomic"
                           /\ RequestOf[e.request].key = k
                           /\ e.status = "success"}

\* A request whose only function call is on the integer n, and the call's operand.
OnN(q) == q.format = "protocol" /\ ~q.erase /\ Len(q.funcalls) = 1 /\ q.funcalls[1].attr = "n"
          /\ q.funcalls[1].dt1 = KInt
Operand(q) == AsI64(q.funcalls[1].arg1[1])
IsAdd(q) == OnN(q) /\ q.funcalls[1].name = "num_add" /\ Operand(q) >= 0
IsIntegerN == "n" \in DOMAIN Schema /\ Schema["n"] = KInt
NumberAt(table, k) ==
    IF k \in DOMAIN table /\ "n" \in DOMAIN table[k] THEN table[k]["n"][2] ELSE 0

\* What the requests that were answered add.
Added == [e \in log |-> Operand(RequestOf[e.request])]

\* Additions of several clients to one counter all count, whether the record was
\* there or not, and stop at the largest integer: a counter that only additions
\* have changed holds its first value and the sum of the acknowledged ones.
\* (The existence check before the change and the await between them lose none.)
AddsAccumulate ==
    IsIntegerN => \A k \in Keys :
        (Changes(k) # {} /\ \A e \in Changes(k) : IsAdd(RequestOf[e.request]))
        => /\ k \in DOMAIN rec
           /\ NumberAt(rec, k) = Saturate(NumberAt(Initial, k) + SumFunctionOnSet(Added, Changes(k)))

\* The request checks that n equals a value and, if it succeeds, moves n away from it.
Expected(q) == AsI64(q.checks[1].value[1])
MovesAway(q) ==
    /\ OnN(q) /\ Len(q.checks) = 1 /\ q.checks[1].attr = "n" /\ q.checks[1].predicate = "eq"
    /\ \/ q.funcalls[1].name = "set" /\ Operand(q) # Expected(q)
       \/ /\ q.funcalls[1].name = "num_div" /\ Operand(q) # 0
          /\ Quotient(Expected(q), Operand(q)) # Expected(q)

\* Compare and swap: of the changes to a key that check n for one value and move it
\* away from that value, no two succeed while nothing else changes the key, also
\* when the change is computed on a copy of the record (legacy_apply_atomic_direct).
CheckedChangesExclude ==
    IsIntegerN => \A k \in Keys :
        (/\ \A e \in Changes(k) : MovesAway(RequestOf[e.request])
         /\ \A e, f \in Changes(k) :
               Expected(RequestOf[e.request]) = Expected(RequestOf[f.request]))
        => Cardinality(Changes(k)) <= 1

\* A client that was told its last search is done has received every record that matched
\* when the search ran, once and in order, whatever it asked of its other searches and
\* whatever other clients did meanwhile: they use other search ids, stop and restart
\* their own searches, change records and disconnect.
IdsOf(c) == {RequestOf[q].id : q \in {p \in Plans[plan].menu[c] :
                                        RequestOf[p].kind \in {"start", "next", "stop"}}}
SearchDeliversEach ==
    \A c \in Clients :
        conn[c].search = "done" /\ (\A d, e \in Clients : d # e => IdsOf(d) \cap IdsOf(e) = {})
        => conn[c].received = conn[c].matched

\* A search for a key's bytes finds the record of that key, if there is one, and no
\* other, whichever way the record was made or changed and also when a copy of it was
\* put back after another client had erased it: every record holds its own key.
KeySearchFindsRecord ==
    \A k \in Keys :
        Matches(<<[attr |-> KeyAttribute, predicate |-> "eq", value |-> KeyValue(k)]>>)
            = {k} \cap DOMAIN rec

\* What a client reads back is what is stored: after any function calls, in either
\* format and on either path, every attribute but the key's can be encoded for its
\* kind in the schema, and the encoding decodes to the same value, when the kind has a
\* datatype.  (Pushes to a list of lists are validated and stored, and cannot be read.)
StoredValuesRoundTrip ==
    \A k \in DOMAIN rec : \A a \in DOMAIN rec[k] \ {KeyAttribute} :
        HasDatatype(Schema[a]) =>
            LET bytes == ProtocolValue(Schema[a], rec[k][a])
            IN  bytes # Err /\ ValueFromKindBytes(Schema[a], bytes) = rec[k][a]

\* A connection fails only for what the daemon does not support.  In a space without
\* boolean and timestamp attributes and without containers of containers, while every
\* client speaks the protocol's own form, a request ends its connection only when its
\* body or its checks do not decode, or when it erases under a check: no function call
\* that was validated makes the engine fail half way through its mutations, and no
\* record is ever stored that a get or a search cannot send.  (A named search that is
\* continued under its id by a client of the other form fails that client.)
Supported == \A a \in DOMAIN Schema : HasDatatype(Schema[a]) /\ DefaultValue(Schema[a]) # Err
InProtocolForm ==
    \A c \in Clients : \A q \in Plans[plan].menu[c] :
        RequestOf[q].kind \in {"atomic", "start", "get", "count"} => RequestOf[q].format = "protocol"
Unserved(c) ==
    LET q == Request(c) IN
    \/ q.kind = "garbled"
    \/ q.kind = "atomic" /\ q.erase /\ q.checks # <<>>
    \/ q.kind \in {"start", "count"} /\ Checks(c) = Err
OnlyUnservedRequestsFail ==
    \A c \in Clients : conn[c].pc = "failed" /\ Supported /\ InProtocolForm => Unserved(c)

\* The two ways of an atomic request agree: what the engine makes of the mutations is
\* what the function calls make of the record, for operands of the attribute's own
\* datatype.  (The operand of a float's datatype on an integer is rounded on the
\* copy, and taken for the bits of an integer by the engine.)
PathsAgree ==
    \A c \in Clients :
        conn[c].pc = "change" =>
            \A q \in {Change(c)} :
                (\A i \in DOMAIN q.funcalls :
                    q.funcalls[i].dt1 = KindOf(Schema, q.funcalls[i].attr))
                => ApplyMutations(Keyed(q.key, EntryOf(q.key)), Mutations(q)) =
                      ApplyFuncalls(Schema, Keyed(q.key, EntryOf(q.key)), q.funcalls)
===============================================================================
