-------------------------- MODULE LegacyRequestsProofs -------------------------
(* What the legacy requests of many connections promise: the proofs, for any  *)
(* number of clients, keys, schemas and requests.                             *)
(*                                                                            *)
(* Searches: the cursor of a search is in one table with those of all other   *)
(* clients, and is popped by the start and by every next.  The invariant      *)
(* follows it from response to response: what was received, and what the      *)
(* cursor still holds, make up what was matched.                              *)
(*                                                                            *)
(* Values: what decodes for a kind, and what a function call makes of it, is   *)
(* a value of the kind, and a value is encoded and decoded to itself.          *)
(*                                                                            *)
(* Changes: a handler between two awaits has a request of its client that was *)
(* validated.  What function calls and mutations make of a record follows from *)
(* their traces.  The invariant relates the records to the answers: a key     *)
(* without a change is as it was, additions are in the counter, and of the    *)
(* changes that compare and swap there is one.                                *)
EXTENDS LegacyRequests, FoldsAndOrders

-------------------------------------------------------------------------------
(* Sequences whose elements have no type.                                     *)

Sequence(s) == s \in Seq(Range(s))

\* A sequence of anything is one of what it holds.
LEMMA AnySequence ==
    ASSUME NEW S, NEW s \in Seq(S)
    PROVE  Sequence(s) /\ Len(s) \in Nat /\ DOMAIN s = 1..Len(s)
BY SeqOfRange, LenProperties DEF Sequence

\* A function on the first numbers is a sequence.
LEMMA FunctionSequence ==
    ASSUME NEW n \in Nat, NEW f, f = [i \in 1..n |-> f[i]]
    PROVE  Sequence(f) /\ Len(f) = n
<1>1. f \in [1..n -> Range(f)]
    BY DEF Range
<1>2. f \in Seq(Range(f))
    BY <1>1, SeqDef
<1>3. Len(f) = n
    BY <1>1, <1>2, LenProperties
<1>4. QED
    BY <1>2, <1>3 DEF Sequence

\* The sequence without elements.
LEMMA NoSequence == Sequence(<<>>) /\ Len(<<>>) = 0
BY EmptySeq, AnySequence

\* What is left when the first element is taken.
LEMMA TailSequence ==
    ASSUME NEW s, Sequence(s), s # <<>>
    PROVE  /\ Sequence(Tail(s)) /\ Len(s) \in Nat /\ Len(s) > 0
           /\ Len(Tail(s)) = Len(s) - 1 /\ Head(s) = s[1]
           /\ \A i \in 1..Len(s) - 1 : Tail(s)[i] = s[i + 1]
<1>1. s \in Seq(Range(s)) /\ Len(s) \in Nat
    BY AnySequence DEF Sequence
<1>2. /\ Tail(s) \in Seq(Range(s)) /\ Len(Tail(s)) = Len(s) - 1 /\ Head(s) = s[1]
      /\ \A i \in 1..Len(Tail(s)) : Tail(s)[i] = s[i + 1]
    BY <1>1, HeadTailProperties
<1>3. Len(s) > 0
    BY <1>1, EmptySeq
<1>4. QED
    BY <1>1, <1>2, <1>3, AnySequence

\* What there is when one more is received.
LEMMA AppendSequence ==
    ASSUME NEW s, Sequence(s), NEW e
    PROVE  /\ Sequence(Append(s, e)) /\ Len(s) \in Nat /\ Len(Append(s, e)) = Len(s) + 1
           /\ \A i \in 1..Len(s) : Append(s, e)[i] = s[i]
           /\ Append(s, e)[Len(s) + 1] = e
<1> DEFINE S == Range(s) \cup {e}
<1>1. s \in Seq(S) /\ e \in S /\ Len(s) \in Nat
    BY SeqMonotonic, AnySequence DEF Sequence
<1> HIDE DEF S
<1>2. /\ Append(s, e) \in Seq(S) /\ Len(Append(s, e)) = Len(s) + 1
      /\ \A i \in 1..Len(s) : Append(s, e)[i] = s[i]
      /\ Append(s, e)[Len(s) + 1] = e
    BY <1>1, AppendProperties
<1>3. QED
    BY <1>1, <1>2, AnySequence

\* Sequences of the same elements are equal.
LEMMA SameSequence ==
    ASSUME NEW s, NEW t, Sequence(s), Sequence(t), Len(s) = Len(t),
           \A i \in 1..Len(s) : s[i] = t[i]
    PROVE  s = t
<1> DEFINE S == Range(s) \cup Range(t)
<1>1. s \in Seq(S) /\ t \in Seq(S)
    BY SeqMonotonic DEF Sequence
<1> HIDE DEF S
<1>2. QED
    BY <1>1, SeqEqual

-------------------------------------------------------------------------------
(* The invariant.                                                             *)

Fields == {"pc", "request", "decoded", "sent", "fetched", "found", "search", "under",
           "matched", "received"}

\* Connections and cursors have their fields.
Shaped ==
    /\ plan \in DOMAIN Plans
    /\ DOMAIN conn = Clients /\ \A c \in Clients : DOMAIN conn[c] = Fields
    /\ \A id \in DOMAIN cursors :
          DOMAIN cursors[id] = {"records", "format"} /\ Sequence(cursors[id].records)

\* A handler is at a request of its client, and at a search's later steps only for a
\* start.
Handles(c) ==
    /\ conn[c].pc \in {"handle", "insert", "respond"} => conn[c].request \in Plans[plan].menu[c]
    /\ conn[c].pc \in {"insert", "respond"} => Request(c).kind = "start"
    /\ Sequence(conn[c].found) /\ Sequence(conn[c].matched) /\ Sequence(conn[c].received)

\* What was received and what is left in the cursor are what was matched.
Follows(c) ==
    /\ Len(conn[c].matched) = Len(conn[c].received) + Len(Left(conn[c].under))
    /\ \A i \in 1..Len(conn[c].received) : conn[c].received[i] = conn[c].matched[i]
    /\ \A i \in 1..Len(Left(conn[c].under)) :
          Left(conn[c].under)[i].key = conn[c].matched[Len(conn[c].received) + i]

\* The last search of a client has one of its ids; while it is open its cursor
\* follows, unless a record could not be sent; and when it is done it is empty.
Delivers(c) ==
    /\ conn[c].search # "none" => conn[c].under \in IdsOf(c)
    /\ conn[c].search = "open" /\ conn[c].pc # "failed" => Follows(c)
    /\ conn[c].search = "done" =>
          conn[c].received = conn[c].matched /\ Left(conn[c].under) = <<>>

\* No two clients use one search id.
Apart == \A c, d \in Clients : c # d => IdsOf(c) \cap IdsOf(d) = {}

SearchInv ==
    /\ Shaped
    /\ \A c \in Clients : Handles(c)
    /\ Apart => \A c \in Clients : Delivers(c)

\* Nothing was searched.
LEMMA SearchInit == Init => SearchInv
<1> SUFFICES ASSUME Init PROVE SearchInv
    OBVIOUS
<1>1. \A c \in Clients :
         /\ DOMAIN conn[c] = Fields /\ conn[c].pc = "idle" /\ conn[c].search = "none"
         /\ conn[c].found = <<>> /\ conn[c].matched = <<>> /\ conn[c].received = <<>>
    BY DEF Init, Fields
<1>2. DOMAIN conn = Clients /\ DOMAIN cursors = {} /\ plan \in DOMAIN Plans
    BY DEF Init, NoAttributes
<1>3. Shaped
    BY <1>1, <1>2 DEF Shaped
<1>4. \A c \in Clients : Handles(c)
    BY <1>1, NoSequence DEF Handles
<1>5. \A c \in Clients : Delivers(c)
    BY <1>1 DEF Delivers
<1>6. QED
    BY <1>3, <1>4, <1>5 DEF SearchInv

-------------------------------------------------------------------------------
(* Steps.                                                                     *)

\* A step of the connection c is of no other.
Own(c) ==
    /\ plan' = plan
    /\ DOMAIN conn' = Clients /\ DOMAIN conn'[c] = Fields
    /\ \A d \in Clients \ {c} : conn'[d] = conn[d]

\* What a step that is not about searches leaves alone.
Quiet(c) ==
    /\ Own(c) /\ cursors' = cursors
    /\ conn'[c].search = conn[c].search /\ conn'[c].under = conn[c].under
    /\ conn'[c].matched = conn[c].matched /\ conn'[c].received = conn[c].received

\* The record of a connection is replaced.
LEMMA Replaced ==
    ASSUME Shaped, NEW c \in Clients, NEW r, DOMAIN r = Fields, plan' = plan,
           conn' = [conn EXCEPT ![c] = r]
    PROVE  Own(c) /\ conn'[c] = r
BY DEF Shaped, Own

\* What an answer, and going to another step, leave alone.
Keeps(c) ==
    /\ conn'[c].request = conn[c].request /\ conn'[c].decoded = conn[c].decoded
    /\ conn'[c].sent = conn[c].sent /\ conn'[c].found = conn[c].found
    /\ conn'[c].search = conn[c].search /\ conn'[c].under = conn[c].under
    /\ conn'[c].matched = conn[c].matched /\ conn'[c].received = conn[c].received

\* A connection goes to another step.
LEMMA GotoFields ==
    ASSUME Shaped, NEW c \in Clients, NEW pc, Goto(c, pc), plan' = plan
    PROVE  /\ Own(c) /\ Keeps(c) /\ conn'[c].pc = pc /\ conn'[c].fetched = conn[c].fetched
           /\ log' = log
<1> DEFINE r == [conn[c] EXCEPT !.pc = pc]
<1>1. conn' = [conn EXCEPT ![c] = r] /\ log' = log
    BY DEF Goto
<1>2. DOMAIN conn[c] = Fields
    BY DEF Shaped
<1>3. /\ DOMAIN r = Fields /\ r.pc = pc /\ r.found = conn[c].found /\ r.request = conn[c].request
      /\ r.decoded = conn[c].decoded /\ r.sent = conn[c].sent /\ r.fetched = conn[c].fetched
    BY <1>2 DEF Fields
<1>4. /\ r.search = conn[c].search /\ r.under = conn[c].under
      /\ r.matched = conn[c].matched /\ r.received = conn[c].received
    BY <1>2 DEF Fields
<1> HIDE DEF r
<1>5. Own(c) /\ conn'[c] = r
    BY <1>1, <1>3, Replaced
<1>6. QED
    BY <1>1, <1>3, <1>4, <1>5 DEF Keeps

\* A connection answers.
LEMMA AnswerFields ==
    ASSUME Shaped, NEW c \in Clients, NEW status, Answer(c, status), plan' = plan
    PROVE  /\ Own(c) /\ Keeps(c) /\ conn'[c].pc = "idle" /\ conn'[c].fetched = NoAttributes
           /\ log' = log \cup {Entry(c, status)}
<1> DEFINE r == [conn[c] EXCEPT !.pc = "idle", !.fetched = NoAttributes]
<1>1. conn' = [conn EXCEPT ![c] = r] /\ log' = log \cup {Entry(c, status)}
    BY DEF Answer
<1>2. DOMAIN conn[c] = Fields
    BY DEF Shaped
<1>3. /\ DOMAIN r = Fields /\ r.pc = "idle" /\ r.found = conn[c].found /\ r.request = conn[c].request
      /\ r.decoded = conn[c].decoded /\ r.sent = conn[c].sent /\ r.fetched = NoAttributes
    BY <1>2 DEF Fields
<1>4. /\ r.search = conn[c].search /\ r.under = conn[c].under
      /\ r.matched = conn[c].matched /\ r.received = conn[c].received
    BY <1>2 DEF Fields
<1> HIDE DEF r
<1>5. Own(c) /\ conn'[c] = r
    BY <1>1, <1>3, Replaced
<1>6. QED
    BY <1>1, <1>3, <1>4, <1>5 DEF Keeps

\* Going to another step is quiet when the cursors stay.
LEMMA GotoEffect ==
    ASSUME Shaped, NEW c \in Clients, NEW pc, Goto(c, pc), plan' = plan, cursors' = cursors
    PROVE  /\ Quiet(c) /\ conn'[c].pc = pc /\ conn'[c].found = conn[c].found
           /\ conn'[c].request = conn[c].request
BY GotoFields DEF Quiet, Keeps

\* So does an answer.
LEMMA AnswerEffect ==
    ASSUME Shaped, NEW c \in Clients, NEW status, Answer(c, status), plan' = plan,
           cursors' = cursors
    PROVE  Quiet(c) /\ conn'[c].pc = "idle" /\ conn'[c].found = conn[c].found
BY AnswerFields DEF Quiet, Keeps

\* A step that is not about searches keeps the invariant.
LEMMA QuietStep ==
    ASSUME SearchInv, NEW c \in Clients, Quiet(c), Handles(c)', conn[c].pc # "failed"
    PROVE  SearchInv'
<1>1. Shaped'
    BY DEF SearchInv, Shaped, Quiet, Own
<1>2. \A d \in Clients : Handles(d)'
    BY DEF SearchInv, Handles, Request, Quiet, Own
<1>3. Apart' => Apart
    BY DEF Apart, IdsOf, Quiet, Own
<1>4. ASSUME NEW d \in Clients, Delivers(d) PROVE Delivers(d)'
  <2>1. /\ conn'[d].search = conn[d].search /\ conn'[d].under = conn[d].under
        /\ conn'[d].matched = conn[d].matched /\ conn'[d].received = conn[d].received
        /\ conn'[d].pc # "failed" => conn[d].pc # "failed"
    BY DEF Quiet, Own
  <2>2. Left(conn[d].under)' = Left(conn[d].under) /\ IdsOf(d)' = IdsOf(d)
    BY <2>1 DEF Left, IdsOf, Quiet, Own
  <2>3. Follows(d) => Follows(d)'
    BY <2>1, <2>2 DEF Follows
  <2>4. QED
    BY <1>4, <2>1, <2>2, <2>3 DEF Delivers
<1>5. QED
    BY <1>1, <1>2, <1>3, <1>4 DEF SearchInv

\* Requests other than searches touch nothing of a search.
LEMMA PlainEffect ==
    ASSUME SearchInv, NEW c \in Clients,
           \/ Disconnect(c) \/ Garbled(c) \/ AtomicDispatch(c) \/ AtomicChange(c)
           \/ AtomicPrefetch(c) \/ AtomicStore(c) \/ AtomicErase(c) \/ Inspect(c)
    PROVE  /\ Quiet(c) /\ conn'[c].found = conn[c].found /\ conn[c].pc # "failed"
           /\ conn'[c].pc \notin {"handle", "insert", "respond"}
<1>0. Shaped /\ DOMAIN conn[c] = Fields
    BY DEF SearchInv, Shaped
<1>1. plan' = plan /\ cursors' = cursors /\ conn[c].pc # "failed"
    BY DEF Disconnect, Garbled, AtomicDispatch, AtomicChange, AtomicPrefetch, AtomicStore,
       AtomicErase, Inspect
<1>2. SUFFICES Quiet(c) /\ conn'[c].found = conn[c].found
               /\ conn'[c].pc \notin {"handle", "insert", "respond"}
    BY <1>1
<1>3. CASE \E status : Answer(c, status)
    BY <1>0, <1>1, <1>3, AnswerEffect
<1>4. CASE \E pc : Goto(c, pc) /\ pc \notin {"handle", "insert", "respond"}
    BY <1>0, <1>1, <1>4, GotoEffect
<1>5. CASE Disconnect(c) \/ Garbled(c)
    BY <1>4, <1>5 DEF Disconnect, Garbled, Fail
<1>6. CASE AtomicDispatch(c)
  <2>1. CASE Fail(c) \/ Answer(c, "bad_dimension_spec")
    BY <1>3, <1>4, <2>1 DEF Fail
  <2>2. CASE AtomicRoute(c, Change(c), Request(c).key \in DOMAIN rec)
    BY <1>3, <1>4, <2>2 DEF AtomicRoute
  <2>3. QED
    BY <1>6, <2>1, <2>2 DEF AtomicDispatch
<1>7. CASE AtomicChange(c)
  <2>1. (\E status : Answer(c, status)) \/ Fail(c)
    BY <1>7 DEF AtomicChange
  <2>2. QED
    BY <1>3, <1>4, <2>1 DEF Fail
<1>8. CASE AtomicPrefetch(c)
  <2>1. PICK updated : Answer(c, "bad_dimension_spec")
                       \/ conn' = [conn EXCEPT ![c].pc = "store", ![c].fetched = updated]
    BY <1>8 DEF AtomicPrefetch
  <2>2. CASE conn' = [conn EXCEPT ![c].pc = "store", ![c].fetched = updated]
    <3> DEFINE r == [conn[c] EXCEPT !.pc = "store", !.fetched = updated]
    <3>1. conn' = [conn EXCEPT ![c] = r]
        BY <2>2
    <3>2. DOMAIN r = Fields /\ r.pc = "store" /\ r.found = conn[c].found
        BY <1>0 DEF Fields
    <3>3. /\ r.search = conn[c].search /\ r.under = conn[c].under
          /\ r.matched = conn[c].matched /\ r.received = conn[c].received
        BY <1>0 DEF Fields
    <3> HIDE DEF r
    <3>4. Own(c) /\ conn'[c] = r
        BY <1>0, <1>1, <3>1, <3>2, Replaced
    <3>5. QED
        BY <1>1, <3>2, <3>3, <3>4 DEF Quiet
  <2>3. QED
    BY <1>3, <2>1, <2>2
<1>9. CASE AtomicStore(c) \/ AtomicErase(c)
    BY <1>3, <1>9 DEF AtomicStore, AtomicErase
<1>10. CASE Inspect(c)
    BY <1>3, <1>4, <1>10 DEF Inspect, Fail
<1>11. QED
    BY <1>5, <1>6, <1>7, <1>8, <1>9, <1>10

\* They keep the invariant.
LEMMA PlainStep ==
    ASSUME SearchInv, NEW c \in Clients,
           \/ Disconnect(c) \/ Garbled(c) \/ AtomicDispatch(c) \/ AtomicChange(c)
           \/ AtomicPrefetch(c) \/ AtomicStore(c) \/ AtomicErase(c) \/ Inspect(c)
    PROVE  SearchInv'
<1>1. Handles(c)
    BY DEF SearchInv
<1>2. /\ Quiet(c) /\ conn'[c].found = conn[c].found /\ conn[c].pc # "failed"
      /\ conn'[c].pc \notin {"handle", "insert", "respond"}
    BY PlainEffect
<1>3. Handles(c)'
    BY <1>1, <1>2 DEF Handles, Quiet
<1>4. QED
    BY <1>2, <1>3, QuietStep

\* A frame arrives: its request is one the client may send.
LEMMA ReceiveStep ==
    ASSUME SearchInv, NEW c \in Clients, NEW q \in Plans[plan].menu[c], Receive(c, q)
    PROVE  SearchInv'
<1>0. Shaped /\ Handles(c) /\ DOMAIN conn[c] = Fields
    BY DEF SearchInv, Shaped
<1> DEFINE r == [conn[c] EXCEPT !.request = q, !.sent = @ + 1, !.pc = "handle",
                                !.decoded = Decoded(Schema, RequestOf[q])]
<1>1. conn' = [conn EXCEPT ![c] = r] /\ plan' = plan /\ cursors' = cursors
      /\ conn[c].pc = "idle"
    BY DEF Receive
<1>2. DOMAIN r = Fields /\ r.pc = "handle" /\ r.request = q /\ r.found = conn[c].found
    BY <1>0 DEF Fields
<1>3. /\ r.search = conn[c].search /\ r.under = conn[c].under
      /\ r.matched = conn[c].matched /\ r.received = conn[c].received
    BY <1>0 DEF Fields
<1> HIDE DEF r
<1>4. Own(c) /\ conn'[c] = r
    BY <1>0, <1>1, <1>2, Replaced
<1>5. Quiet(c) /\ Handles(c)'
    BY <1>0, <1>1, <1>2, <1>3, <1>4 DEF Quiet, Handles
<1>6. QED
    BY <1>1, <1>5, QuietStep

\* A search runs: what it found is a sequence.
LEMMA RunStep ==
    ASSUME SearchInv, DOMAIN rec \subseteq Keys, NEW c \in Clients, SearchRun(c)
    PROVE  SearchInv'
<1>0. /\ Shaped /\ Handles(c) /\ DOMAIN conn[c] = Fields
      /\ conn[c].pc = "handle" /\ Request(c).kind = "start" /\ plan' = plan /\ cursors' = cursors
    BY DEF SearchInv, Shaped, SearchRun
<1>1. CASE Fail(c)
  <2>1. Quiet(c) /\ conn'[c].pc = "failed" /\ conn'[c].found = conn[c].found
    BY <1>0, <1>1, GotoEffect DEF Fail
  <2>2. QED
    BY <1>0, <2>1, QuietStep DEF Handles, Quiet
<1>2. CASE ~Fail(c)
  <2> DEFINE S == Matches(Checks(c))
             f == Copies(S)
             r == [conn[c] EXCEPT !.pc = "insert", !.found = f]
  <2>1. conn' = [conn EXCEPT ![c] = r]
    BY <1>2 DEF SearchRun
  <2>2. DOMAIN r = Fields /\ r.pc = "insert" /\ r.request = conn[c].request /\ r.found = f
    BY <1>0 DEF Fields
  <2>3. /\ r.search = conn[c].search /\ r.under = conn[c].under
        /\ r.matched = conn[c].matched /\ r.received = conn[c].received
    BY <1>0 DEF Fields
  <2>4. Sequence(f)
    <3>1. S \subseteq Keys
        BY DEF Matches
    <3>2. Cardinality(S) \in Nat
        BY <3>1, KeysAssumption, FS_Subset, FS_CardinalityType
    <3>3. f = [i \in 1..Cardinality(S) |-> f[i]]
        BY DEF Copies
    <3> HIDE DEF f, S
    <3>4. QED
        BY <3>2, <3>3, FunctionSequence
  <2> HIDE DEF r, f
  <2>5. Own(c) /\ conn'[c] = r
    BY <1>0, <2>1, <2>2, Replaced
  <2>6. Quiet(c) /\ Handles(c)'
    BY <1>0, <2>2, <2>3, <2>4, <2>5 DEF Quiet, Handles, Request, Own
  <2>7. QED
    BY <1>0, <2>6, QuietStep
<1>3. QED
    BY <1>1, <1>2

-------------------------------------------------------------------------------
(* Cursors.                                                                   *)

CursorsShaped ==
    \A id \in DOMAIN cursors :
        DOMAIN cursors[id] = {"records", "format"} /\ Sequence(cursors[id].records)

\* A step changes the cursor of one id at most.
Only(id) == \A j : j # id => Left(j)' = Left(j)

\* A cursor is filed.
LEMMA Filed ==
    ASSUME CursorsShaped, NEW id, NEW records, NEW format, Sequence(records),
           cursors' = With(cursors, id, [records |-> records, format |-> format])
    PROVE  CursorsShaped' /\ Only(id) /\ Left(id)' = records
<1> DEFINE v == [records |-> records, format |-> format]
<1>1. DOMAIN v = {"records", "format"} /\ v.records = records
    OBVIOUS
<1> HIDE DEF v
<1>2. /\ DOMAIN cursors' = DOMAIN cursors \cup {id} /\ cursors'[id] = v
      /\ \A j \in DOMAIN cursors : j # id => cursors'[j] = cursors[j]
    BY DEF With, v
<1>3. CursorsShaped'
    BY <1>1, <1>2 DEF CursorsShaped
<1>4. QED
    BY <1>1, <1>2, <1>3 DEF Only, Left

\* A cursor is removed.
LEMMA Removed ==
    ASSUME CursorsShaped, NEW id, cursors' = Without(cursors, id)
    PROVE  CursorsShaped' /\ Only(id) /\ Left(id)' = <<>>
<1>1. /\ DOMAIN cursors' = DOMAIN cursors \ {id}
      /\ \A j \in DOMAIN cursors : j # id => cursors'[j] = cursors[j]
    BY DEF Without
<1>2. QED
    BY <1>1 DEF CursorsShaped, Only, Left

\* The first record of a cursor is taken.
LEMMA Taken ==
    ASSUME CursorsShaped, NEW id, Left(id) # <<>>, cursors' = Popped(id)
    PROVE  CursorsShaped' /\ Only(id) /\ Left(id)' = Tail(Left(id))
<1>1. id \in DOMAIN cursors /\ Left(id) = cursors[id].records
    BY DEF Left
<1> DEFINE v == [cursors[id] EXCEPT !.records = Tail(@)]
<1>2. DOMAIN cursors[id] = {"records", "format"} /\ Sequence(cursors[id].records)
    BY <1>1 DEF CursorsShaped
<1>3. DOMAIN v = {"records", "format"} /\ v.records = Tail(Left(id))
    BY <1>1, <1>2
<1>4. Sequence(v.records)
    BY <1>1, <1>2, <1>3, TailSequence
<1> HIDE DEF v
<1>5. cursors' = [cursors EXCEPT ![id] = v]
    BY DEF Popped, v
<1>6. /\ DOMAIN cursors' = DOMAIN cursors /\ cursors'[id] = v
      /\ \A j \in DOMAIN cursors : j # id => cursors'[j] = cursors[j]
    BY <1>1, <1>5
<1>7. CursorsShaped'
    BY <1>3, <1>4, <1>6 DEF CursorsShaped
<1>8. QED
    BY <1>1, <1>3, <1>6, <1>7 DEF Only, Left

\* The first record of a cursor is taken, and the cursor removed if it was the last.
LEMMA Sent ==
    ASSUME CursorsShaped, NEW id, Left(id) # <<>>, cursors' = AfterPop(id)
    PROVE  CursorsShaped' /\ Only(id) /\ Left(id)' = Tail(Left(id))
<1>1. id \in DOMAIN cursors /\ Left(id) = cursors[id].records /\ Sequence(Left(id))
    BY DEF Left, CursorsShaped
<1>2. CASE Len(Left(id)) = 1
  <2>1. Sequence(Tail(Left(id))) /\ Len(Tail(Left(id))) = 0
    BY <1>1, <1>2, TailSequence
  <2>2. Tail(Left(id)) = <<>>
    BY <2>1, NoSequence, SameSequence
  <2>3. QED
    BY <1>1, <1>2, <2>2, Removed DEF AfterPop
<1>3. CASE Len(Left(id)) # 1
    BY <1>1, <1>3, Taken DEF AfterPop
<1>4. QED
    BY <1>2, <1>3

\* A step of c that touches a cursor of c alone keeps the invariant, if it does for c.
LEMMA CursorStep ==
    ASSUME SearchInv, NEW c \in Clients, Own(c), NEW id \in IdsOf(c), Only(id),
           CursorsShaped', Handles(c)', Apart /\ Delivers(c) => Delivers(c)'
    PROVE  SearchInv'
<1>1. Shaped'
    BY DEF SearchInv, Shaped, CursorsShaped, Own
<1>2. \A d \in Clients : Handles(d)'
    BY DEF SearchInv, Handles, Request, Own
<1>3. \A d \in Clients : IdsOf(d)' = IdsOf(d)
    BY DEF IdsOf, Own
<1>4. Apart' <=> Apart
    BY <1>3 DEF Apart
<1>5. ASSUME Apart, NEW d \in Clients, d # c, Delivers(d) PROVE Delivers(d)'
  <2>1. conn'[d] = conn[d]
    BY <1>5 DEF Own
  <2>2. CASE conn[d].search = "none"
    BY <2>1, <2>2 DEF Delivers
  <2>3. CASE conn[d].search # "none"
    <3>1. conn[d].under \in IdsOf(d) /\ conn[d].under # id
        BY <1>5, <2>3 DEF Delivers, Apart
    <3>2. Left(conn[d].under)' = Left(conn[d].under)
        BY <2>1, <3>1 DEF Only
    <3>3. Follows(d) => Follows(d)'
        BY <2>1, <3>2 DEF Follows
    <3>4. QED
        BY <1>3, <1>5, <2>1, <3>2, <3>3 DEF Delivers
  <2>4. QED
    BY <2>2, <2>3
<1>6. QED
    BY <1>1, <1>2, <1>4, <1>5 DEF SearchInv

\* The id of a search request is one of the client's.
LEMMA OwnId ==
    ASSUME SearchInv, NEW c \in Clients, conn[c].pc \in {"handle", "insert", "respond"},
           Request(c).kind \in {"start", "next", "stop"}
    PROVE  Request(c).id \in IdsOf(c)
BY DEF SearchInv, Handles, IdsOf, Request

\* The result of a search is filed: all of it is still to be sent.
LEMMA InsertStep ==
    ASSUME SearchInv, NEW c \in Clients, SearchInsert(c)
    PROVE  SearchInv'
<1>a. PICK id : id = Request(c).id
    OBVIOUS
<1> DEFINE found == conn[c].found
           keys == [i \in DOMAIN found |-> found[i].key]
           r == [conn[c] EXCEPT !.pc = "respond", !.found = <<>>, !.search = "open",
                                !.under = id, !.matched = keys, !.received = <<>>]
<1>0. /\ Shaped /\ Handles(c) /\ DOMAIN conn[c] = Fields /\ CursorsShaped
      /\ conn[c].pc = "insert" /\ plan' = plan
    BY DEF SearchInv, Shaped, SearchInsert, CursorsShaped
<1>1. /\ conn' = [conn EXCEPT ![c] = r]
      /\ cursors' = With(cursors, id, [records |-> found, format |-> Request(c).format])
    BY <1>a DEF SearchInsert
<1>2. Request(c).kind = "start" /\ id \in IdsOf(c) /\ Sequence(found)
    BY <1>0, <1>a, OwnId DEF Handles
<1>3. CursorsShaped' /\ Only(id) /\ Left(id)' = found
  <2> HIDE DEF found
  <2>1. QED
    BY <1>0, <1>1, <1>2, Filed
<1>4. DOMAIN r = Fields /\ r.pc = "respond" /\ r.request = conn[c].request /\ r.found = <<>>
    BY <1>0 DEF Fields
<1>5. /\ r.search = "open" /\ r.under = id /\ r.matched = keys /\ r.received = <<>>
    BY <1>0 DEF Fields
<1>6. Sequence(keys) /\ Len(keys) = Len(found) /\ Len(found) \in Nat
      /\ \A i \in 1..Len(found) : keys[i] = found[i].key
  <2> HIDE DEF found
  <2>1. Len(found) \in Nat /\ DOMAIN found = 1..Len(found)
    BY <1>2, AnySequence DEF Sequence
  <2>2. keys = [i \in 1..Len(found) |-> keys[i]]
    BY <2>1
  <2>3. \A i \in 1..Len(found) : keys[i] = found[i].key
    BY <2>1
  <2> HIDE DEF keys
  <2>4. QED
    BY <2>1, <2>2, <2>3, FunctionSequence
<1> HIDE DEF r, keys, found
<1>7. Own(c) /\ conn'[c] = r
    BY <1>0, <1>1, <1>4, Replaced
<1>8. Handles(c)'
  <2>1. Request(c)' = Request(c)
    BY <1>4, <1>7 DEF Request
  <2>2. conn[c].request \in Plans[plan].menu[c]
    BY <1>0 DEF Handles
  <2>3. QED
    BY <1>0, <1>2, <1>4, <1>5, <1>6, <1>7, <2>1, <2>2, NoSequence DEF Handles
<1>9. Delivers(c)'
  <2>1. IdsOf(c)' = IdsOf(c)
    BY <1>0 DEF IdsOf
  <2>2. Left(conn[c].under)' = found
    BY <1>3, <1>5, <1>7
  <2>3. conn'[c].received = <<>> /\ conn'[c].matched = keys
    BY <1>5, <1>7
  <2>4. /\ Len(keys) = 0 + Len(found)
        /\ \A i \in 1..Len(found) : found[i].key = keys[0 + i]
    BY <1>6
  <2>5. Follows(c)'
    <3>1. Len(<<>>) = 0 /\ 1..0 = {}
        BY NoSequence
    <3>2. /\ Len(conn'[c].matched) = Len(conn'[c].received) + Len(found)
          /\ \A i \in 1..Len(found) :
                found[i].key = conn'[c].matched[Len(conn'[c].received) + i]
        BY <2>3, <2>4, <3>1
    <3>3. \A i \in 1..Len(conn'[c].received) : conn'[c].received[i] = conn'[c].matched[i]
        BY <2>3, <3>1
    <3>4. QED
        BY <2>2, <3>2, <3>3 DEF Follows
  <2>6. QED
    BY <1>2, <1>5, <1>7, <2>1, <2>5 DEF Delivers
<1>10. QED
    BY <1>2, <1>3, <1>7, <1>8, <1>9, CursorStep

\* A search is stopped: its cursor is removed.
LEMMA StopStep ==
    ASSUME SearchInv, NEW c \in Clients, SearchStop(c)
    PROVE  SearchInv'
<1>a. PICK id : id = Request(c).id
    OBVIOUS
<1> DEFINE r == [conn[c] EXCEPT !.pc = "idle",
                                !.search = IF id = conn[c].under THEN "none" ELSE @]
<1>0. /\ Shaped /\ Handles(c) /\ DOMAIN conn[c] = Fields /\ CursorsShaped
      /\ conn[c].pc = "handle" /\ plan' = plan /\ id \in IdsOf(c)
    BY <1>a, OwnId DEF SearchInv, Shaped, SearchStop, CursorsShaped
<1>1. conn' = [conn EXCEPT ![c] = r] /\ cursors' = Without(cursors, id)
    BY <1>a DEF SearchStop
<1>2. DOMAIN r = Fields /\ r.pc = "idle" /\ r.found = conn[c].found
    BY <1>0 DEF Fields
<1>3. /\ r.search = IF id = conn[c].under THEN "none" ELSE conn[c].search
      /\ r.under = conn[c].under /\ r.matched = conn[c].matched
      /\ r.received = conn[c].received
    BY <1>0 DEF Fields
<1> HIDE DEF r
<1>4. CursorsShaped' /\ Only(id)
    BY <1>0, <1>1, Removed
<1>5. Own(c) /\ conn'[c] = r
    BY <1>0, <1>1, <1>2, Replaced
<1>6. Handles(c)'
    BY <1>0, <1>2, <1>3, <1>5 DEF Handles
<1>7. ASSUME Delivers(c) PROVE Delivers(c)'
  <2>1. IdsOf(c)' = IdsOf(c)
    BY <1>0 DEF IdsOf
  <2>2. CASE id = conn[c].under
    BY <1>3, <1>5, <2>2 DEF Delivers
  <2>3. CASE id # conn[c].under
    <3>1. Left(conn[c].under)' = Left(conn[c].under)
        BY <1>3, <1>4, <1>5, <2>3 DEF Only
    <3>2. Follows(c) => Follows(c)'
        BY <1>3, <1>5, <3>1 DEF Follows
    <3>3. QED
        BY <1>0, <1>3, <1>5, <1>7, <2>1, <2>3, <3>1, <3>2 DEF Delivers
  <2>4. QED
    BY <2>2, <2>3
<1>8. QED
    BY <1>0, <1>4, <1>5, <1>6, <1>7, CursorStep

\* A response takes the first record of the cursor to the client, or says that there is
\* none, or fails at the record.
LEMMA ResponseStep ==
    ASSUME SearchInv, NEW c \in Clients, SearchResponse(c)
    PROVE  SearchInv'
<1>a. PICK id : id = Request(c).id
    OBVIOUS
<1> DEFINE own == id = conn[c].under
           item == Head(Left(id))
<1>0. /\ Shaped /\ Handles(c) /\ DOMAIN conn[c] = Fields /\ CursorsShaped
      /\ conn[c].pc \in {"handle", "respond"} /\ plan' = plan
    BY DEF SearchInv, Shaped, SearchResponse, CursorsShaped
<1>1. id \in IdsOf(c)
    BY <1>0, <1>a, OwnId DEF SearchResponse, Handles
<1>2. IdsOf(c)' = IdsOf(c)
    BY <1>0 DEF IdsOf
<1>3. Sequence(Left(id)) /\ Sequence(conn[c].received) /\ Sequence(conn[c].matched)
    BY <1>0, NoSequence DEF CursorsShaped, Left, Handles
<1>4. ASSUME NEW r, conn'[c] = r, r.search = conn[c].search, r.under = conn[c].under,
             r.matched = conn[c].matched, r.received = conn[c].received,
             Only(id), ~own, Delivers(c)
      PROVE  Delivers(c)'
  <2>1. Left(conn[c].under)' = Left(conn[c].under)
    BY <1>4 DEF Only
  <2>2. Follows(c) => Follows(c)'
    BY <1>4, <2>1 DEF Follows
  <2>3. conn[c].pc # "failed"
    BY <1>0
  <2>4. QED
    BY <1>2, <1>4, <2>1, <2>2, <2>3 DEF Delivers
<1>5. CASE /\ Left(id) = <<>> /\ cursors' = Without(cursors, id)
           /\ conn' = [conn EXCEPT ![c].pc = "idle",
                                   ![c].search = IF own /\ @ = "open" THEN "done" ELSE @]
  <2> DEFINE r == [conn[c] EXCEPT !.pc = "idle",
                                  !.search = IF own /\ @ = "open" THEN "done" ELSE @]
  <2>1. conn' = [conn EXCEPT ![c] = r] /\ Left(id) = <<>> /\ cursors' = Without(cursors, id)
    BY <1>5
  <2>2. DOMAIN r = Fields /\ r.pc = "idle" /\ r.found = conn[c].found
    BY <1>0 DEF Fields
  <2>3. /\ r.search = IF own /\ conn[c].search = "open" THEN "done" ELSE conn[c].search
        /\ r.under = conn[c].under /\ r.matched = conn[c].matched
        /\ r.received = conn[c].received
    BY <1>0 DEF Fields
  <2> HIDE DEF r
  <2>4. CursorsShaped' /\ Only(id) /\ Left(id)' = <<>>
    BY <1>0, <2>1, Removed
  <2>5. Own(c) /\ conn'[c] = r
    BY <1>0, <2>1, <2>2, Replaced
  <2>6. Handles(c)'
    BY <1>0, <2>2, <2>3, <2>5 DEF Handles
  <2>7. ASSUME Delivers(c) PROVE Delivers(c)'
    <3>1. CASE own
      <4>1. Left(conn[c].under)' = <<>> /\ Left(conn[c].under) = <<>>
        BY <2>1, <2>3, <2>4, <2>5, <3>1
      <4>2. ASSUME conn[c].search = "open" PROVE conn[c].received = conn[c].matched
        <5>1. Follows(c)
            BY <1>0, <2>7, <4>2 DEF Delivers
        <5>2. Len(conn[c].received) \in Nat
            BY <1>3, AnySequence DEF Sequence
        <5>3. /\ Len(conn[c].matched) = Len(conn[c].received)
              /\ \A i \in 1..Len(conn[c].received) : conn[c].received[i] = conn[c].matched[i]
            BY <4>1, <5>1, <5>2, NoSequence DEF Follows
        <5>4. QED
            BY <1>3, <5>3, SameSequence
      <4>3. QED
        BY <1>0, <1>2, <2>3, <2>5, <2>7, <3>1, <4>1, <4>2 DEF Delivers
    <3>2. CASE ~own
        BY <1>4, <2>3, <2>4, <2>5, <2>7, <3>2
    <3>3. QED
        BY <3>1, <3>2
  <2>8. QED
    BY <1>1, <2>4, <2>5, <2>6, <2>7, CursorStep
<1>6. CASE /\ Left(id) # <<>> /\ cursors' = AfterPop(id)
           /\ conn' = [conn EXCEPT ![c].pc = "idle",
                                   ![c].received = IF own THEN Append(@, item.key) ELSE @]
  <2> DEFINE r == [conn[c] EXCEPT !.pc = "idle",
                                  !.received = IF own THEN Append(@, item.key) ELSE @]
  <2>1. conn' = [conn EXCEPT ![c] = r] /\ Left(id) # <<>> /\ cursors' = AfterPop(id)
    BY <1>6
  <2>2. DOMAIN r = Fields /\ r.pc = "idle" /\ r.found = conn[c].found
    BY <1>0 DEF Fields
  <2>3. /\ r.search = conn[c].search
        /\ r.under = conn[c].under /\ r.matched = conn[c].matched
        /\ r.received = IF own THEN Append(conn[c].received, item.key) ELSE conn[c].received
    BY <1>0 DEF Fields
  <2> HIDE DEF r
  <2>4. CursorsShaped' /\ Only(id) /\ Left(id)' = Tail(Left(id))
    BY <1>0, <2>1, Sent
  <2>5. Own(c) /\ conn'[c] = r
    BY <1>0, <2>1, <2>2, Replaced
  <2>6. /\ Sequence(Append(conn[c].received, item.key)) /\ Len(conn[c].received) \in Nat
        /\ Len(Append(conn[c].received, item.key)) = Len(conn[c].received) + 1
        /\ \A i \in 1..Len(conn[c].received) :
              Append(conn[c].received, item.key)[i] = conn[c].received[i]
        /\ Append(conn[c].received, item.key)[Len(conn[c].received) + 1] = item.key
    <3> HIDE DEF item
    <3>1. QED
        BY <1>3, AppendSequence
  <2>7. Handles(c)'
    BY <1>0, <1>3, <2>2, <2>3, <2>5, <2>6 DEF Handles
  <2>8. ASSUME Delivers(c) PROVE Delivers(c)'
    <3>1. CASE own
      <4>1. Left(conn[c].under)' = Tail(Left(id)) /\ Left(conn[c].under) = Left(id)
        BY <2>3, <2>4, <2>5, <3>1
      <4>2. conn[c].search # "done"
        BY <2>1, <2>8, <4>1 DEF Delivers
      <4>3. ASSUME Follows(c) PROVE Follows(c)'
        <5> DEFINE left == Left(id)
                   got == conn[c].received
                   all == conn[c].matched
        <5>1. /\ Len(all) = Len(got) + Len(left)
              /\ \A i \in 1..Len(got) : got[i] = all[i]
              /\ \A i \in 1..Len(left) : left[i].key = all[Len(got) + i]
            BY <4>1, <4>3 DEF Follows
        <5>2. /\ Len(left) \in Nat /\ Len(left) > 0 /\ Len(Tail(left)) = Len(left) - 1
              /\ item = left[1] /\ \A i \in 1..Len(left) - 1 : Tail(left)[i] = left[i + 1]
            BY <1>3, <2>1, TailSequence
        <5>3. /\ conn'[c].received = Append(got, item.key) /\ conn'[c].matched = all
              /\ Left(conn[c].under)' = Tail(left)
            BY <2>3, <2>5, <3>1, <4>1
        <5>4. /\ Len(got) \in Nat /\ Len(Append(got, item.key)) = Len(got) + 1
              /\ \A i \in 1..Len(got) : Append(got, item.key)[i] = got[i]
              /\ Append(got, item.key)[Len(got) + 1] = item.key
            BY <2>6
        <5> HIDE DEF left, got, all, item
        <5>5. Len(all) = Len(got) + 1 + Len(Tail(left))
          <6>1. \A l, g \in Nat : g + l = g + 1 + (l - 1)
            OBVIOUS
          <6>2. Len(got) + Len(left) = Len(got) + 1 + (Len(left) - 1)
            BY <5>2, <5>4, <6>1
          <6>3. QED
            BY <5>1, <5>2, <6>2
        <5>6. \A i \in 1..Len(got) + 1 : Append(got, item.key)[i] = all[i]
          <6>1. item.key = all[Len(got) + 1]
            BY <5>1, <5>2
          <6>2. QED
            BY <5>1, <5>4, <6>1
        <5>7. ASSUME NEW i \in 1..Len(left) - 1
              PROVE  Tail(left)[i].key = all[Len(got) + 1 + i]
          <6>1. i + 1 \in 1..Len(left) /\ Len(got) + (i + 1) = Len(got) + 1 + i
            BY <5>2, <5>4
          <6>2. left[i + 1].key = all[Len(got) + (i + 1)]
            BY <5>1, <6>1
          <6>3. QED
            BY <5>2, <6>1, <6>2
        <5>8. /\ Len(conn'[c].received) = Len(got) + 1
              /\ 1..Len(Tail(left)) = 1..Len(left) - 1
            BY <5>2, <5>3, <5>4
        <5>9. /\ Len(conn'[c].matched) = Len(conn'[c].received) + Len(Tail(left))
              /\ \A i \in 1..Len(conn'[c].received) : conn'[c].received[i] = conn'[c].matched[i]
            BY <5>3, <5>5, <5>6, <5>8
        <5>10. \A i \in 1..Len(Tail(left)) :
                  Tail(left)[i].key = conn'[c].matched[Len(conn'[c].received) + i]
            BY <5>3, <5>7, <5>8
        <5>11. QED
            BY <5>3, <5>9, <5>10 DEF Follows
      <4>4. QED
        BY <1>0, <1>2, <2>3, <2>5, <2>8, <4>2, <4>3 DEF Delivers
    <3>2. CASE ~own
        BY <1>4, <2>3, <2>4, <2>5, <2>8, <3>2
    <3>3. QED
        BY <3>1, <3>2
  <2>9. QED
    BY <1>1, <2>4, <2>5, <2>7, <2>8, CursorStep
<1>7. CASE Left(id) # <<>> /\ cursors' = Popped(id) /\ Fail(c)
  <2> DEFINE r == [conn[c] EXCEPT !.pc = "failed"]
  <2>1. conn' = [conn EXCEPT ![c] = r] /\ Left(id) # <<>> /\ cursors' = Popped(id)
    BY <1>7 DEF Fail, Goto
  <2>2. DOMAIN r = Fields /\ r.pc = "failed" /\ r.found = conn[c].found
    BY <1>0 DEF Fields
  <2>3. /\ r.search = conn[c].search /\ r.under = conn[c].under
        /\ r.matched = conn[c].matched /\ r.received = conn[c].received
    BY <1>0 DEF Fields
  <2> HIDE DEF r
  <2>4. CursorsShaped' /\ Only(id)
    BY <1>0, <2>1, Taken
  <2>5. Own(c) /\ conn'[c] = r
    BY <1>0, <2>1, <2>2, Replaced
  <2>6. Handles(c)'
    BY <1>0, <2>2, <2>3, <2>5 DEF Handles
  <2>7. ASSUME Delivers(c) PROVE Delivers(c)'
    <3>1. CASE own
      <4>1. conn[c].search # "done"
        BY <2>1, <2>7, <3>1 DEF Delivers
      <4>2. QED
        BY <1>2, <2>2, <2>3, <2>5, <2>7, <4>1 DEF Delivers
    <3>2. CASE ~own
        BY <1>4, <2>3, <2>4, <2>5, <2>7, <3>2
    <3>3. QED
        BY <3>1, <3>2
  <2>8. QED
    BY <1>1, <2>4, <2>5, <2>6, <2>7, CursorStep
<1>8. QED
    BY <1>a, <1>5, <1>6, <1>7 DEF SearchResponse

\* Every step keeps the invariant.
LEMMA SearchStep == SearchInv /\ DOMAIN rec \subseteq Keys /\ [Next]_vars => SearchInv'
<1> SUFFICES ASSUME SearchInv, DOMAIN rec \subseteq Keys, [Next]_vars PROVE SearchInv'
    OBVIOUS
<1>1. CASE Next
    BY <1>1, PlainStep, ReceiveStep, RunStep, InsertStep, ResponseStep, StopStep DEF Next
<1>2. CASE UNCHANGED vars
  <2>1. plan' = plan /\ cursors' = cursors /\ conn' = conn
    BY <1>2 DEF vars
  <2>2. Shaped' /\ \A c \in Clients : Handles(c)'
    BY <2>1 DEF SearchInv, Shaped, Handles, Request
  <2>3. \A c \in Clients : IdsOf(c)' = IdsOf(c) /\ Left(conn[c].under)' = Left(conn[c].under)
    BY <2>1 DEF IdsOf, Left
  <2>4. ASSUME NEW c \in Clients, Delivers(c) PROVE Delivers(c)'
    <3>1. Follows(c) => Follows(c)'
        BY <2>1, <2>3 DEF Follows
    <3>2. QED
        BY <2>1, <2>3, <2>4, <3>1 DEF Delivers
  <2>5. Apart' <=> Apart
    BY <2>3 DEF Apart
  <2>6. QED
    BY <2>2, <2>4, <2>5 DEF SearchInv
<1>3. QED
    BY <1>1, <1>2

-------------------------------------------------------------------------------
(* Function calls, one after the other.                                       *)

\* A record on its way through the calls, and whether they all went well.
State(r, ok) == [record |-> r, ok |-> ok]
Going(r) == State(r, TRUE)

\* The states t between the calls fs, or the mutations ms, of a request.
FuncallsPass(schema, r, n, fs) ==
    \E t : /\ t[0] = Going(r)
           /\ \A k \in 1..n : t[k] = ApplyFuncall(schema, t[k - 1], fs[k])
           /\ ApplyFuncalls(schema, r, fs) = t[n]
MutationsPass(r, n, ms) ==
    \E t : /\ t[0] = Going(r)
           /\ \A k \in 1..n : t[k] = ApplyMutation(t[k - 1], ms[k])
           /\ ApplyMutations(r, ms) = t[n]

\* The calls have such states.
LEMMA FuncallTrace ==
    ASSUME NEW schema, NEW r, NEW n \in Nat, NEW fs, DOMAIN fs = 1..n
    PROVE  FuncallsPass(schema, r, n, fs)
<1> DEFINE Step(a, k) == ApplyFuncall(schema, a, fs[k])
           base == [record |-> r, ok |-> TRUE]
           Rec(m, g) == g = [s \in SUBSET (1..m) |->
                               IF s = {} THEN base ELSE Step(g[s \ {Max(s)}], Max(s))]
           it == CHOOSE g : Rec(n, g)
           t == [k \in 0..n |-> it[1..k]]
           N == {m \in Nat : \E g : Rec(m, g)}
<1>1. ApplyFuncalls(schema, r, fs) = it[1..n]
    BY DEF ApplyFuncalls, FoldLeft, MapThenFoldSet
<1>2. base = Going(r)
    BY DEF State, Going
<1> HIDE DEF Step, base
<1>3. 0 \in N
  <2> DEFINE g == [s \in SUBSET (1..0) |-> base]
  <2>1. \A s \in SUBSET (1..0) : s = {}
      OBVIOUS
  <2>2. Rec(0, g)
      BY <2>1
  <2> QED BY <2>2
<1>4. ASSUME NEW m \in Nat, m \in N PROVE m + 1 \in N
  <2>1. PICK g : Rec(m, g)
      BY <1>4
  <2>2. ASSUME NEW s \in SUBSET (1..m)
        PROVE  g[s] = IF s = {} THEN base ELSE Step(g[s \ {Max(s)}], Max(s))
      BY <2>1
  <2> DEFINE h == [s \in SUBSET (1..m + 1) |->
                     IF s \subseteq 1..m THEN g[s] ELSE Step(g[s \ {m + 1}], m + 1)]
  <2>3. ASSUME NEW s \in SUBSET (1..m + 1)
        PROVE  h[s] = IF s = {} THEN base ELSE Step(h[s \ {Max(s)}], Max(s))
    <3>1. CASE s \subseteq 1..m
      <4>1. s \in SUBSET (1..m) /\ s \ {Max(s)} \in SUBSET (1..m)
            /\ s \ {Max(s)} \in SUBSET (1..m + 1)
          BY <3>1
      <4>2. h[s] = g[s] /\ h[s \ {Max(s)}] = g[s \ {Max(s)}]
          BY <4>1
      <4> QED BY <4>1, <4>2, <2>2
    <3>2. CASE ~(s \subseteq 1..m)
      <4>1. m + 1 \in s /\ s # {}
          BY <3>2
      <4>2. Max(s) = m + 1
          BY <4>1, MaxOfInterval
      <4>3. s \ {m + 1} \in SUBSET (1..m) /\ s \ {m + 1} \in SUBSET (1..m + 1)
          OBVIOUS
      <4>4. h[s] = Step(g[s \ {m + 1}], m + 1) /\ h[s \ {m + 1}] = g[s \ {m + 1}]
          BY <4>3, <3>2
      <4> QED BY <4>1, <4>2, <4>4
    <3> QED BY <3>1, <3>2
  <2>4. Rec(m + 1, h)
    <3>1. h = [s \in SUBSET (1..m + 1) |-> h[s]]
        OBVIOUS
    <3> HIDE DEF h
    <3> QED BY <2>3, <3>1
  <2> HIDE DEF h, Rec
  <2> QED BY <2>4
<1>5. \E g : Rec(n, g)
  <2> HIDE DEF N, Rec
  <2>1. n \in N
      BY <1>3, <1>4, Induction
  <2> QED BY <2>1 DEF N
<1>6. Rec(n, it)
  <2> HIDE DEF Rec
  <2> QED BY <1>5
<1>7. ASSUME NEW s \in SUBSET (1..n)
      PROVE  it[s] = IF s = {} THEN base ELSE Step(it[s \ {Max(s)}], Max(s))
  <2> HIDE DEF it
  <2> QED BY <1>6
<1> HIDE DEF it, Rec
<1>8. t[0] = base
  <2>1. 1..0 = {} /\ {} \in SUBSET (1..n) /\ 0 \in 0..n
      OBVIOUS
  <2> QED BY <2>1, <1>7
<1>9. ASSUME NEW k \in 1..n PROVE t[k] = Step(t[k - 1], k)
  <2>1. /\ k - 1 \in Nat /\ k = (k - 1) + 1 /\ 1..k \in SUBSET (1..n)
        /\ k - 1 \in 0..n /\ k \in 0..n
      OBVIOUS
  <2>2. Max(1..k) = k /\ (1..k) \ {k} = 1..(k - 1) /\ 1..k # {}
      BY <2>1, MaxOfPrefix
  <2>3. it[1..k] = Step(it[1..(k - 1)], k)
      BY <2>1, <2>2, <1>7
  <2> QED BY <2>1, <2>3
<1>10. t[n] = it[1..n]
    OBVIOUS
<1> HIDE DEF t
<1>11. \A k \in 1..n : t[k] = ApplyFuncall(schema, t[k - 1], fs[k])
    BY <1>9 DEF Step
<1> QED BY <1>1, <1>2, <1>8, <1>10, <1>11 DEF FuncallsPass

\* The mutations have such states.
LEMMA MutationTrace ==
    ASSUME NEW r, NEW n \in Nat, NEW ms, DOMAIN ms = 1..n
    PROVE  MutationsPass(r, n, ms)
<1> DEFINE Step(a, k) == ApplyMutation(a, ms[k])
           base == [record |-> r, ok |-> TRUE]
           Rec(m, g) == g = [s \in SUBSET (1..m) |->
                               IF s = {} THEN base ELSE Step(g[s \ {Max(s)}], Max(s))]
           it == CHOOSE g : Rec(n, g)
           t == [k \in 0..n |-> it[1..k]]
           N == {m \in Nat : \E g : Rec(m, g)}
<1>1. ApplyMutations(r, ms) = it[1..n]
    BY DEF ApplyMutations, FoldLeft, MapThenFoldSet
<1>2. base = Going(r)
    BY DEF State, Going
<1> HIDE DEF Step, base
<1>3. 0 \in N
  <2> DEFINE g == [s \in SUBSET (1..0) |-> base]
  <2>1. \A s \in SUBSET (1..0) : s = {}
      OBVIOUS
  <2>2. Rec(0, g)
      BY <2>1
  <2> QED BY <2>2
<1>4. ASSUME NEW m \in Nat, m \in N PROVE m + 1 \in N
  <2>1. PICK g : Rec(m, g)
      BY <1>4
  <2>2. ASSUME NEW s \in SUBSET (1..m)
        PROVE  g[s] = IF s = {} THEN base ELSE Step(g[s \ {Max(s)}], Max(s))
      BY <2>1
  <2> DEFINE h == [s \in SUBSET (1..m + 1) |->
                     IF s \subseteq 1..m THEN g[s] ELSE Step(g[s \ {m + 1}], m + 1)]
  <2>3. ASSUME NEW s \in SUBSET (1..m + 1)
        PROVE  h[s] = IF s = {} THEN base ELSE Step(h[s \ {Max(s)}], Max(s))
    <3>1. CASE s \subseteq 1..m
      <4>1. s \in SUBSET (1..m) /\ s \ {Max(s)} \in SUBSET (1..m)
            /\ s \ {Max(s)} \in SUBSET (1..m + 1)
          BY <3>1
      <4>2. h[s] = g[s] /\ h[s \ {Max(s)}] = g[s \ {Max(s)}]
          BY <4>1
      <4> QED BY <4>1, <4>2, <2>2
    <3>2. CASE ~(s \subseteq 1..m)
      <4>1. m + 1 \in s /\ s # {}
          BY <3>2
      <4>2. Max(s) = m + 1
          BY <4>1, MaxOfInterval
      <4>3. s \ {m + 1} \in SUBSET (1..m) /\ s \ {m + 1} \in SUBSET (1..m + 1)
          OBVIOUS
      <4>4. h[s] = Step(g[s \ {m + 1}], m + 1) /\ h[s \ {m + 1}] = g[s \ {m + 1}]
          BY <4>3, <3>2
      <4> QED BY <4>1, <4>2, <4>4
    <3> QED BY <3>1, <3>2
  <2>4. Rec(m + 1, h)
    <3>1. h = [s \in SUBSET (1..m + 1) |-> h[s]]
        OBVIOUS
    <3> HIDE DEF h
    <3> QED BY <2>3, <3>1
  <2> HIDE DEF h, Rec
  <2> QED BY <2>4
<1>5. \E g : Rec(n, g)
  <2> HIDE DEF N, Rec
  <2>1. n \in N
      BY <1>3, <1>4, Induction
  <2> QED BY <2>1 DEF N
<1>6. Rec(n, it)
  <2> HIDE DEF Rec
  <2> QED BY <1>5
<1>7. ASSUME NEW s \in SUBSET (1..n)
      PROVE  it[s] = IF s = {} THEN base ELSE Step(it[s \ {Max(s)}], Max(s))
  <2> HIDE DEF it
  <2> QED BY <1>6
<1> HIDE DEF it, Rec
<1>8. t[0] = base
  <2>1. 1..0 = {} /\ {} \in SUBSET (1..n) /\ 0 \in 0..n
      OBVIOUS
  <2> QED BY <2>1, <1>7
<1>9. ASSUME NEW k \in 1..n PROVE t[k] = Step(t[k - 1], k)
  <2>1. /\ k - 1 \in Nat /\ k = (k - 1) + 1 /\ 1..k \in SUBSET (1..n)
        /\ k - 1 \in 0..n /\ k \in 0..n
      OBVIOUS
  <2>2. Max(1..k) = k /\ (1..k) \ {k} = 1..(k - 1) /\ 1..k # {}
      BY <2>1, MaxOfPrefix
  <2>3. it[1..k] = Step(it[1..(k - 1)], k)
      BY <2>1, <2>2, <1>7
  <2> QED BY <2>1, <2>3
<1>10. t[n] = it[1..n]
    OBVIOUS
<1> HIDE DEF t
<1>11. \A k \in 1..n : t[k] = ApplyMutation(t[k - 1], ms[k])
    BY <1>9 DEF Step
<1> QED BY <1>1, <1>2, <1>8, <1>10, <1>11 DEF MutationsPass

-------------------------------------------------------------------------------
(* Integers.                                                                  *)

\* An argument that is read as a number has one.
NumberIn(arg) == arg # <<>> /\ arg[1][1] \in {"i", "f"} => arg[1][2] \in Int

\* The ends of the integers.
LEMMA Ends ==
    /\ MaxInt \in Nat /\ MinInt \in Int /\ MinInt <= 0 /\ Ints \subseteq Int /\ FloatBits \in Int
    /\ \A i \in Int : i \in Ints <=> MinInt <= i /\ i <= MaxInt
<1>1. Width - 1 \in 0..Width /\ 2^(Width - 1) \in Nat \ {0}
    BY WidthAssumption
<1>2. PICK p \in Nat \ {0} : p = 2^(Width - 1)
    BY <1>1
<1>3. MaxInt = p - 1 /\ MinInt = -(p - 1) - 1
    BY <1>2 DEF MaxInt, MinInt
<1>4. MaxInt \in Nat /\ MinInt \in Int /\ MinInt <= 0
    BY <1>3
<1> QED BY <1>4, FloatBitsAssumption DEF Ints

\* The integer in an argument.
LEMMA IntWord ==
    ASSUME NEW arg, HasWord(arg), NumberIn(arg)
    PROVE  AsI64(arg[1]) \in Int
BY Ends DEF HasWord, NumberIn, AsI64

\* Sums of powers are integers.
LEMMA BitsType ==
    ASSUME NEW B \in SUBSET (0..(Width - 1))
    PROVE  FromBits(B) \in Int
<1> DEFINE f == [k \in B |-> 2^k]
<1>1. Numbers(f, B)
    BY WidthAssumption DEF Numbers
<1>2. IsFiniteSet(B)
  <2>1. 0 \in Int /\ Width - 1 \in Int
      BY WidthAssumption
  <2>2. IsFiniteSet(0..(Width - 1))
      BY <2>1, FS_Interval
  <2> QED BY <2>2, FS_Subset
<1>3. SumFunctionOnSet(f, B) \in Int
  <2> HIDE DEF f
  <2> QED BY <1>1, <1>2, SumType
<1>4. 2^Width \in Int
    BY WidthAssumption
<1>5. PICK u \in Int : u = SumFunctionOnSet(f, B)
    BY <1>3
<1>6. FromBits(B) = IF u > MaxInt THEN u - 2^Width ELSE u
    BY <1>5 DEF FromBits
<1> QED BY <1>4, <1>6

\* A quotient is an integer.
LEMMA QuotientType ==
    ASSUME NEW a \in Int, NEW b \in Int, b # 0
    PROVE  Quotient(a, b) \in Int
<1>1. CASE b > 0
    BY <1>1 DEF Quotient
<1>2. CASE b < 0
  <2>1. PICK c \in Nat \ {0}, d \in Int : c = -b /\ d = -a
      BY <1>2
  <2>2. d \div c \in Int
      OBVIOUS
  <2>3. Quotient(a, b) \in {a, d \div c}
      BY <1>2, <2>1 DEF Quotient
  <2> QED BY <2>2, <2>3
<1> QED BY <1>1, <1>2

\* A result is an integer or an error.
LEMMA I64Type ==
    ASSUME NEW name \in NumNames, NEW a \in Int, NEW b \in Int
    PROVE  ApplyI64(name, a, b) \in Int \cup {Err}
<1>1. \A i \in Int : Saturate(i) \in Int
    BY Ends DEF Saturate
<1>2. b # 0 => Quotient(a, b) \in Int
    BY QuotientType
<1>3. b # 0 => Remainder(a, b) \in Int
    BY <1>2 DEF Remainder
<1>4. \A i, j \in Int : BitsOf(i) \in SUBSET (0..(Width - 1))
    BY DEF BitsOf
<1>5. /\ FromBits(BitsOf(a) \cap BitsOf(b)) \in Int /\ FromBits(BitsOf(a) \cup BitsOf(b)) \in Int
      /\ FromBits((BitsOf(a) \cup BitsOf(b)) \ (BitsOf(a) \cap BitsOf(b))) \in Int
    BY <1>4, BitsType
<1>6. Max({a, b}) \in Int /\ Min({a, b}) \in Int
  <2>1. \E x \in {a, b} : \A y \in {a, b} : x >= y
      OBVIOUS
  <2>2. \E x \in {a, b} : \A y \in {a, b} : x <= y
      OBVIOUS
  <2>3. Max({a, b}) \in {a, b} /\ Min({a, b}) \in {a, b}
      BY <2>1, <2>2, Zenon DEF Max, Min
  <2> QED BY <2>3
<1>7. a + b \in Int /\ a - b \in Int /\ a * b \in Int
    OBVIOUS
<1>8. CASE name \in {"num_add", "num_sub", "num_mul"}
    BY <1>1, <1>7, <1>8 DEF ApplyI64
<1>9. CASE name \in {"num_div", "num_mod"}
    BY <1>2, <1>3, <1>9 DEF ApplyI64
<1>10. CASE name \in {"num_and", "num_or", "num_xor", "num_max", "num_min"}
    BY <1>5, <1>6, <1>10 DEF ApplyI64
<1> QED BY <1>8, <1>9, <1>10 DEF NumNames

\* The operand of a numeric call on an integer.
LEMMA OperandType ==
    ASSUME NEW f, HasWord(f.arg1), NumberIn(f.arg1)
    PROVE  OperandI64(f) \in Int
<1>1. AsI64(f.arg1[1]) \in Int
    BY IntWord
<1>2. f.arg1[1][2] \in Int
    BY DEF HasWord, NumberIn
<1> QED BY <1>1, <1>2 DEF OperandI64

-------------------------------------------------------------------------------
(* Kinds and values.                                                          *)

\* The kinds of what containers hold.
Plain == Text \cup {KInt, KFloat}

\* What the kinds begin with.
LEMMA KindTags ==
    /\ \A kind \in Text : kind[1] \in {"bytes", "string", "document"}
    /\ KInt[1] = "int" /\ KFloat[1] = "float" /\ KTimestamp[1] = "timestamp"
    /\ \A kind : IsMap(kind) <=> kind[1] = "map"
BY DEF Text, KBytes, KString, KDocument, KInt, KFloat, KTimestamp, IsMap

\* The kinds with a datatype, one at a time.
LEMMA KindCases ==
    ASSUME NEW kind, HasDatatype(kind)
    PROVE  \/ kind \in Plain \/ kind = KTimestamp
           \/ kind[1] = "list" /\ kind[2] \in Plain
           \/ kind[1] = "set" /\ kind[2] \in Plain
           \/ kind[1] = "map" /\ kind[2] \in Plain /\ kind[3] \in Plain
BY DEF HasDatatype, Over, Plain, IsMap

\* A value of a kind that is no container.
LEMMA ElementCases ==
    ASSUME NEW kind \in Plain, NEW v, IsElement(kind, v)
    PROVE  /\ v # Err /\ v # Absent
           /\ \/ kind \in Text /\ v[1] = "bytes" /\ v[2] \in Texts /\ v = <<"bytes", v[2]>>
              \/ kind = KInt /\ v[1] = "int" /\ v[2] \in Int /\ v = <<"int", v[2]>>
              \/ kind = KFloat /\ v[1] = "float" /\ v = Float
<1>1. CASE kind \in Text
  <2>1. v \in {"bytes"} \X Texts
      BY <1>1, KindTags DEF IsElement
  <2>2. v # Err /\ v # Absent
      BY <2>1, DistinctAssumption
  <2> QED BY <1>1, <2>1, <2>2
<1>2. CASE kind = KInt
  <2>1. v \in {"int"} \X Int
      BY <1>2, KindTags DEF IsElement
  <2>2. v # Err /\ v # Absent
      BY <2>1, DistinctAssumption
  <2> QED BY <1>2, <2>1, <2>2
<1>3. CASE kind = KFloat
  <2>1. v = Float
      BY <1>3, KindTags DEF IsElement
  <2>2. v # Err /\ v # Absent
      BY <2>1, DistinctAssumption
  <2>3. v[1] = "float"
      BY <2>1 DEF Float
  <2> QED BY <1>3, <2>1, <2>2, <2>3
<1> QED BY <1>1, <1>2, <1>3 DEF Plain

\* A value of a kind with a datatype has the tag of its kind.
LEMMA ValueCases ==
    ASSUME NEW kind, HasDatatype(kind), NEW v, IsValue(kind, v)
    PROVE  \/ kind \in Plain /\ IsElement(kind, v)
           \/ /\ kind[1] = "list" /\ kind[2] \in Plain
              /\ v[1] = "list" /\ v = <<"list", v[2]>> /\ IsListOf(kind[2], v[2])
           \/ /\ kind[1] = "set" /\ kind[2] \in Plain
              /\ v[1] = "set" /\ v = <<"set", v[2]>> /\ IsSetOf(kind[2], v[2])
           \/ /\ kind[1] = "map" /\ kind[2] \in Plain /\ kind[3] \in Plain
              /\ v[1] = "map" /\ v = <<"map", v[2]>> /\ IsMapOf(kind[2], kind[3], v[2])
<1>0. \A w : v = <<"list", w>> => v[1] = "list"
    OBVIOUS
<1>1. CASE kind \in Plain
  <2>1. kind[1] \notin {"list", "set", "map"}
      BY <1>1, KindTags DEF Plain
  <2> QED BY <1>1, <2>1 DEF IsValue, IsMap
<1>2. CASE kind = KTimestamp
  <2>1. kind \notin Text /\ kind # KInt /\ kind # KFloat /\ kind[1] = "timestamp"
      BY <1>2, KindTags
  <2> QED BY <2>1 DEF IsValue, IsElement, IsMap
<1>3. CASE kind[1] \in {"list", "set", "map"}
  <2>1. kind \notin Text /\ kind # KInt /\ kind # KFloat /\ kind # KTimestamp
      BY <1>3, KindTags
  <2>2. ~IsElement(kind, v)
      BY <2>1 DEF IsElement
  <2>3. CASE kind[1] = "list"
    <3>1. v = <<"list", v[2]>> /\ IsListOf(kind[2], v[2])
        BY <2>2, <2>3 DEF IsValue, IsMap
    <3> QED BY <2>1, <2>3, <3>1, KindCases DEF Plain
  <2>4. CASE kind[1] = "set"
    <3>1. v = <<"set", v[2]>> /\ IsSetOf(kind[2], v[2])
        BY <2>2, <2>4 DEF IsValue, IsMap
    <3> QED BY <2>1, <2>4, <3>1, KindCases DEF Plain
  <2>5. CASE kind[1] = "map"
    <3>1. v = <<"map", v[2]>> /\ IsMapOf(kind[2], kind[3], v[2])
        BY <2>2, <2>5 DEF IsValue, IsMap
    <3> QED BY <2>1, <2>5, <3>1, KindCases DEF Plain
  <2> QED BY <1>3, <2>3, <2>4, <2>5
<1> QED BY <1>1, <1>2, <1>3, KindCases DEF Plain

-------------------------------------------------------------------------------
(* What decodes is a value of its kind.                                       *)

\* The bytes of an argument: units, those of a text where the datatype is one, and an
\* integer where they are read as a number.
Carried(dt, arg) == arg \in Seq(Units) /\ (dt \in Text => arg \in Texts) /\ NumberIn(arg)

\* The units.
LEMMA UnitCases ==
    ASSUME NEW unit \in Units
    PROVE  /\ unit[1] = "i" => unit[2] \in Int
           /\ unit[1] = "s" => unit[2] \in Texts
           /\ AsI64(unit) \in Int \/ unit[1] \notin {"i", "f"}
<1>1. unit[1] = "i" => unit[2] \in Int
    BY DEF Units
<1>2. unit[1] = "s" => unit[2] \in Texts
    BY DEF Units
<1> QED BY <1>1, <1>2, Ends DEF AsI64

\* One unit.
LEMMA ElementDecoded ==
    ASSUME NEW kind \in Plain, NEW unit \in Units, NEW v, v = Element(kind, unit), v # Err
    PROVE  IsElement(kind, v)
<1>0. KInt \notin Text /\ KFloat \notin Text /\ KInt # KFloat
    BY KindTags
<1>1. CASE kind \in Text
  <2>1. v = <<"bytes", unit[2]>> /\ unit[1] = "s"
      BY <1>0, <1>1 DEF Element, Bytes
  <2>2. v \in {"bytes"} \X Texts
      BY <2>1, UnitCases
  <2> QED BY <1>1, <2>2 DEF IsElement
<1>2. CASE kind = KInt
  <2>1. v = <<"int", AsI64(unit)>> /\ unit[1] \in {"i", "f"}
      BY <1>0, <1>2 DEF Element, Number
  <2>2. v \in {"int"} \X Int
      BY <2>1, UnitCases
  <2> QED BY <1>2, <2>2 DEF IsElement
<1>3. CASE kind = KFloat
  <2>1. v = Float
      BY <1>0, <1>3 DEF Element
  <2> QED BY <1>3, <2>1 DEF IsElement
<1> QED BY <1>1, <1>2, <1>3 DEF Plain

\* The bytes of a value that is no container.
LEMMA PlainDecoded ==
    ASSUME NEW kind \in Plain, NEW arg, Carried(kind, arg),
           NEW v, v = ValueFromKindBytes(kind, arg), v # Err
    PROVE  IsElement(kind, v) /\ (kind \in Text => v = <<"bytes", arg>>)
<1>0. KInt \notin Text /\ KFloat \notin Text /\ KInt # KFloat
    BY KindTags
<1>1. CASE kind \in Text
  <2>1. v = <<"bytes", arg>>
      BY <1>1, KindTags DEF ValueFromKindBytes, Bytes
  <2>2. v \in {"bytes"} \X Texts
      BY <1>1, <2>1 DEF Carried
  <2> QED BY <1>1, <2>1, <2>2 DEF IsElement
<1>2. CASE kind = KInt
  <2>1. HasWord(arg) /\ v = <<"int", AsI64(arg[1])>>
      BY <1>0, <1>2, KindTags DEF ValueFromKindBytes, Number
  <2>2. AsI64(arg[1]) \in Int
    <3>1. arg \in Seq(Units) /\ arg # <<>>
        BY <2>1 DEF Carried, HasWord
    <3>2. arg[1] \in Units
        BY <3>1, EmptySeq, LenProperties
    <3> QED BY <2>1, <3>2, UnitCases DEF HasWord
  <2>3. v \in {"int"} \X Int
      BY <2>1, <2>2
  <2> QED BY <1>0, <1>2, <2>3 DEF IsElement
<1>3. CASE kind = KFloat
  <2>1. v = Float
      BY <1>0, <1>3, KindTags DEF ValueFromKindBytes
  <2> QED BY <1>0, <1>3, <2>1 DEF IsElement
<1> QED BY <1>1, <1>2, <1>3 DEF Plain

\* The units of a list or a set.
LEMMA ElementsDecoded ==
    ASSUME NEW elem \in Plain, NEW units \in Seq(Units), NEW parts,
           parts = Elements(elem, units), Err \notin Range(parts)
    PROVE  IsListOf(elem, parts) /\ IsSetOf(elem, Range(parts))
<1>1. PICK n \in Nat : DOMAIN units = 1..n /\ \A i \in 1..n : units[i] \in Units
    BY LenProperties, ElementOfSeq
<1>2. parts = [i \in 1..n |-> parts[i]] /\ DOMAIN parts = 1..n
    BY <1>1 DEF Elements
<1>3. ASSUME NEW i \in 1..n PROVE IsElement(elem, parts[i])
  <2>1. parts[i] = Element(elem, units[i]) /\ parts[i] # Err
      BY <1>1, <1>2, <1>3 DEF Elements, Range
  <2> QED BY <1>1, <2>1, ElementDecoded
<1>4. Len(parts) = n
    BY <1>2, FunctionSequence
<1>5. IsListOf(elem, parts)
    BY <1>1, <1>2, <1>3, <1>4 DEF IsListOf, IsList
<1>6. IsFiniteSet(Range(parts))
  <2>1. IsFiniteSet(1..n)
      BY FirstNumbers
  <2>2. parts \in Surjection(1..n, Range(parts))
      BY <1>2 DEF Surjection, Range
  <2> QED BY <2>1, <2>2, FS_Surjection
<1>7. IsSetOf(elem, Range(parts))
    BY <1>2, <1>3, <1>6 DEF IsSetOf, Range
<1> QED BY <1>5, <1>7

\* The units of a map.
LEMMA MapDecoded ==
    ASSUME NEW kind, kind[2] \in Plain, kind[3] \in Plain, NEW units \in Seq(Units),
           NEW v, v = MapFrom(kind, units), v # Err
    PROVE  v = <<"map", v[2]>> /\ IsMapOf(kind[2], kind[3], v[2])
<1>1. PICK m \in Nat : Len(units) = m /\ DOMAIN units = 1..m /\ \A i \in 1..m : units[i] \in Units
    BY LenProperties, ElementOfSeq
<1>2. PICK n \in Nat : n = m \div 2 /\ 2 * n <= m
    OBVIOUS
<1> DEFINE keys == [i \in 1..n |-> Element(kind[2], units[2 * i - 1])]
           values == [i \in 1..n |-> Element(kind[3], units[2 * i])]
           last(k) == Max({i \in 1..n : keys[i] = k})
           map == [k \in Range(keys) |-> values[last(k)]]
<1>3. v = IF m % 2 = 1 \/ Err \in Range(keys) \cup Range(values) THEN Err ELSE <<"map", map>>
    BY <1>1, <1>2 DEF MapFrom
<1>4. v = <<"map", map>> /\ Err \notin Range(keys) /\ Err \notin Range(values)
  <2> HIDE DEF keys, values, map
  <2> QED BY <1>3
<1>5. ASSUME NEW i \in 1..n PROVE IsElement(kind[2], keys[i]) /\ IsElement(kind[3], values[i])
  <2>1. 2 * i - 1 \in 1..m /\ 2 * i \in 1..m
      BY <1>2
  <2>2. /\ keys[i] = Element(kind[2], units[2 * i - 1]) /\ keys[i] # Err
        /\ values[i] = Element(kind[3], units[2 * i]) /\ values[i] # Err
      BY <1>4 DEF Range
  <2>3. units[2 * i - 1] \in Units /\ units[2 * i] \in Units
      BY <1>1, <2>1
  <2> HIDE DEF keys, values
  <2> QED BY <2>2, <2>3, ElementDecoded
<1>6. IsSetOf(kind[2], Range(keys))
  <2>1. DOMAIN keys = 1..n /\ keys \in Surjection(1..n, Range(keys))
      BY DEF Surjection, Range
  <2> HIDE DEF keys
  <2>2. IsFiniteSet(Range(keys))
      BY <2>1, FirstNumbers, FS_Surjection
  <2> QED BY <1>5, <2>1, <2>2 DEF IsSetOf, Range
<1>7. ASSUME NEW k \in Range(keys) PROVE IsElement(kind[3], map[k])
  <2>1. PICK s \in SUBSET (1..n) : s = {i \in 1..n : keys[i] = k} /\ s # {}
    <3>1. DOMAIN keys = 1..n
        OBVIOUS
    <3> HIDE DEF keys
    <3> QED BY <3>1 DEF Range
  <2>2. Max(s) \in 1..n
      BY <2>1, MaxInSet
  <2>3. map[k] = values[Max(s)]
      BY <2>1
  <2> HIDE DEF map, values, keys
  <2> QED BY <1>5, <2>2, <2>3
<1>8. DOMAIN map = Range(keys) /\ map = [k \in DOMAIN map |-> map[k]]
  <2> HIDE DEF keys, values
  <2> QED OBVIOUS
<1> HIDE DEF map, keys, values
<1>9. IsMapOf(kind[2], kind[3], map)
    BY <1>6, <1>7, <1>8 DEF IsMapOf
<1>10. v[2] = map
    BY <1>4
<1> QED BY <1>4, <1>9, <1>10

\* What decodes for a kind with a datatype is a value of the kind.
LEMMA ValueDecoded ==
    ASSUME NEW kind, HasDatatype(kind), NEW arg, Carried(kind, arg),
           NEW v, v = ValueFromKindBytes(kind, arg), v # Err
    PROVE  IsValue(kind, v)
<1>1. CASE kind \in Plain
    BY <1>1, PlainDecoded DEF IsValue
<1>2. ASSUME kind \notin Plain PROVE kind \notin Text /\ kind # KInt /\ kind # KFloat
    BY <1>2 DEF Plain
<1>3. CASE kind = KTimestamp
  <2>1. kind[1] = "timestamp" /\ kind \notin Plain
      BY <1>3, KindTags DEF Plain
  <2>2. v = Err
      BY <1>2, <2>1, KindTags DEF ValueFromKindBytes
  <2> QED BY <2>2
<1>4. CASE kind[1] = "list" /\ kind[2] \in Plain /\ kind \notin Plain
  <2> DEFINE parts == Elements(kind[2], arg)
  <2>1. v = IF Err \in Range(parts) THEN Err ELSE <<"list", parts>>
      BY <1>2, <1>4, KindTags DEF ValueFromKindBytes, OrErr
  <2> HIDE DEF parts
  <2>2. v = <<"list", parts>> /\ Err \notin Range(parts)
      BY <2>1
  <2>3. v[2] = parts
      BY <2>2
  <2>4. IsListOf(kind[2], parts)
      BY <1>4, <2>2, ElementsDecoded DEF Carried, parts
  <2> QED BY <1>4, <2>2, <2>3, <2>4 DEF IsValue
<1>5. CASE kind[1] = "set" /\ kind[2] \in Plain /\ kind \notin Plain
  <2> DEFINE parts == Elements(kind[2], arg)
  <2>1. v = IF Err \in Range(parts) THEN Err ELSE <<"set", Range(parts)>>
      BY <1>2, <1>5, KindTags DEF ValueFromKindBytes, OrErr
  <2> HIDE DEF parts
  <2>2. v = <<"set", Range(parts)>> /\ Err \notin Range(parts)
      BY <2>1
  <2>3. v[2] = Range(parts)
      BY <2>2
  <2>4. IsSetOf(kind[2], Range(parts))
      BY <1>5, <2>2, ElementsDecoded DEF Carried, parts
  <2> QED BY <1>5, <2>2, <2>3, <2>4 DEF IsValue
<1>6. CASE kind[1] = "map" /\ kind[2] \in Plain /\ kind[3] \in Plain /\ kind \notin Plain
  <2>1. v = MapFrom(kind, arg)
      BY <1>2, <1>6 DEF ValueFromKindBytes, IsMap
  <2> QED BY <1>6, <2>1, MapDecoded, KindTags DEF IsValue, Carried
<1> QED BY <1>1, <1>3, <1>4, <1>5, <1>6, KindCases

-------------------------------------------------------------------------------
(* What a function call makes of a value of its kind.                         *)

\* What a record has for an attribute: a value of the kind, or nothing.
Holds(kind, old) == old = Absent \/ IsValue(kind, old)

\* An argument that fits a kind decodes to a value of the kind.
LEMMA FitsDecodes ==
    ASSUME NEW kind, NEW dt, NEW arg, Fits(kind, dt, arg), Carried(dt, arg)
    PROVE  /\ HasDatatype(kind) /\ dt = kind /\ Carried(kind, arg)
           /\ ValueFromProtocol(dt, arg) = ValueFromKindBytes(kind, arg)
           /\ ValueFromKindBytes(kind, arg) # Err /\ IsValue(kind, ValueFromKindBytes(kind, arg))
<1>1. dt = kind /\ HasDatatype(kind) /\ ValueFromProtocol(dt, arg) # Err
    BY DEF Fits, Datatype
<1>2. ValueFromProtocol(dt, arg) = ValueFromKindBytes(kind, arg)
    BY <1>1 DEF ValueFromProtocol
<1> QED BY <1>1, <1>2, ValueDecoded

\* An argument that fits an element's kind decodes to an element.
LEMMA FitsElement ==
    ASSUME NEW kind \in Plain, NEW dt, NEW arg, Fits(kind, dt, arg), Carried(dt, arg)
    PROVE  /\ IsElement(kind, ValueFromKindBytes(kind, arg)) /\ ValueFromKindBytes(kind, arg) # Err
           /\ kind \in Text => ValueFromKindBytes(kind, arg)[2] = arg /\ arg \in Texts
<1>1. dt = kind /\ Carried(kind, arg) /\ ValueFromKindBytes(kind, arg) # Err
    BY FitsDecodes
<1>2. /\ IsElement(kind, ValueFromKindBytes(kind, arg))
      /\ kind \in Text => ValueFromKindBytes(kind, arg) = <<"bytes", arg>>
    BY <1>1, PlainDecoded
<1> QED BY <1>1, <1>2 DEF Carried

\* Texts are appended, prepended and trimmed.
LEMMA TextStays ==
    ASSUME NEW name \in StringNames, NEW text \in Texts, NEW arg \in Texts
    PROVE  ApplyText(name, text, arg) \in Texts
<1> DEFINE C == {"c"} \X Chars
<1>1. text \in Seq(C) /\ arg \in Seq(C) /\ Texts = Seq(C)
    BY DEF Texts
<1> HIDE DEF C
<1>2. text \o arg \in Seq(C) /\ arg \o text \in Seq(C)
    BY <1>1, ConcatProperties
<1>3. PICK n \in Nat, m \in Nat : n = Len(text) /\ m = Len(arg)
    BY <1>1, LenProperties
<1>4. \A i \in 1..n : text[i] \in C
    BY <1>1, <1>3, ElementOfSeq
<1>5. SubSeq(text, m + 1, n) \in Seq(C)
  <2>1. \A i \in m + 1 .. n : text[i] \in C
      BY <1>3, <1>4
  <2>2. m + 1 \in Int /\ n \in Int
      BY <1>3
  <2> QED BY <2>1, <2>2, SubSeqProperties
<1>6. SubSeq(text, 1, n - m) \in Seq(C)
  <2>1. \A i \in 1 .. n - m : text[i] \in C
      BY <1>3, <1>4
  <2>2. 1 \in Int /\ n - m \in Int
      BY <1>3
  <2> QED BY <2>1, <2>2, SubSeqProperties
<1>7. CASE name \in {"string_append", "string_prepend"}
    BY <1>1, <1>2, <1>7 DEF ApplyText
<1>8. CASE name = "string_ltrim"
    BY <1>1, <1>3, <1>5, <1>8 DEF ApplyText
<1>9. CASE name = "string_rtrim"
    BY <1>1, <1>3, <1>6, <1>9 DEF ApplyText
<1> QED BY <1>7, <1>8, <1>9 DEF StringNames

\* A string function of a text, or of what is not there.
LEMMA TextChanged ==
    ASSUME NEW kind \in Text, NEW name \in StringNames, NEW arg \in Texts,
           NEW old, old = Absent \/ IsElement(kind, old),
           NEW v, v = Bytes(ApplyText(name, TextOf(old), arg))
    PROVE  IsElement(kind, v)
<1>1. <<>> \in Texts
    BY EmptySeq DEF Texts
<1>2. TextOf(old) \in Texts
  <2>1. CASE old = Absent
      BY <1>1, <2>1 DEF TextOf
  <2>2. CASE IsElement(kind, old)
    <3>1. old[2] \in Texts
        BY <2>2, ElementCases, KindTags DEF Plain
    <3> QED BY <1>1, <3>1 DEF TextOf
  <2> QED BY <2>1, <2>2
<1>3. v \in {"bytes"} \X Texts
    BY <1>2, TextStays DEF Bytes
<1> QED BY <1>3 DEF IsElement

\* A numeric function of a number, or of what is not there.
LEMMA NumberChanged ==
    ASSUME NEW kind \in {KInt, KFloat}, NEW f, f.name \in NumNames, HasWord(f.arg1), NumberIn(f.arg1),
           NEW old, old = Absent \/ IsElement(kind, old),
           NEW v, v = NumberFrom(kind, old, f), v # Err
    PROVE  IsElement(kind, v)
<1>1. CASE kind = KFloat
  <2>1. v = Float
      BY <1>1 DEF NumberFrom
  <2> QED BY <1>1, <2>1, KindTags DEF IsElement
<1>2. CASE kind = KInt
  <2>1. PICK n \in Int : n = PayloadOf("int", old, 0)
    <3>1. CASE old = Absent
        BY <3>1 DEF PayloadOf
    <3>2. CASE IsElement(KInt, old)
        BY <3>2, ElementCases, KindTags DEF Plain, PayloadOf
    <3> QED BY <1>2, <3>1, <3>2
  <2>2. PICK b \in Int : b = OperandI64(f)
      BY OperandType
  <2>3. ApplyI64(f.name, n, b) \in Int \cup {Err}
      BY I64Type
  <2>4. n # Err
      BY DistinctAssumption
  <2>5. v = IF ApplyI64(f.name, n, b) = Err THEN Err ELSE Number(ApplyI64(f.name, n, b))
      BY <1>2, <2>1, <2>2, <2>4, KindTags DEF NumberFrom
  <2>6. v \in {"int"} \X Int
      BY <2>3, <2>5 DEF Number
  <2> QED BY <1>2, <2>6 DEF IsElement
<1> QED BY <1>1, <1>2

\* The map of an attribute.
LEMMA OldMap ==
    ASSUME NEW kind, HasDatatype(kind), kind[1] = "map", NEW old, Holds(kind, old),
           NEW map, map = MapOf(old), map # Err
    PROVE  IsMapOf(kind[2], kind[3], map)
<1>1. CASE old = Absent
  <2>1. map = NoAttributes /\ DOMAIN NoAttributes = {}
      BY <1>1 DEF MapOf, PayloadOf, NoAttributes
  <2>2. IsFiniteSet({})
      BY FS_EmptySet
  <2> QED BY <2>1, <2>2 DEF IsMapOf, IsSetOf, NoAttributes
<1>2. CASE old # Absent /\ IsValue(kind, old)
  <2>1. old[1] = "map" /\ IsMapOf(kind[2], kind[3], old[2])
      BY <1>2, ValueCases, KindTags DEF Plain
  <2> QED BY <1>2, <2>1 DEF MapOf, PayloadOf
<1> QED BY <1>1, <1>2 DEF Holds

\* An entry of a map.
LEMMA EntryIs ==
    ASSUME NEW k, NEW e, NEW map, IsMapOf(k, e, map), NEW key
    PROVE  Existing(map, key) = Absent \/ IsElement(e, Existing(map, key))
BY DEF IsMapOf, Existing

\* An entry of a map is replaced, or added.
LEMMA EntryWritten ==
    ASSUME NEW k, NEW e, NEW map, IsMapOf(k, e, map), NEW key, IsElement(k, key),
           NEW value, IsElement(e, value)
    PROVE  IsMapOf(k, e, With(map, key, value))
<1>1. IsFiniteSet(DOMAIN map \cup {key})
    BY FS_AddElement DEF IsMapOf, IsSetOf
<1>2. DOMAIN With(map, key, value) = DOMAIN map \cup {key}
    BY DEF With
<1>3. \A x \in DOMAIN map \cup {key} : With(map, key, value)[x] = IF x = key THEN value ELSE map[x]
    BY DEF With
<1>4. With(map, key, value) = [x \in DOMAIN With(map, key, value) |-> With(map, key, value)[x]]
    BY DEF With
<1> QED BY <1>1, <1>2, <1>3, <1>4 DEF IsMapOf, IsSetOf

\* An entry of a map is removed.
LEMMA EntryRemoved ==
    ASSUME NEW k, NEW e, NEW map, IsMapOf(k, e, map), NEW key
    PROVE  IsMapOf(k, e, Without(map, key))
<1>1. IsFiniteSet(DOMAIN map \ {key})
    BY FS_Difference DEF IsMapOf, IsSetOf
<1>2. DOMAIN Without(map, key) = DOMAIN map \ {key}
    BY DEF Without
<1>3. Without(map, key) = [x \in DOMAIN Without(map, key) |-> Without(map, key)[x]]
    BY DEF Without
<1>4. \A x \in DOMAIN map \ {key} : Without(map, key)[x] = map[x]
    BY DEF Without
<1> QED BY <1>1, <1>2, <1>3, <1>4 DEF IsMapOf, IsSetOf

\* A map with an entry changed is a value of its kind.
LEMMA EntryChanged ==
    ASSUME NEW kind, HasDatatype(kind), kind[1] = "map", NEW old, Holds(kind, old),
           NEW key, IsElement(kind[2], key), NEW value, IsElement(kind[3], value), MapOf(old) # Err
    PROVE  IsValue(kind, <<"map", With(MapOf(old), key, value)>>)
<1> DEFINE map == With(MapOf(old), key, value)
<1>1. IsMapOf(kind[2], kind[3], map)
    BY OldMap, EntryWritten
<1> HIDE DEF map
<1>2. <<"map", map>>[2] = map
    OBVIOUS
<1>3. IsValue(kind, <<"map", map>>)
    BY <1>1, <1>2 DEF IsValue, IsMap
<1> QED BY <1>3 DEF map

\* The set of an attribute.
LEMMA OldSet ==
    ASSUME NEW kind, HasDatatype(kind), kind[1] = "set", NEW old, Holds(kind, old),
           NEW set, set = PayloadOf("set", old, {}), set # Err
    PROVE  IsSetOf(kind[2], set)
<1>1. CASE old = Absent
    BY <1>1, FS_EmptySet DEF PayloadOf, IsSetOf
<1>2. CASE old # Absent /\ IsValue(kind, old)
  <2>1. old[1] = "set" /\ IsSetOf(kind[2], old[2])
      BY <1>2, ValueCases, KindTags DEF Plain
  <2> QED BY <1>2, <2>1 DEF PayloadOf
<1> QED BY <1>1, <1>2 DEF Holds

\* A call with the arguments of its datatypes.
Carries(f) == Carried(f.dt1, f.arg1) /\ Carried(f.dt2, f.arg2)

\* String functions.
LEMMA NewTextIs ==
    ASSUME NEW kind, HasDatatype(kind), NEW f, f.name \in StringNames, StringFits(kind, f), Carries(f),
           NEW old, Holds(kind, old), NEW v, v = NewText(kind, old, f), v # Err
    PROVE  IsValue(kind, v)
<1>1. CASE kind \in Text /\ Fits(kind, f.dt1, f.arg1)
  <2>1. v = Bytes(ApplyText(f.name, TextOf(old), f.arg1))
      BY <1>1 DEF NewText
  <2>2. old = Absent \/ IsElement(kind, old)
      BY <1>1, ValueCases, KindTags DEF Holds, Plain
  <2>3. f.arg1 \in Texts
      BY <1>1, FitsElement DEF Plain, Carries
  <2>4. IsElement(kind, v)
      BY <1>1, <2>1, <2>2, <2>3, TextChanged
  <2> QED BY <2>4 DEF IsValue
<1>2. CASE /\ IsMap(kind) /\ kind[3] \in Text /\ kind \notin Text
           /\ Fits(kind[3], f.dt1, f.arg1) /\ Fits(kind[2], f.dt2, f.arg2)
  <2> DEFINE map == MapOf(old)
             key == ValueFromKindBytes(kind[2], f.arg2)
             arg == ValueFromKindBytes(kind[3], f.arg1)
             text == Bytes(ApplyText(f.name, TextOf(Existing(map, key)), arg[2]))
             value == IF IsText(Existing(map, key)) THEN text ELSE Err
  <2>1. v = IF map = Err \/ key = Err \/ value = Err THEN Err ELSE <<"map", With(map, key, value)>>
      BY <1>2 DEF NewText, ChangeEntry
  <2>2. kind[1] = "map" /\ kind[2] \in Plain /\ kind[3] \in Plain
      BY <1>2, KindCases, KindTags DEF Plain
  <2>3. IsElement(kind[2], key) /\ arg[2] \in Texts
      BY <1>2, <2>2, FitsElement DEF Carries
  <2> HIDE DEF text, value, key, arg
  <2>4. map # Err /\ value # Err /\ v = <<"map", With(map, key, value)>>
      BY <2>1
  <2>5. Existing(map, key) = Absent \/ IsElement(kind[3], Existing(map, key))
      BY <2>2, <2>4, OldMap, EntryIs
  <2>6. value = text
      BY <2>4 DEF value
  <2>7. IsElement(kind[3], value)
      BY <1>2, <2>3, <2>5, <2>6, TextChanged DEF text
  <2> QED BY <2>2, <2>3, <2>4, <2>7, EntryChanged
<1> QED BY <1>1, <1>2, KindTags DEF StringFits

\* Numeric functions.
LEMMA NewNumberIs ==
    ASSUME NEW kind, HasDatatype(kind), NEW f, f.name \in NumNames, NumericFits(kind, f), Carries(f),
           NEW old, Holds(kind, old), NEW v, v = NewNumber(kind, old, f), v # Err
    PROVE  IsValue(kind, v)
<1>1. CASE kind \in {KInt, KFloat} /\ OperandFits(kind, f)
  <2>1. v = NumberFrom(kind, old, f) /\ HasWord(f.arg1) /\ NumberIn(f.arg1)
      BY <1>1, KindTags DEF NewNumber, OperandFits, Carries, Carried
  <2>2. old = Absent \/ IsElement(kind, old)
      BY <1>1, ValueCases, KindTags DEF Holds, Plain
  <2>3. IsElement(kind, v)
      BY <1>1, <2>1, <2>2, NumberChanged
  <2> QED BY <2>3 DEF IsValue
<1>2. CASE IsMap(kind) /\ Fits(kind[2], f.dt2, f.arg2) /\ OperandFits(kind[3], f)
  <2> DEFINE map == MapOf(old)
             key == ValueFromKindBytes(kind[2], f.arg2)
             entry == Existing(map, key)
             value == IF kind[3] = KFloat /\ entry # Absent /\ entry[1] = "int" THEN Float
                      ELSE NumberFrom(kind[3], entry, f)
  <2>1. v = IF map = Err \/ key = Err \/ value = Err THEN Err ELSE <<"map", With(map, key, value)>>
      BY <1>2 DEF NewNumber, ChangeEntry
  <2>2. /\ kind[1] = "map" /\ kind[2] \in Plain /\ kind[3] \in {KInt, KFloat}
        /\ HasWord(f.arg1) /\ NumberIn(f.arg1)
      BY <1>2, KindCases, KindTags DEF Plain, OperandFits, Carries, Carried
  <2>3. IsElement(kind[2], key)
      BY <1>2, <2>2, FitsElement DEF Carries
  <2> HIDE DEF value, key
  <2>4. map # Err /\ value # Err /\ v = <<"map", With(map, key, value)>>
      BY <2>1
  <2>5. entry = Absent \/ IsElement(kind[3], entry)
      BY <2>2, <2>4, OldMap, EntryIs
  <2> HIDE DEF entry
  <2>6. IsElement(kind[3], value)
    <3>1. CASE value = Float /\ kind[3] = KFloat
        BY <3>1 DEF IsElement
    <3>2. CASE value = NumberFrom(kind[3], entry, f)
        BY <2>2, <2>4, <2>5, <3>2, NumberChanged
    <3> QED BY <3>1, <3>2 DEF value
  <2> QED BY <2>2, <2>3, <2>4, <2>6, EntryChanged
<1> QED BY <1>1, <1>2 DEF NumericFits

\* Pushes to a list.
LEMMA NewListIs ==
    ASSUME NEW kind, HasDatatype(kind), NEW f, kind[1] = "list", Fits(kind[2], f.dt1, f.arg1), Carries(f),
           NEW old, Holds(kind, old), NEW v, v = NewList(kind, old, f), v # Err
    PROVE  IsValue(kind, v)
<1> DEFINE list == PayloadOf("list", old, <<>>)
           value == ValueFromKindBytes(kind[2], f.arg1)
           new == IF f.name = "list_lpush" THEN <<value>> \o list ELSE Append(list, value)
<1>1. kind[2] \in Plain
    BY KindCases, KindTags DEF Plain
<1>2. IsElement(kind[2], value) /\ value # Err
    BY <1>1, FitsElement DEF Carries
<1>3. v = IF list = Err \/ value = Err THEN Err ELSE <<"list", new>>
    BY DEF NewList
<1> HIDE DEF value
<1>4. list # Err /\ v = <<"list", new>>
  <2> HIDE DEF new, list
  <2> QED BY <1>3
<1>5. IsListOf(kind[2], list)
  <2>1. CASE old = Absent
    <3>1. list = <<>> /\ Len(<<>>) = 0 /\ <<>> = [i \in 1..0 |-> <<>>[i]] /\ DOMAIN <<>> = {}
        BY <2>1, EmptySeq DEF PayloadOf
    <3> QED BY <3>1 DEF IsListOf, IsList
  <2>2. CASE old # Absent /\ IsValue(kind, old)
    <3>1. old[1] = "list" /\ IsListOf(kind[2], old[2])
        BY <2>2, ValueCases, KindTags DEF Plain
    <3> QED BY <2>2, <3>1 DEF PayloadOf
  <2> QED BY <2>1, <2>2 DEF Holds
<1> DEFINE E == {value} \cup Range(list)
<1>6. PICK n \in Nat : Len(list) = n /\ list = [i \in 1..n |-> list[i]]
    BY <1>5 DEF IsListOf, IsList
<1> HIDE DEF list
<1>7. list \in Seq(E) /\ value \in E /\ \A x \in E : IsElement(kind[2], x)
  <2>1. list \in [1..n -> E]
      BY <1>6 DEF Range
  <2>2. \A x \in E : IsElement(kind[2], x)
      BY <1>2, <1>5 DEF IsListOf, Range
  <2> QED BY <2>1, <2>2, SeqDef
<1>8. new \in Seq(E)
  <2>1. <<value>> \in Seq(E)
      BY <1>7
  <2>2. <<value>> \o list \in Seq(E)
      BY <1>7, <2>1, ConcatProperties
  <2>3. Append(list, value) \in Seq(E)
      BY <1>7, AppendProperties
  <2> QED BY <2>2, <2>3
<1> HIDE DEF new, E
<1>9. IsListOf(kind[2], new)
  <2>1. Len(new) \in Nat /\ DOMAIN new = 1..Len(new) /\ \A i \in 1..Len(new) : new[i] \in E
      BY <1>8, LenProperties, ElementOfSeq
  <2>2. new = [i \in 1..Len(new) |-> new[i]]
      BY <1>8, LenProperties
  <2> QED BY <1>7, <2>1, <2>2 DEF IsListOf, IsList
<1>10. v[2] = new
    BY <1>4
<1> QED BY <1>4, <1>9, <1>10 DEF IsValue

\* Additions to a set, and removals.
LEMMA NewSetIs ==
    ASSUME NEW kind, HasDatatype(kind), NEW f, kind[1] = "set", Fits(kind[2], f.dt1, f.arg1), Carries(f),
           NEW old, Holds(kind, old), NEW v, v = NewSet(kind, old, f), v # Err
    PROVE  IsValue(kind, v)
<1> DEFINE set == PayloadOf("set", old, {})
           value == ValueFromKindBytes(kind[2], f.arg1)
           new == IF f.name = "set_add" THEN set \cup {value} ELSE set \ {value}
<1>1. kind[2] \in Plain
    BY KindCases, KindTags DEF Plain
<1>2. IsElement(kind[2], value) /\ value # Err
    BY <1>1, FitsElement DEF Carries
<1>3. v = IF set = Err \/ value = Err THEN Err ELSE <<"set", new>>
    BY DEF NewSet
<1> HIDE DEF value
<1>4. set # Err /\ v = <<"set", new>>
  <2> HIDE DEF new, set
  <2> QED BY <1>3
<1>5. IsSetOf(kind[2], set)
    BY <1>4, OldSet
<1> HIDE DEF set
<1>6. IsSetOf(kind[2], new)
    BY <1>2, <1>5, FS_AddElement, FS_RemoveElement DEF IsSetOf
<1> HIDE DEF new
<1>7. v[2] = new
    BY <1>4
<1> QED BY <1>4, <1>6, <1>7 DEF IsValue

\* Intersections and unions of a set.
LEMMA MergedSetIs ==
    ASSUME NEW kind, HasDatatype(kind), NEW f, Fits(kind, f.dt1, f.arg1), Carries(f),
           NEW old, Holds(kind, old), NEW v, v = MergedSet(old, f), v # Err
    PROVE  IsValue(kind, v)
<1> DEFINE set == PayloadOf("set", old, {})
           other == ValueFromProtocol(f.dt1, f.arg1)
           new == IF f.name = "set_intersect" THEN set \cap other[2] ELSE set \cup other[2]
<1>1. IsValue(kind, other)
    BY FitsDecodes DEF Carries
<1>2. v = IF set = Err \/ other = Err \/ other[1] # "set" THEN Err ELSE <<"set", new>>
    BY DEF MergedSet
<1>3. set # Err /\ other[1] = "set" /\ v = <<"set", new>>
  <2> HIDE DEF new, set, other
  <2> QED BY <1>2
<1> HIDE DEF other
<1>4. kind[1] = "set" /\ kind[2] \in Plain /\ IsSetOf(kind[2], other[2])
    BY <1>1, <1>3, ValueCases, ElementCases
<1>5. IsSetOf(kind[2], set)
    BY <1>3, <1>4, OldSet
<1> HIDE DEF set
<1>6. IsSetOf(kind[2], new)
    BY <1>4, <1>5, FS_Union, FS_Intersection DEF IsSetOf
<1> HIDE DEF new
<1>7. v[2] = new
    BY <1>3
<1> QED BY <1>3, <1>4, <1>6, <1>7 DEF IsValue

\* Entries are added to a map, and removed.
LEMMA NewMapIs ==
    ASSUME NEW kind, HasDatatype(kind), NEW f, MapFits(kind, f), Carries(f),
           NEW old, Holds(kind, old), NEW v, v = NewMap(kind, old, f), v # Err
    PROVE  IsValue(kind, v)
<1> DEFINE map == MapOf(old)
           key == ValueFromKindBytes(kind[2], f.arg2)
<1>1. kind[1] = "map" /\ kind[2] \in Plain /\ kind[3] \in Plain /\ Fits(kind[2], f.dt2, f.arg2)
    BY KindCases, KindTags DEF Plain, MapFits
<1>2. IsElement(kind[2], key)
    BY <1>1, FitsElement DEF Carries
<1>3. CASE f.name = "map_add"
  <2> DEFINE value == ValueFromKindBytes(kind[3], f.arg1)
  <2>1. v = IF map = Err \/ key = Err \/ value = Err THEN Err ELSE <<"map", With(map, key, value)>>
      BY <1>3 DEF NewMap, ChangeEntry
  <2>2. IsElement(kind[3], value)
      BY <1>1, <1>3, FitsElement DEF Carries, MapFits
  <2> HIDE DEF value, key
  <2>3. map # Err /\ v = <<"map", With(map, key, value)>>
      BY <2>1
  <2> QED BY <1>1, <1>2, <2>2, <2>3, EntryChanged
<1>4. CASE f.name # "map_add"
  <2>1. v = IF map = Err \/ key = Err THEN Err ELSE <<"map", Without(map, key)>>
      BY <1>4 DEF NewMap
  <2> HIDE DEF key
  <2>2. map # Err /\ v = <<"map", Without(map, key)>>
      BY <2>1
  <2>3. IsMapOf(kind[2], kind[3], Without(map, key))
      BY <1>1, <2>2, OldMap, EntryRemoved
  <2>4. v[2] = Without(map, key)
      BY <2>2
  <2> QED BY <1>1, <2>2, <2>3, <2>4 DEF IsValue, IsMap
<1> QED BY <1>3, <1>4

\* What a call that was validated makes of an attribute is a value of its kind.
LEMMA NewValueIs ==
    ASSUME NEW schema, NEW f, ValidFuncall(schema, f), Carries(f),
           NEW kind, kind = KindOf(schema, f.attr), HasDatatype(kind),
           NEW r, Holds(kind, Existing(r, f.attr)), NEW v, v = NewValue(schema, r, f), v # Err
    PROVE  IsValue(kind, v)
<1> DEFINE old == Existing(r, f.attr)
<1>1. CASE f.name = "set"
  <2>1. v = ValueFromProtocol(f.dt1, f.arg1) /\ Fits(kind, f.dt1, f.arg1)
      BY <1>1 DEF NewValue, ValidFuncall, NumNames, StringNames, ListNames, ElementNames, MergeNames
  <2> QED BY <2>1, FitsDecodes DEF Carries
<1>2. CASE f.name \in StringNames
  <2>1. v = NewText(kind, old, f) /\ StringFits(kind, f)
      BY <1>2 DEF NewValue, ValidFuncall, NumNames, StringNames, ListNames, ElementNames, MergeNames
  <2> QED BY <1>2, <2>1, NewTextIs
<1>3. CASE f.name \in NumNames
  <2>1. v = NewNumber(kind, old, f) /\ NumericFits(kind, f)
      BY <1>3 DEF NewValue, ValidFuncall, NumNames, StringNames, ListNames, ElementNames, MergeNames
  <2> QED BY <1>3, <2>1, NewNumberIs
<1>4. CASE f.name \in ListNames
  <2>1. v = NewList(kind, old, f) /\ ElementFits(kind, f)
      BY <1>4 DEF NewValue, ValidFuncall, NumNames, StringNames, ListNames, ElementNames, MergeNames
  <2>2. kind[1] = "list" /\ Fits(kind[2], f.dt1, f.arg1)
      BY <1>4, <2>1 DEF ElementFits, TakesElement, ListNames, ElementNames, MergeNames
  <2> QED BY <2>1, <2>2, NewListIs
<1>5. CASE f.name \in ElementNames
  <2>1. v = NewSet(kind, old, f) /\ ElementFits(kind, f)
      BY <1>5 DEF NewValue, ValidFuncall, NumNames, StringNames, ListNames, ElementNames, MergeNames
  <2>2. kind[1] = "set" /\ Fits(kind[2], f.dt1, f.arg1)
      BY <1>5, <2>1 DEF ElementFits, TakesElement, ListNames, ElementNames, MergeNames
  <2> QED BY <2>1, <2>2, NewSetIs
<1>6. CASE f.name \in MergeNames
  <2>1. v = MergedSet(old, f) /\ ElementFits(kind, f)
      BY <1>6 DEF NewValue, ValidFuncall, NumNames, StringNames, ListNames, ElementNames, MergeNames
  <2>2. Fits(kind, f.dt1, f.arg1)
      BY <1>6, <2>1 DEF ElementFits, TakesElement, ListNames, ElementNames, MergeNames
  <2> QED BY <2>1, <2>2, MergedSetIs
<1>7. CASE f.name \in {"map_add", "map_remove"}
  <2>1. v = NewMap(kind, old, f) /\ MapFits(kind, f)
      BY <1>7 DEF NewValue, ValidFuncall, NumNames, StringNames, ListNames, ElementNames, MergeNames
  <2> QED BY <2>1, NewMapIs
<1> QED BY <1>1, <1>2, <1>3, <1>4, <1>5, <1>6, <1>7 DEF ValidFuncall

-------------------------------------------------------------------------------
(* A value is encoded, and decoded again.                                     *)

\* One element.
LEMMA ElementEncoded ==
    ASSUME NEW kind \in Plain, NEW v, IsElement(kind, v), NEW unit, unit = EncodeElement(kind, v)
    PROVE  unit \in Units /\ unit # Err /\ Element(kind, unit) = v
<1>0. KInt \notin Text /\ KFloat \notin Text /\ KInt # KFloat
    BY KindTags
<1>1. CASE kind \in Text
  <2>1. unit = <<"s", v[2]>> /\ v[2] \in Texts /\ v = <<"bytes", v[2]>>
      BY <1>0, <1>1, ElementCases DEF EncodeElement
  <2>2. unit \in Units /\ unit[1] = "s" /\ unit[2] = v[2]
      BY <2>1 DEF Units
  <2> QED BY <1>0, <1>1, <2>1, <2>2, DistinctAssumption DEF Element, Bytes
<1>2. CASE kind = KInt
  <2>1. unit = <<"i", v[2]>> /\ v[2] \in Int /\ v = <<"int", v[2]>>
      BY <1>0, <1>2, ElementCases DEF EncodeElement
  <2>2. unit \in Units /\ unit[1] = "i" /\ unit[2] = v[2]
      BY <2>1 DEF Units
  <2> QED BY <1>0, <1>2, <2>1, <2>2, DistinctAssumption DEF Element, AsI64, Number
<1>3. CASE kind = KFloat
  <2>1. unit = <<"f", Some>> /\ v = Float
      BY <1>0, <1>3, ElementCases DEF EncodeElement
  <2>2. unit \in Units /\ unit[1] = "f"
      BY <2>1 DEF Units
  <2> QED BY <1>0, <1>3, <2>1, <2>2, DistinctAssumption DEF Element
<1> QED BY <1>1, <1>2, <1>3 DEF Plain

\* A sequence of elements.
LEMMA ElementsEncoded ==
    ASSUME NEW elem \in Plain, NEW n \in Nat, NEW s, s = [i \in 1..n |-> s[i]],
           \A i \in 1..n : IsElement(elem, s[i]), NEW units, units = AllOrErr(Encoded(elem, s))
    PROVE  units # Err /\ units \in Seq(Units) /\ Elements(elem, units) = s /\ Err \notin Range(s)
<1> DEFINE e == Encoded(elem, s)
<1>1. DOMAIN s = 1..n
    OBVIOUS
<1>2. ASSUME NEW i \in 1..n
      PROVE  e[i] \in Units /\ e[i] # Err /\ Element(elem, e[i]) = s[i] /\ s[i] # Err
  <2>1. e[i] = EncodeElement(elem, s[i])
      BY <1>1 DEF Encoded
  <2> HIDE DEF e
  <2> QED BY <2>1, ElementEncoded, ElementCases
<1>3. e \in [1..n -> Units] /\ DOMAIN e = 1..n
    BY <1>1, <1>2 DEF Encoded
<1> HIDE DEF e
<1>4. e \in Seq(Units)
    BY <1>3, IsSequence
<1>5. units = e
    BY <1>2, <1>3 DEF AllOrErr, Range, e
<1>6. Elements(elem, e) = [i \in 1..n |-> s[i]]
    BY <1>2, <1>3 DEF Elements
<1> QED BY <1>1, <1>2, <1>4, <1>5, <1>6, DistinctAssumption DEF Range

\* The elements of a set in some order.
LEMMA SetSequence ==
    ASSUME NEW S, IsFiniteSet(S), NEW n, n = Cardinality(S)
    PROVE  /\ n \in Nat /\ SetToSeq(S) \in [1..n -> S] /\ Range(SetToSeq(S)) = S
           /\ \A i, j \in 1..n : SetToSeq(S)[i] = SetToSeq(S)[j] => i = j
<1> DEFINE s == SetToSeq(S)
<1>1. n \in Nat /\ ExistsBijection(1..n, S)
    BY FS_CardinalityType
<1>2. PICK f : f \in Bijection(1..n, S)
    BY <1>1 DEF ExistsBijection
<1>3. f \in [1..n -> S] /\ IsInjective(f)
    BY <1>2 DEF Bijection, Injection
<1>4. s \in [1..n -> S] /\ IsInjective(s)
    BY <1>3 DEF SetToSeq
<1> HIDE DEF s
<1>5. s \in Injection(1..n, S)
    BY <1>4 DEF Injection
<1>6. IsFiniteSet(1..n) /\ Cardinality(1..n) = n
    BY <1>1, FirstNumbers
<1>7. s \in Surjection(1..n, S)
    BY <1>5, <1>6, FS_Injection
<1>8. Range(s) = S
    BY <1>4, <1>7 DEF Surjection, Range
<1>9. \A i, j \in 1..n : s[i] = s[j] => i = j
    BY <1>4 DEF IsInjective
<1> QED BY <1>1, <1>4, <1>8, <1>9 DEF s

\* The keys of a map in some order, and its pairs one after the other.
Listed(map, n, keys) ==
    /\ keys \in [1..n -> DOMAIN map] /\ Range(keys) = DOMAIN map
    /\ \A i, j \in 1..n : keys[i] = keys[j] => i = j
Pairs(kind, map, n, keys, units) ==
    /\ units \in Seq(Units) /\ Len(units) = n * 2
    /\ \A i \in 1..n : /\ units[2 * i - 1] = EncodeElement(kind[2], keys[i])
                      /\ units[2 * i] = EncodeElement(kind[3], map[keys[i]])

\* They are read as the map.
LEMMA PairsRead ==
    ASSUME NEW kind, kind[2] \in Plain, kind[3] \in Plain, NEW map, IsMapOf(kind[2], kind[3], map),
           NEW n \in Nat, NEW keys, Listed(map, n, keys), NEW units, Pairs(kind, map, n, keys, units)
    PROVE  MapFrom(kind, units) = <<"map", map>>
<1> USE DEF Listed, Pairs
<1>0. PICK l \in Nat : l = Len(units) /\ l = n * 2
    OBVIOUS
<1>1. l = Len(units) /\ n = l \div 2 /\ l % 2 = 0
    BY <1>0
<1> DEFINE ks == [i \in 1..n |-> Element(kind[2], units[2 * i - 1])]
           vs == [i \in 1..n |-> Element(kind[3], units[2 * i])]
           last(k) == Max({i \in 1..n : ks[i] = k})
           made == [k \in Range(ks) |-> vs[last(k)]]
<1>8. PICK v : v = MapFrom(kind, units)
    OBVIOUS
<1>9. v = IF l % 2 = 1 \/ Err \in Range(ks) \cup Range(vs) THEN Err ELSE <<"map", made>>
    BY <1>1, <1>8 DEF MapFrom
<1>2. ASSUME NEW i \in 1..n
      PROVE  ks[i] = keys[i] /\ vs[i] = map[keys[i]] /\ ks[i] # Err /\ vs[i] # Err
  <2>1. keys[i] \in DOMAIN map /\ IsElement(kind[2], keys[i]) /\ IsElement(kind[3], map[keys[i]])
      BY DEF IsMapOf, IsSetOf
  <2>2. /\ Element(kind[2], EncodeElement(kind[2], keys[i])) = keys[i] /\ keys[i] # Err
        /\ Element(kind[3], EncodeElement(kind[3], map[keys[i]])) = map[keys[i]] /\ map[keys[i]] # Err
      BY <2>1, ElementEncoded, ElementCases
  <2> QED BY <2>2
<1>3. DOMAIN ks = 1..n /\ DOMAIN vs = 1..n /\ ks = keys
    BY <1>2
<1> HIDE DEF ks, vs
<1>4. Err \notin Range(ks) \cup Range(vs)
    BY <1>2, <1>3 DEF Range
<1>5. ASSUME NEW k \in DOMAIN map PROVE made[k] = map[k]
  <2>1. PICK i \in 1..n : keys[i] = k
      BY DEF Range
  <2>2. {j \in 1..n : ks[j] = k} = {i}
      BY <1>3, <2>1
  <2>3. {i} \in SUBSET (1..n) /\ {i} # {}
      OBVIOUS
  <2>4. Max({i}) = i
      BY <2>3, MaxInSet
  <2>5. made[k] = vs[i]
      BY <1>3, <2>2, <2>4
  <2> QED BY <1>2, <2>1, <2>5
<1>6. made = map
  <2>1. DOMAIN made = DOMAIN map /\ made = [k \in DOMAIN made |-> made[k]]
      BY <1>3
  <2>2. map = [k \in DOMAIN map |-> map[k]]
      BY DEF IsMapOf
  <2> HIDE DEF made
  <2> QED BY <1>5, <2>1, <2>2
<1> HIDE DEF made
<1> QED BY <1>1, <1>4, <1>6, <1>8, <1>9

\* The pairs of a map are encoded, and decoded again.
LEMMA MapEncoded ==
    ASSUME NEW kind, kind \notin Text, kind \notin {KInt, KFloat}, kind[1] = "map",
           kind[2] \in Plain, kind[3] \in Plain, NEW map, IsMapOf(kind[2], kind[3], map),
           NEW bytes, bytes = ProtocolValue(kind, <<"map", map>>)
    PROVE  bytes # Err /\ bytes \in Seq(Units) /\ MapFrom(kind, bytes) = <<"map", map>>
<1> DEFINE keys == SetToSeq(DOMAIN map)
           pair(i) == <<EncodeElement(kind[2], keys[i]), EncodeElement(kind[3], map[keys[i]])>>
           rows == [i \in DOMAIN keys |-> pair(i)]
<1>1. bytes = AllOrErr(FlattenSeq(rows))
  <2> DEFINE v == <<"map", map>>
  <2>1. v[1] = "map" /\ v[2] = map
      OBVIOUS
  <2> HIDE DEF v
  <2>2. PICK b : b = ProtocolValue(kind, v)
      OBVIOUS
  <2>3. b = AllOrErr(FlattenSeq(rows))
      BY <2>1, <2>2 DEF ProtocolValue, IsMap
  <2> QED BY <2>2, <2>3 DEF v
<1>2. PICK n \in Nat : Listed(map, n, keys)
    BY SetSequence DEF IsMapOf, IsSetOf, Listed
<1> HIDE DEF keys
<1>3. ASSUME NEW i \in 1..n
      PROVE  /\ rows[i] \in Seq(Units) /\ Len(rows[i]) = 2
             /\ rows[i][1] = EncodeElement(kind[2], keys[i])
             /\ rows[i][2] = EncodeElement(kind[3], map[keys[i]])
  <2>1. keys[i] \in DOMAIN map /\ IsElement(kind[2], keys[i]) /\ IsElement(kind[3], map[keys[i]])
      BY <1>2 DEF IsMapOf, IsSetOf, Listed
  <2>2. PICK a \in Units, b \in Units :
           a = EncodeElement(kind[2], keys[i]) /\ b = EncodeElement(kind[3], map[keys[i]])
      BY <2>1, ElementEncoded
  <2>3. rows[i] = <<a, b>>
      BY <1>2, <2>2 DEF Listed
  <2> HIDE DEF rows
  <2> QED BY <2>2, <2>3
<1>4. rows \in [1..n -> Seq(Units)]
    BY <1>2, <1>3 DEF Listed
<1> HIDE DEF rows
<1>5. CASE n = 0
  <2>1. DOMAIN rows = {} /\ rows \in Seq(Seq(Units)) /\ Len(rows) = 0
      BY <1>4, <1>5, IsSequence
  <2>2. FlattenSeq(rows) = rows /\ rows = <<>>
      BY <2>1, EmptySeq DEF FlattenSeq
  <2>3. bytes = <<>>
      BY <1>1, <2>2 DEF AllOrErr, Range
  <2>4. <<>> \in Seq(Units) /\ Len(<<>>) = 0 * 2
      BY EmptySeq
  <2>5. MapFrom(kind, <<>>) = <<"map", map>>
    <3>1. Pairs(kind, map, n, keys, <<>>)
        BY <1>5, <2>4 DEF Pairs
    <3> QED BY <1>2, <3>1, PairsRead
  <2> QED BY <2>3, <2>4, <2>5, DistinctAssumption
<1>6. CASE n > 0
  <2>1. PICK list \in Seq(Units) :
           /\ list = FlattenSeq(rows) /\ Len(list) = n * 2
           /\ \A i \in 1..n, j \in 1..2 : list[(i - 1) * 2 + j] = rows[i][j]
    <3>1. Grid(Units, n, 2, rows, FlattenSeq(rows))
        BY <1>3, <1>4, <1>6, FlattenEqual
    <3> QED BY <3>1 DEF Grid
  <2>2. bytes = list
    <3>1. Err \notin Units /\ \A i \in DOMAIN list : list[i] \in Units
        BY DistinctAssumption
    <3> QED BY <1>1, <2>1, <3>1 DEF AllOrErr, Range
  <2>3. ASSUME NEW i \in 1..n
        PROVE  /\ list[2 * i - 1] = EncodeElement(kind[2], keys[i])
               /\ list[2 * i] = EncodeElement(kind[3], map[keys[i]])
    <3>1. (i - 1) * 2 + 1 = 2 * i - 1 /\ (i - 1) * 2 + 2 = 2 * i /\ 1 \in 1..2 /\ 2 \in 1..2
        OBVIOUS
    <3>2. list[2 * i - 1] = rows[i][1] /\ list[2 * i] = rows[i][2]
        BY <2>1, <3>1
    <3> QED BY <1>3, <3>2
  <2>4. Pairs(kind, map, n, keys, list)
      BY <2>1, <2>3 DEF Pairs
  <2>5. MapFrom(kind, list) = <<"map", map>>
      BY <1>2, <2>4, PairsRead
  <2> QED BY <2>2, <2>5, DistinctAssumption
<1> QED BY <1>5, <1>6

\* A value of a kind with a datatype can be encoded, and the bytes decode to it.
LEMMA ValueRoundTrip ==
    ASSUME NEW kind, HasDatatype(kind), NEW v, IsValue(kind, v),
           NEW bytes, bytes = ProtocolValue(kind, v)
    PROVE  bytes # Err /\ bytes \in Seq(Units) /\ ValueFromKindBytes(kind, bytes) = v
<1>0. KInt \notin Text /\ KFloat \notin Text /\ KInt # KFloat
    BY KindTags
<1>1. CASE kind \in Text /\ IsElement(kind, v)
  <2>1. bytes = v[2] /\ v[2] \in Texts /\ v = <<"bytes", v[2]>>
      BY <1>0, <1>1, ElementCases, KindTags DEF ProtocolValue, Plain
  <2>2. ValueFromKindBytes(kind, bytes) = <<"bytes", bytes>>
      BY <1>1, KindTags DEF ValueFromKindBytes, Bytes
  <2>3. bytes \in Seq(Units)
    <3>1. \A i \in 1..Len(bytes) : bytes[i] \in Units
        BY <2>1 DEF Texts, Units
    <3> QED BY <2>1, <3>1 DEF Texts
  <2> QED BY <2>1, <2>2, <2>3, DistinctAssumption
<1>2. CASE kind \in {KInt, KFloat} /\ IsElement(kind, v)
  <2>1. PICK unit \in Units : unit = EncodeElement(kind, v)
      BY <1>2, ElementEncoded DEF Plain
  <2>2. bytes = <<unit>>
    <3>1. v[1] = kind[1]
        BY <1>0, <1>2, ElementCases, KindTags DEF Plain
    <3> QED BY <1>0, <1>2, <2>1, <3>1, KindTags DEF ProtocolValue
  <2>3. bytes \in Seq(Units) /\ bytes # <<>> /\ bytes[1] = unit
      BY <2>2, EmptySeq
  <2>4. CASE kind = KInt
    <3>1. unit = <<"i", v[2]>> /\ v = <<"int", v[2]>>
        BY <1>0, <1>2, <2>1, <2>4, ElementCases DEF EncodeElement, Plain
    <3>2. unit[1] = "i" /\ unit[2] = v[2]
        BY <3>1
    <3>3. HasWord(bytes) /\ AsI64(bytes[1]) = v[2]
        BY <2>3, <3>2 DEF HasWord, AsI64
    <3>4. ValueFromKindBytes(kind, bytes) = <<"int", v[2]>>
        BY <1>0, <2>4, <3>3, KindTags DEF ValueFromKindBytes, Number
    <3> QED BY <2>3, <3>1, <3>4, DistinctAssumption
  <2>5. CASE kind = KFloat
    <3>1. unit = <<"f", Some>> /\ v = Float
        BY <1>0, <1>2, <2>1, <2>5, ElementCases DEF EncodeElement, Plain
    <3>2. HasWord(bytes)
        BY <2>3, <3>1 DEF HasWord
    <3>3. ValueFromKindBytes(kind, bytes) = Float
        BY <1>0, <2>5, <3>2, KindTags DEF ValueFromKindBytes
    <3> QED BY <2>3, <3>1, <3>3, DistinctAssumption
  <2> QED BY <1>2, <2>4, <2>5
<1>3. CASE kind \notin Plain
  <2>1. kind \notin Text /\ kind # KInt /\ kind # KFloat
      BY <1>3 DEF Plain
  <2>2. CASE kind[1] = "list" /\ kind[2] \in Plain /\ v[1] = "list" /\ v = <<"list", v[2]>> /\ IsListOf(kind[2], v[2])
    <3>1. PICK s : s = v[2]
        OBVIOUS
    <3>2. bytes = AllOrErr(Encoded(kind[2], s))
        BY <2>1, <2>2, <3>1 DEF ProtocolValue, IsMap
    <3>3. PICK n \in Nat : s = [i \in 1..n |-> s[i]]
        BY <2>2, <3>1 DEF IsListOf, IsList
    <3>4. kind[2] \in Plain /\ \A i \in 1..n : IsElement(kind[2], s[i])
        BY <2>2, <3>1, <3>3 DEF IsListOf
    <3>5. bytes # Err /\ bytes \in Seq(Units) /\ Elements(kind[2], bytes) = s /\ Err \notin Range(s)
        BY <3>2, <3>3, <3>4, ElementsEncoded
    <3>6. ValueFromKindBytes(kind, bytes) = <<"list", s>>
        BY <2>1, <2>2, <3>5, KindTags DEF ValueFromKindBytes, OrErr
    <3> QED BY <2>2, <3>1, <3>5, <3>6
  <2>3. CASE kind[1] = "set" /\ kind[2] \in Plain /\ v[1] = "set" /\ v = <<"set", v[2]>> /\ IsSetOf(kind[2], v[2])
    <3> DEFINE s == SetToSeq(v[2])
    <3>1. bytes = AllOrErr(Encoded(kind[2], s))
        BY <2>1, <2>3 DEF ProtocolValue, IsMap
    <3>2. PICK n \in Nat : s \in [1..n -> v[2]] /\ Range(s) = v[2]
        BY <2>3, SetSequence DEF IsSetOf
    <3> HIDE DEF s
    <3>3. s = [i \in 1..n |-> s[i]] /\ \A i \in 1..n : IsElement(kind[2], s[i])
        BY <2>3, <3>2 DEF IsSetOf
    <3>4. bytes # Err /\ bytes \in Seq(Units) /\ Elements(kind[2], bytes) = s /\ Err \notin Range(s)
        BY <2>3, <3>1, <3>3, ElementsEncoded
    <3>5. ValueFromKindBytes(kind, bytes) = <<"set", v[2]>>
        BY <2>1, <2>3, <3>2, <3>4, KindTags DEF ValueFromKindBytes, OrErr
    <3> QED BY <2>3, <3>4, <3>5
  <2>4. CASE /\ kind[1] = "map" /\ kind[2] \in Plain /\ kind[3] \in Plain
             /\ v[1] = "map" /\ v = <<"map", v[2]>> /\ IsMapOf(kind[2], kind[3], v[2])
    <3>1. bytes # Err /\ bytes \in Seq(Units) /\ MapFrom(kind, bytes) = <<"map", v[2]>>
        BY <2>1, <2>4, MapEncoded
    <3>2. ValueFromKindBytes(kind, bytes) = MapFrom(kind, bytes)
        BY <2>1, <2>4, KindTags DEF ValueFromKindBytes
    <3> QED BY <2>4, <3>1, <3>2
  <2> QED BY <1>3, <2>2, <2>3, <2>4, ValueCases
<1>4. IsElement(kind, v) \/ kind \notin Plain
    BY ValueCases, KindTags DEF Plain
<1> QED BY <1>1, <1>2, <1>3, <1>4 DEF Plain

-------------------------------------------------------------------------------
(* The arguments of a named call.                                             *)

\* A named argument is carried as its datatype says.
LEMMA NamedCarried ==
    ASSUME NEW kind, NEW g, g # Absent, IsNamed(g), NEW arg, arg = NamedArg(kind, g), arg # Err
    PROVE  Carried(kind, arg)
<1> DEFINE value == NamedValue(kind, g)
<1>0. /\ KInt \notin Text /\ KFloat \notin Text /\ KInt # KFloat /\ KBool \notin Text
      /\ KBool[1] = "bool" /\ KBool # KInt /\ KBytes \in Text /\ KString \in Text /\ KDocument \in Text
      /\ KBool # KFloat
    BY KindTags DEF KBool, Text
<1>1. value # Err /\ arg = ProtocolValue(kind, value)
    BY DEF NamedArg
<1>2. value[1] \notin {"null", "bool"}
  <2> SUFFICES ASSUME value[1] \in {"null", "bool"} PROVE FALSE
      OBVIOUS
  <2> HIDE DEF value
  <2>1. ProtocolValue(kind, value) = Err
      BY <1>0, KindTags DEF ProtocolValue
  <2> QED BY <1>1, <2>1
<1>3. CASE kind \in Text
  <2>1. g[1] \in {"bytes", "string"} /\ value[1] \in {"bytes", "string"} /\ value[2] = g[2]
      BY <1>0, <1>1, <1>2, <1>3 DEF NamedValue, Bytes, Text
  <2>2. g[2] \in Texts
      BY <2>1 DEF IsNamed
  <2> HIDE DEF value
  <2>3. arg = g[2]
      BY <1>1, <1>3, <2>1, KindTags DEF ProtocolValue
  <2>4. arg \in Seq(Units) /\ NumberIn(arg)
    <3>1. \A i \in 1..Len(arg) : arg[i] \in Units /\ arg[i][1] = "c"
        BY <2>2, <2>3 DEF Texts, Units
    <3>2. arg \in Seq(Units)
        BY <2>2, <2>3, <3>1 DEF Texts
    <3>3. arg # <<>> => 1 \in 1..Len(arg)
        BY <3>2, EmptySeq, LenProperties
    <3> QED BY <3>1, <3>2, <3>3 DEF NumberIn
  <2> QED BY <2>2, <2>3, <2>4 DEF Carried
<1>4. CASE kind = KInt
  <2>1. g[1] = "int" /\ value = g
      BY <1>0, <1>1, <1>2, <1>4 DEF NamedValue, Text
  <2>2. PICK n \in Int : n = g[2]
      BY <2>1, Ends DEF IsNamed, HasNumber
  <2>3. arg = <<<<"i", n>>>>
    <3>1. EncodeElement(KInt, g) = <<"i", n>>
        BY <1>0, <2>1, <2>2 DEF EncodeElement
    <3>2. ProtocolValue(KInt, g) = <<EncodeElement(KInt, g)>>
        BY <1>0, <2>1, KindTags DEF ProtocolValue
    <3> QED BY <1>1, <1>4, <2>1, <3>1, <3>2
  <2>4. PICK unit : unit = <<"i", n>> /\ unit[1] = "i" /\ unit[2] = n /\ unit \in Units
    <3>1. <<"i", n>> \in Units
        BY <2>2 DEF Units
    <3> QED BY <3>1
  <2>5. arg \in Seq(Units) /\ arg[1] = unit
      BY <2>3, <2>4
  <2> QED BY <1>0, <1>4, <2>4, <2>5 DEF Carried, NumberIn
<1>5. CASE kind \notin Text /\ kind # KInt
  <2>1. value = g /\ (g[1] = "null" \/ g[1] = "bool")
      BY <1>0, <1>1, <1>5 DEF NamedValue, Text
  <2> QED BY <1>2, <2>1
<1> QED BY <1>3, <1>4, <1>5

\* A named call in protocol form has the arguments of its datatypes.
LEMMA NamedSent ==
    ASSUME NEW schema, NEW f, IsNamed(f.arg1), IsNamed(f.arg2),
           NEW call, call = NamedFuncall(schema, f), call # Err
    PROVE  Carries(call)
<1> DEFINE kind == KindOf(schema, f.attr)
           kinds == NamedKinds(kind, f.name)
           second == IF f.name = "map_remove" THEN f.arg1 ELSE f.arg2
           arg(k, g) == IF k = Absent THEN <<>> ELSE IF g = Absent THEN Err ELSE NamedArg(k, g)
           datatype(k) == IF k = Absent THEN None ELSE Datatype(k)
           made == Funcall(f.attr, f.name, arg(kinds[1], f.arg1), datatype(kinds[1]),
                           arg(kinds[2], second), datatype(kinds[2]))
<1>1. call = IF \/ kind = Err \/ kinds = Err
                \/ Err \in {made.arg1, made.dt1, made.arg2, made.dt2} THEN Err ELSE made
    BY Zenon DEF NamedFuncall
<1>2. /\ made.arg1 = arg(kinds[1], f.arg1) /\ made.dt1 = datatype(kinds[1])
      /\ made.arg2 = arg(kinds[2], second) /\ made.dt2 = datatype(kinds[2])
  <2> HIDE DEF arg, datatype, kinds, second
  <2> QED BY DEF Funcall
<1>3. ASSUME NEW k, NEW g, IsNamed(g), arg(k, g) # Err, datatype(k) # Err
      PROVE  Carried(datatype(k), arg(k, g))
  <2>1. CASE k = Absent
    <3>1. <<>> \in Seq(Units) /\ <<>> \in Texts /\ NumberIn(<<>>)
        BY EmptySeq DEF Texts, NumberIn
    <3> QED BY <2>1, <3>1 DEF Carried
  <2>2. CASE k # Absent
    <3>1. datatype(k) = k /\ arg(k, g) = NamedArg(k, g) /\ g # Absent
        BY <1>3, <2>2 DEF Datatype
    <3> QED BY <1>3, <3>1, NamedCarried
  <2> QED BY <2>1, <2>2
<1>4. IsNamed(second)
    OBVIOUS
<1> HIDE DEF made, arg, datatype, kinds, second
<1>5. /\ call.arg1 = arg(kinds[1], f.arg1) /\ call.dt1 = datatype(kinds[1])
      /\ call.arg2 = arg(kinds[2], second) /\ call.dt2 = datatype(kinds[2])
      /\ Err \notin {call.arg1, call.dt1, call.arg2, call.dt2}
    BY <1>1, <1>2
<1> QED BY <1>3, <1>4, <1>5 DEF Carries

-------------------------------------------------------------------------------
(* What a function call makes of a record.                                    *)

\* What is stored for an attribute of a kind.
Stores(kind, v) == v # Err /\ (HasDatatype(kind) => IsValue(kind, v))

\* A record of the schema, with this value for its key or, if that is Absent, none.
HasKey(id, r) ==
    IF id = Absent THEN KeyAttribute \notin DOMAIN r
    ELSE KeyAttribute \in DOMAIN r /\ r[KeyAttribute] = id
TypedBy(schema, id, r) ==
    /\ HasKey(id, r)
    /\ \A x \in DOMAIN r \ {KeyAttribute} : x \in DOMAIN schema /\ Stores(schema[x], r[x])

\* A call that was validated.
Served(schema, f) == ValidFuncall(schema, f) /\ Carries(f)

\* The key is no attribute a call can change: its bytes have no datatype to read.
LEMMA CallOnAttribute ==
    ASSUME NEW schema, NEW f, KeyAttribute \notin DOMAIN schema, ValidFuncall(schema, f)
    PROVE  f.attr \in DOMAIN schema /\ KindOf(schema, f.attr) = schema[f.attr]
<1>1. \A dt, arg : ~Fits(KBytes, dt, arg)
  <2>1. KindFromDatatype(KBytes) = Err
    <3>1. KBytes[1] = "bytes" /\ KString[1] = "string" /\ KInt[1] = "int" /\ KFloat[1] = "float"
        BY DEF KBytes, KString, KInt, KFloat
    <3>2. KBytes \notin {KString, KInt, KFloat} /\ ~Over(KBytes, {KBytes, KString, KInt, KFloat})
        BY <3>1 DEF Over, IsMap
    <3> QED BY <3>2 DEF KindFromDatatype
  <2> QED BY <2>1 DEF Fits, ValueFromProtocol
<1>2. KBytes[1] = "bytes" /\ KInt[1] = "int" /\ KFloat[1] = "float"
    BY DEF KBytes, KInt, KFloat
<1>3. KBytes # KInt /\ KBytes # KFloat /\ ~IsMap(KBytes)
    BY <1>2 DEF IsMap
<1>4. SUFFICES ASSUME f.attr \notin DOMAIN schema PROVE FALSE
    BY DEF KindOf
<1>5. KindOf(schema, f.attr) = KBytes
    BY <1>4 DEF KindOf, ValidFuncall
<1>6. ~NumericFits(KBytes, f) /\ ~StringFits(KBytes, f) /\ ~ElementFits(KBytes, f) /\ ~MapFits(KBytes, f)
  <2>1. ~NumericFits(KBytes, f)
      BY <1>3 DEF NumericFits
  <2>2. ~StringFits(KBytes, f)
      BY <1>1, <1>3 DEF StringFits
  <2>3. ~ElementFits(KBytes, f)
      BY <1>1, <1>2 DEF ElementFits, TakesElement
  <2>4. ~MapFits(KBytes, f)
      BY <1>3 DEF MapFits
  <2> QED BY <2>1, <2>2, <2>3, <2>4
<1> QED BY <1>1, <1>5, <1>6 DEF ValidFuncall

\* KInt is none of the other kinds.
LEMMA IntKind ==
    /\ KInt[1] = "int" /\ KInt \notin Text /\ KInt # KFloat /\ ~IsMap(KInt)
    /\ \A name : ~TakesElement(KInt, name)
<1>1. /\ KInt[1] = "int" /\ KFloat[1] = "float" /\ KBytes[1] = "bytes"
      /\ KString[1] = "string" /\ KDocument[1] = "document"
    BY DEF KInt, KFloat, KBytes, KString, KDocument
<1> QED BY <1>1 DEF Text, IsMap, TakesElement

\* What a call on an integer can be.
LEMMA IntCall ==
    ASSUME NEW f, NEW schema, KindOf(schema, f.attr) = KInt, ValidFuncall(schema, f)
    PROVE  \/ f.name = "set" /\ Fits(KInt, f.dt1, f.arg1) /\ NoArg2(f)
           \/ f.name \in NumNames /\ f.dt1 \in {KInt, KFloat} /\ HasWord(f.arg1) /\ NoArg2(f)
           \/ f.name \in MergeNames /\ Fits(KInt, f.dt1, f.arg1)
<1>1. ~StringFits(KInt, f) /\ ~MapFits(KInt, f)
    BY IntKind DEF StringFits, MapFits
<1>2. NumericFits(KInt, f) => f.dt1 \in {KInt, KFloat} /\ HasWord(f.arg1) /\ NoArg2(f)
    BY IntKind DEF NumericFits, OperandFits
<1>3. ElementFits(KInt, f) => f.name \in MergeNames /\ Fits(KInt, f.dt1, f.arg1)
    BY IntKind DEF ElementFits
<1> QED BY <1>1, <1>2, <1>3 DEF ValidFuncall

\* An argument of an integer's datatype.
LEMMA IntArgument ==
    ASSUME NEW dt, NEW arg, Fits(KInt, dt, arg), NumberIn(arg)
    PROVE  /\ HasWord(arg) /\ AsI64(arg[1]) \in Int
           /\ ValueFromProtocol(dt, arg) = <<"int", AsI64(arg[1])>>
<1>1. dt = KInt /\ ValueFromProtocol(KInt, arg) # Err
    BY DEF Fits
<1>2. ValueFromKindBytes(KInt, arg) = IF HasWord(arg) THEN Number(AsI64(arg[1])) ELSE Err
    BY IntKind DEF ValueFromKindBytes
<1>3. HasWord(arg) /\ ValueFromProtocol(KInt, arg) = Number(AsI64(arg[1]))
    BY <1>1, <1>2 DEF ValueFromProtocol
<1> QED BY <1>1, <1>3, IntWord DEF Number

\* What is stored for an integer.
LEMMA IntStored == \A v : Stores(KInt, v) <=> v \in {"int"} \X Int
<1>1. HasDatatype(KInt)
    BY DEF HasDatatype
<1>2. \A v : IsValue(KInt, v) <=> v \in {"int"} \X Int
    BY KindTags DEF IsValue, IsElement
<1>3. \A v \in {"int"} \X Int : v # Err
    BY DistinctAssumption
<1> QED BY <1>1, <1>2, <1>3 DEF Stores

\* A call leaves a value of the attribute's kind.
LEMMA ValueStays ==
    ASSUME NEW schema, KeyAttribute \notin DOMAIN schema, NEW id, NEW r, TypedBy(schema, id, r), NEW f,
           Served(schema, f), NEW v, v = NewValue(schema, r, f), v # Err
    PROVE  Stores(schema[f.attr], v)
<1>1. /\ f.attr \in DOMAIN schema /\ KindOf(schema, f.attr) = schema[f.attr]
      /\ ValidFuncall(schema, f) /\ Carries(f)
    BY CallOnAttribute DEF Served
<1>2. HasDatatype(schema[f.attr]) => Holds(schema[f.attr], Existing(r, f.attr))
    BY <1>1 DEF TypedBy, Stores, Holds, Existing
<1> QED BY <1>1, <1>2, NewValueIs DEF Stores

\* The integer a record has for an attribute, zero when it has none.
LEMMA OldNumber ==
    ASSUME NEW schema, KeyAttribute \notin DOMAIN schema, NEW id, NEW r, TypedBy(schema, id, r),
           NEW x, x \in DOMAIN schema, schema[x] = KInt
    PROVE  /\ PayloadOf("int", Existing(r, x), 0) \in Int
           /\ PayloadOf("int", Existing(r, x), 0) = IF x \in DOMAIN r THEN r[x][2] ELSE 0
           /\ PayloadOf("set", Existing(r, x), {}) \in {{}, Err}
<1>1. CASE x \notin DOMAIN r
    BY <1>1 DEF Existing, PayloadOf
<1>2. CASE x \in DOMAIN r
  <2>1. r[x] \in {"int"} \X Int
      BY <1>2, IntStored DEF TypedBy
  <2>2. PICK i \in Int : r[x] = <<"int", i>>
      BY <2>1
  <2>3. r[x] # Absent /\ r[x][1] = "int" /\ r[x][2] = i
      BY <2>1, <2>2, DistinctAssumption
  <2> QED BY <1>2, <2>3 DEF Existing, PayloadOf
<1> QED BY <1>1, <1>2

\* An attribute is written.
LEMMA WithTyped ==
    ASSUME NEW schema, KeyAttribute \notin DOMAIN schema, NEW id, NEW r, TypedBy(schema, id, r),
           NEW x \in DOMAIN schema, NEW v, Stores(schema[x], v)
    PROVE  TypedBy(schema, id, With(r, x, v))
BY DEF TypedBy, HasKey, With

\* The fields of a state.
LEMMA StateFields ==
    ASSUME NEW r, NEW ok
    PROVE  /\ State(r, ok).record = r /\ State(r, ok).ok = ok
           /\ [State(r, ok) EXCEPT !.ok = FALSE] = State(r, FALSE)
           /\ Going(r).record = r /\ Going(r).ok = TRUE /\ \E b : Going(r) = State(r, b)
<1> DEFINE no == FALSE
<1> HIDE DEF no
<1>1. State(r, ok).record = r /\ State(r, ok).ok = ok
    BY DEF State
<1>2. [State(r, ok) EXCEPT !.ok = no] = State(r, no)
    BY DEF State
<1>3. Going(r).record = r /\ Going(r).ok = TRUE
    BY DEF State, Going
<1>4. \E b : Going(r) = State(r, b)
    BY Zenon DEF Going
<1> QED BY <1>1, <1>2, <1>3, <1>4, Zenon DEF no

\* An attribute is written.
LEMMA StateWritten ==
    ASSUME NEW r, NEW x, NEW v
    PROVE  [Going(r) EXCEPT !.record = With(@, x, v)] = Going(With(r, x, v))
<1> DEFINE yes == TRUE
<1> HIDE DEF yes
<1>1. [State(r, yes) EXCEPT !.record = With(@, x, v)] = State(With(r, x, v), yes)
    BY DEF State
<1> QED BY <1>1, Zenon DEF yes, Going

\* A call keeps the record in its schema, also when it fails.
LEMMA FuncallKeeps ==
    ASSUME NEW schema, KeyAttribute \notin DOMAIN schema, NEW id, NEW r, TypedBy(schema, id, r),
           NEW ok, NEW f, Served(schema, f)
    PROVE  \E s, b : TypedBy(schema, id, s) /\ ApplyFuncall(schema, State(r, ok), f) = State(s, b)
<1>1. State(r, ok).record = r /\ State(r, ok).ok = ok
    BY DEF State
<1>2. CASE ~ok
  <2>1. ApplyFuncall(schema, State(r, ok), f) = State(r, ok)
      BY <1>1, <1>2 DEF ApplyFuncall
  <2> QED BY <2>1
<1>3. CASE ok /\ NewValue(schema, r, f) = Err
  <2>1. ApplyFuncall(schema, State(r, ok), f) = [State(r, ok) EXCEPT !.ok = FALSE]
      BY <1>1, <1>3 DEF ApplyFuncall
  <2>2. [State(r, ok) EXCEPT !.ok = FALSE] = State(r, FALSE)
      BY StateFields, Zenon
  <2> QED BY <2>1, <2>2
<1>4. CASE ok /\ NewValue(schema, r, f) # Err
  <2> DEFINE v == NewValue(schema, r, f)
  <2>1. ApplyFuncall(schema, State(r, ok), f) = [State(r, ok) EXCEPT !.record = With(@, f.attr, v)]
      BY <1>1, <1>4 DEF ApplyFuncall
  <2>2. [State(r, ok) EXCEPT !.record = With(@, f.attr, v)] = State(With(r, f.attr, v), ok)
    <3> HIDE DEF v
    <3> QED BY DEF State
  <2>3. f.attr \in DOMAIN schema
      BY CallOnAttribute DEF Served
  <2>4. Stores(schema[f.attr], v)
      BY <1>4, ValueStays
  <2>5. TypedBy(schema, id, With(r, f.attr, v))
    <3> HIDE DEF v
    <3> QED BY <2>3, <2>4, WithTyped
  <2> QED BY <2>1, <2>2, <2>5
<1> QED BY <1>2, <1>3, <1>4

\* The engine carries out what it is given, and leaves an integer an integer.
InEngine(schema, f) ==
    f.arg2 = <<>> /\ (f.name = "set" \/ (f.name \in EngineNames /\ KindOf(schema, f.attr) = KInt))
EngineValue(r, f) ==
    IF f.name = "set" THEN ValueFromProtocol(f.dt1, f.arg1)
    ELSE Number(EngineNumeric(f.name, PayloadOf("int", Existing(r, f.attr), 0), AsI64(f.arg1[1])))

\* The six operations of the engine are those of a function call.
LEMMA SameNumeric ==
    ASSUME NEW name \in EngineNames, NEW a \in Int, NEW b \in Int
    PROVE  EngineNumeric(name, a, b) = ApplyI64(name, a, b) /\ EngineNumeric(name, a, b) \in Int
<1>1. \A i \in Int : Saturate(i) \in Int
    BY Ends DEF Saturate
<1>2. BitsOf(a) \in SUBSET (0..(Width - 1)) /\ BitsOf(b) \in SUBSET (0..(Width - 1))
    BY DEF BitsOf
<1>3. /\ FromBits(BitsOf(a) \cap BitsOf(b)) \in Int /\ FromBits(BitsOf(a) \cup BitsOf(b)) \in Int
      /\ FromBits((BitsOf(a) \cup BitsOf(b)) \ (BitsOf(a) \cap BitsOf(b))) \in Int
    BY <1>2, BitsType
<1>4. (BitsOf(a) \ BitsOf(b)) \cup (BitsOf(b) \ BitsOf(a))
         = (BitsOf(a) \cup BitsOf(b)) \ (BitsOf(a) \cap BitsOf(b))
    OBVIOUS
<1>5. a + b \in Int /\ a - b \in Int /\ a * b \in Int
    OBVIOUS
<1>6. CASE name \in {"num_add", "num_sub", "num_mul"}
    BY <1>1, <1>5, <1>6 DEF ApplyI64, EngineNumeric
<1>7. CASE name \in {"num_and", "num_or"}
    BY <1>3, <1>7 DEF ApplyI64, EngineNumeric
<1>8. CASE name = "num_xor"
    BY <1>3, <1>4, <1>8 DEF ApplyI64, EngineNumeric
<1> QED BY <1>6, <1>7, <1>8 DEF EngineNames

\* The engine carries out a mutation, and the record stays one of the schema.
LEMMA MutationKeeps ==
    ASSUME NEW schema, KeyAttribute \notin DOMAIN schema, NEW id, NEW r, TypedBy(schema, id, r), NEW f,
           Served(schema, f), InEngine(schema, f)
    PROVE  /\ ApplyMutation(Going(r), MutationFrom(f))
                = Going(With(r, f.attr, EngineValue(r, f)))
           /\ TypedBy(schema, id, With(r, f.attr, EngineValue(r, f)))
<1> DEFINE m == MutationFrom(f)
           old == PayloadOf("int", Existing(r, f.attr), 0)
<1>1. /\ f.attr \in DOMAIN schema /\ KindOf(schema, f.attr) = schema[f.attr]
      /\ ValidFuncall(schema, f) /\ Carries(f) /\ NumberIn(f.arg1)
    BY CallOnAttribute DEF Served, Carries, Carried
<1>2. Going(r).record = r /\ Going(r).ok = TRUE
    BY StateFields, Zenon
<1>3. m.attr = f.attr /\ m.op = f.name
    BY DEF MutationFrom
<1>4. ASSUME NEW v
      PROVE  [Going(r) EXCEPT !.record = With(@, f.attr, v)] = Going(With(r, f.attr, v))
    BY StateWritten, Zenon
<1>5. CASE f.name = "set"
  <2>1. m.value = ValueFromProtocol(f.dt1, f.arg1) /\ EngineValue(r, f) = m.value
      BY <1>5 DEF MutationFrom, EngineValue
  <2>2. ApplyMutation(Going(r), m) = [Going(r) EXCEPT !.record = With(@, f.attr, m.value)]
    <3> HIDE DEF m
    <3> QED BY <1>2, <1>3, <1>5 DEF ApplyMutation
  <2>3. Stores(schema[f.attr], m.value)
    <3>1. Fits(schema[f.attr], f.dt1, f.arg1)
        BY <1>1, <1>5 DEF ValidFuncall, NumNames, StringNames, ListNames, ElementNames, MergeNames
    <3> HIDE DEF m
    <3> QED BY <1>1, <2>1, <3>1, FitsDecodes DEF Carries, Stores
  <2> HIDE DEF m
  <2>4. TypedBy(schema, id, With(r, f.attr, m.value))
      BY <1>1, <2>3, WithTyped
  <2>5. ApplyMutation(Going(r), m) = Going(With(r, f.attr, m.value))
      BY <1>4, <2>2, Zenon
  <2> QED BY <2>1, <2>4, <2>5 DEF m
<1>6. CASE f.name # "set"
  <2>1. f.name \in EngineNames /\ schema[f.attr] = KInt /\ f.name \in NumNames
      BY <1>1, <1>6 DEF InEngine, EngineNames, NumNames
  <2>2. HasWord(f.arg1)
      BY <1>1, <1>6, <2>1, IntCall DEF MergeNames, NumNames
  <2>3. PICK b \in Int : b = AsI64(f.arg1[1])
      BY <1>1, <2>1, <2>2, IntWord
  <2>4. PICK a \in Int : a = old
      BY <1>1, <2>1, OldNumber
  <2>5. a # Err
      BY DistinctAssumption
  <2>6. m.value[2] = b
    <3>1. m.value = <<"int", b>>
        BY <1>6, <2>3 DEF MutationFrom, Number
    <3> QED BY <3>1
  <2>7. PICK v \in Int : v = EngineNumeric(f.name, a, b)
      BY <2>1, SameNumeric
  <2>8. EngineValue(r, f) = Number(v)
      BY <1>6, <2>3, <2>4, <2>7 DEF EngineValue
  <2>9. ApplyMutation(Going(r), m) = [Going(r) EXCEPT !.record = With(@, f.attr, Number(v))]
    <3> HIDE DEF m
    <3> QED BY <1>2, <1>3, <1>6, <2>4, <2>5, <2>6, <2>7 DEF ApplyMutation
  <2>10. Stores(schema[f.attr], Number(v))
      BY <2>1, IntStored DEF Number
  <2>11. TypedBy(schema, id, With(r, f.attr, Number(v)))
      BY <1>1, <2>10, WithTyped
  <2> QED BY <1>4, <2>8, <2>9, <2>11
<1> QED BY <1>5, <1>6

\* For an operand of the attribute's own datatype the copy gets the engine's value.
LEMMA SameValue ==
    ASSUME NEW schema, KeyAttribute \notin DOMAIN schema, NEW id, NEW r, TypedBy(schema, id, r), NEW f,
           Served(schema, f), InEngine(schema, f), f.dt1 = KindOf(schema, f.attr)
    PROVE  ApplyFuncall(schema, Going(r), f) = ApplyMutation(Going(r), MutationFrom(f))
<1>1. /\ f.attr \in DOMAIN schema /\ KindOf(schema, f.attr) = schema[f.attr]
      /\ ValidFuncall(schema, f) /\ Carries(f) /\ NumberIn(f.arg1)
    BY CallOnAttribute DEF Served, Carries, Carried
<1>2. Going(r).record = r /\ Going(r).ok = TRUE
    BY StateFields, Zenon
<1>3. ASSUME NEW v
      PROVE  [Going(r) EXCEPT !.record = With(@, f.attr, v)] = Going(With(r, f.attr, v))
    BY StateWritten, Zenon
<1>4. SUFFICES EngineValue(r, f) = NewValue(schema, r, f) /\ NewValue(schema, r, f) # Err
  <2>1. ApplyFuncall(schema, Going(r), f)
           = [Going(r) EXCEPT !.record = With(@, f.attr, NewValue(schema, r, f))]
      BY <1>2, <1>4 DEF ApplyFuncall
  <2>2. ApplyFuncall(schema, Going(r), f) = Going(With(r, f.attr, NewValue(schema, r, f)))
      BY <1>3, <2>1
  <2> QED BY <1>4, <2>2, MutationKeeps
<1>5. CASE f.name = "set"
  <2>1. EngineValue(r, f) = ValueFromProtocol(f.dt1, f.arg1) /\ NewValue(schema, r, f) = ValueFromProtocol(f.dt1, f.arg1)
      BY <1>5 DEF EngineValue, NewValue, NumNames, StringNames, ListNames, ElementNames, MergeNames
  <2>2. Fits(schema[f.attr], f.dt1, f.arg1)
      BY <1>1, <1>5 DEF ValidFuncall, NumNames, StringNames, ListNames, ElementNames, MergeNames
  <2> QED BY <2>1, <2>2 DEF Fits
<1>6. CASE f.name # "set"
  <2>1. f.name \in EngineNames /\ schema[f.attr] = KInt /\ f.name \in NumNames /\ f.dt1 = KInt
      BY <1>1, <1>6 DEF InEngine, EngineNames, NumNames
  <2>2. HasWord(f.arg1)
      BY <1>1, <1>6, <2>1, IntCall DEF MergeNames, NumNames
  <2>3. PICK b \in Int : b = AsI64(f.arg1[1])
      BY <1>1, <2>1, <2>2, IntWord
  <2>4. OperandI64(f) = b
      BY <2>1, <2>3, IntKind DEF OperandI64
  <2>5. PICK a \in Int : a = PayloadOf("int", Existing(r, f.attr), 0)
      BY <1>1, <2>1, OldNumber
  <2>6. PICK v \in Int : v = EngineNumeric(f.name, a, b) /\ v = ApplyI64(f.name, a, b)
      BY <2>1, SameNumeric
  <2>7. v # Err /\ a # Err
      BY DistinctAssumption
  <2>8. EngineValue(r, f) = Number(v)
      BY <1>6, <2>3, <2>5, <2>6 DEF EngineValue
  <2>9. NewValue(schema, r, f) = NumberFrom(KInt, Existing(r, f.attr), f)
    <3>1. NewValue(schema, r, f) = NewNumber(KInt, Existing(r, f.attr), f)
        BY <1>1, <2>1 DEF NewValue, NumNames, StringNames, ListNames, ElementNames, MergeNames
    <3> QED BY <3>1, IntKind DEF NewNumber
  <2>10. NumberFrom(KInt, Existing(r, f.attr), f) = Number(v)
      BY <2>4, <2>5, <2>6, <2>7, IntKind DEF NumberFrom
  <2>11. Number(v) # Err
      BY DistinctAssumption DEF Number
  <2> QED BY <2>8, <2>9, <2>10, <2>11
<1> QED BY <1>5, <1>6

-------------------------------------------------------------------------------
(* What all the calls of a request make of a record.                          *)

\* The calls of a request that was validated.
Calls(schema, n, fs) == DOMAIN fs = 1..n /\ \A i \in 1..n : Served(schema, fs[i])

\* A record of the schema stays one on the copy.
LEMMA FuncallsKeep ==
    ASSUME NEW schema, KeyAttribute \notin DOMAIN schema, NEW id, NEW r, TypedBy(schema, id, r),
           NEW n \in Nat, NEW fs, Calls(schema, n, fs)
    PROVE  TypedBy(schema, id, ApplyFuncalls(schema, r, fs).record)
<1>1. PICK t : /\ t[0] = Going(r)
               /\ \A k \in 1..n : t[k] = ApplyFuncall(schema, t[k - 1], fs[k])
               /\ ApplyFuncalls(schema, r, fs) = t[n]
  <2>1. FuncallsPass(schema, r, n, fs)
      BY FuncallTrace DEF Calls
  <2> QED BY <2>1 DEF FuncallsPass
<1> DEFINE Fine(a) == \E s, b : TypedBy(schema, id, s) /\ a = State(s, b)
           N == {k \in Nat : k <= n => Fine(t[k])}
<1>2. 0 \in N
  <2>1. PICK b : Going(r) = State(r, b)
      BY StateFields
  <2>2. Fine(t[0])
      BY <1>1, <2>1
  <2> QED BY <2>2
<1>3. ASSUME NEW k \in Nat, k \in N PROVE k + 1 \in N
  <2> SUFFICES ASSUME k + 1 <= n PROVE Fine(t[k + 1])
      OBVIOUS
  <2>1. k + 1 \in 1..n /\ (k + 1) - 1 = k /\ k <= n
      OBVIOUS
  <2>2. PICK s, b : TypedBy(schema, id, s) /\ t[k] = State(s, b)
      BY <1>3, <2>1
  <2>3. Served(schema, fs[k + 1]) /\ t[k + 1] = ApplyFuncall(schema, State(s, b), fs[k + 1])
      BY <1>1, <2>1, <2>2 DEF Calls
  <2> QED BY <2>2, <2>3, FuncallKeeps
<1>4. n \in N
  <2> HIDE DEF N
  <2> QED BY <1>2, <1>3, Induction
<1>5. PICK s, b : TypedBy(schema, id, s) /\ t[n] = State(s, b)
    BY <1>4
<1>6. State(s, b).record = s
    BY DEF State
<1> QED BY <1>1, <1>5, <1>6

\* The engine carries out all its mutations, and leaves a record of the schema.
LEMMA MutationsKeep ==
    ASSUME NEW schema, KeyAttribute \notin DOMAIN schema, NEW id, NEW r, TypedBy(schema, id, r),
           NEW n \in Nat, NEW fs, Calls(schema, n, fs), \A i \in 1..n : InEngine(schema, fs[i]),
           NEW ms, ms = [i \in 1..n |-> MutationFrom(fs[i])]
    PROVE  /\ TypedBy(schema, id, ApplyMutations(r, ms).record) /\ ApplyMutations(r, ms).ok
           /\ (\A i \in 1..n : fs[i].dt1 = KindOf(schema, fs[i].attr))
                 => ApplyMutations(r, ms) = ApplyFuncalls(schema, r, fs)
<1>1. PICK t : /\ t[0] = Going(r)
               /\ \A k \in 1..n : t[k] = ApplyMutation(t[k - 1], ms[k])
               /\ ApplyMutations(r, ms) = t[n]
  <2>1. DOMAIN ms = 1..n
      OBVIOUS
  <2>2. MutationsPass(r, n, ms)
      BY <2>1, MutationTrace
  <2> QED BY <2>2 DEF MutationsPass
<1>2. PICK u : /\ u[0] = Going(r)
               /\ \A k \in 1..n : u[k] = ApplyFuncall(schema, u[k - 1], fs[k])
               /\ ApplyFuncalls(schema, r, fs) = u[n]
  <2>1. FuncallsPass(schema, r, n, fs)
      BY FuncallTrace DEF Calls
  <2> QED BY <2>1 DEF FuncallsPass
<1> DEFINE Fit == \A i \in 1..n : fs[i].dt1 = KindOf(schema, fs[i].attr)
           Fine(a) == \E s : TypedBy(schema, id, s) /\ a = Going(s)
           N == {k \in Nat : k <= n => Fine(t[k]) /\ (Fit => t[k] = u[k])}
<1>3. 0 \in N
  <2>1. Fine(t[0]) /\ t[0] = u[0]
      BY <1>1, <1>2
  <2> QED BY <2>1
<1>4. ASSUME NEW k \in Nat, k \in N PROVE k + 1 \in N
  <2> SUFFICES ASSUME k + 1 <= n PROVE Fine(t[k + 1]) /\ (Fit => t[k + 1] = u[k + 1])
      OBVIOUS
  <2>1. k + 1 \in 1..n /\ (k + 1) - 1 = k /\ k <= n
      OBVIOUS
  <2>2. PICK s : TypedBy(schema, id, s) /\ t[k] = Going(s)
      BY <1>4, <2>1
  <2>3. PICK f : f = fs[k + 1]
      OBVIOUS
  <2>4. Served(schema, f) /\ InEngine(schema, f) /\ ms[k + 1] = MutationFrom(f)
      BY <2>1, <2>3 DEF Calls
  <2>5. t[k + 1] = ApplyMutation(Going(s), MutationFrom(f))
      BY <1>1, <2>1, <2>2, <2>4
  <2>6. Fine(t[k + 1])
      BY <2>2, <2>4, <2>5, MutationKeeps
  <2>7. ASSUME Fit PROVE t[k + 1] = u[k + 1]
    <3>1. u[k] = Going(s) /\ f.dt1 = KindOf(schema, f.attr)
        BY <1>4, <2>1, <2>2, <2>3, <2>7
    <3>2. u[k + 1] = ApplyFuncall(schema, Going(s), f)
        BY <1>2, <2>1, <2>3, <3>1
    <3> QED BY <2>2, <2>4, <2>5, <3>1, <3>2, SameValue
  <2> QED BY <2>6, <2>7
<1>5. n \in N
  <2> HIDE DEF N
  <2> QED BY <1>3, <1>4, Induction
<1>6. PICK s : TypedBy(schema, id, s) /\ t[n] = Going(s)
    BY <1>5
<1>7. Fit => t[n] = u[n]
    BY <1>5
<1>8. Going(s).record = s /\ Going(s).ok
    BY DEF Going, State
<1>9. TypedBy(schema, id, ApplyMutations(r, ms).record) /\ ApplyMutations(r, ms).ok
    BY <1>1, <1>6, <1>8
<1> QED BY <1>1, <1>2, <1>7, <1>9

\* A single call.
LEMMA OneFuncall ==
    ASSUME NEW schema, NEW r, NEW fs, DOMAIN fs = 1..1
    PROVE  ApplyFuncalls(schema, r, fs) = ApplyFuncall(schema, Going(r), fs[1])
<1>1. PICK t : /\ t[0] = Going(r)
               /\ \A k \in 1..1 : t[k] = ApplyFuncall(schema, t[k - 1], fs[k])
               /\ ApplyFuncalls(schema, r, fs) = t[1]
  <2>1. FuncallsPass(schema, r, 1, fs)
      BY FuncallTrace
  <2> QED BY <2>1 DEF FuncallsPass
<1>2. 1 \in 1..1 /\ 1 - 1 = 0
    OBVIOUS
<1> QED BY <1>1, <1>2

\* A single mutation.
LEMMA OneMutation ==
    ASSUME NEW r, NEW ms, DOMAIN ms = 1..1
    PROVE  ApplyMutations(r, ms) = ApplyMutation(Going(r), ms[1])
<1>1. PICK t : /\ t[0] = Going(r)
               /\ \A k \in 1..1 : t[k] = ApplyMutation(t[k - 1], ms[k])
               /\ ApplyMutations(r, ms) = t[1]
  <2>1. MutationsPass(r, 1, ms)
      BY MutationTrace
  <2> QED BY <2>1 DEF MutationsPass
<1>2. 1 \in 1..1 /\ 1 - 1 = 0
    OBVIOUS
<1> QED BY <1>1, <1>2

-------------------------------------------------------------------------------
(* Requests, as they were sent and as they are decoded.                       *)

\* The call is on the same attribute.
LEMMA NamedAttribute ==
    ASSUME NEW schema, NEW f, NEW call, call = NamedFuncall(schema, f), call # Err
    PROVE  call.attr = f.attr
BY DEF NamedFuncall, Funcall

\* The arguments of a call in protocol form.
LEMMA BytesCarried ==
    ASSUME NEW dt, NEW arg, IsBytes(dt, arg)
    PROVE  Carried(dt, arg)
BY Ends DEF IsBytes, HasNumber, Carried, NumberIn

\* What validation lets through can be carried out.
LEMMA ChangeCalls ==
    ASSUME NEW schema, NEW q \in Range(RequestOf), q.kind = "atomic",
           NEW change, change = KeyChange(schema, q), change # Err, ValidAtomic(schema, change)
    PROVE  /\ change.key = q.key /\ q.key \in Keys /\ change.erase = q.erase
           /\ \E n \in Nat : Calls(schema, n, change.funcalls)
<1>1. /\ DOMAIN q = {"kind", "format", "key", "erase", "fail_if_found", "fail_if_not_found",
                     "checks", "funcalls"}
      /\ q.key \in Keys /\ IsList(q.funcalls)
      /\ \A i \in DOMAIN q.funcalls : IsCall(q.format, q.funcalls[i])
    BY RequestsAssumption
<1>2. PICK n \in Nat : DOMAIN q.funcalls = 1..n
    BY <1>1 DEF IsList
<1>3. DOMAIN change.funcalls = 1..n => \A i \in 1..n : ValidFuncall(schema, change.funcalls[i])
    BY DEF ValidAtomic
<1>4. CASE q.format = "protocol"
  <2>1. change = q
      BY <1>4 DEF KeyChange
  <2>2. ASSUME NEW i \in 1..n PROVE Carries(q.funcalls[i])
    <3>1. IsCall("protocol", q.funcalls[i])
        BY <1>1, <1>2, <1>4
    <3> QED BY <3>1, BytesCarried DEF IsCall, Carries
  <2>3. Calls(schema, n, change.funcalls)
      BY <1>2, <1>3, <2>1, <2>2 DEF Calls, Served
  <2> QED BY <1>1, <2>1, <2>3
<1>5. CASE q.format # "protocol"
  <2> DEFINE calls == [i \in DOMAIN q.funcalls |-> NamedFuncall(schema, q.funcalls[i])]
             checks == Converted(q.checks, LAMBDA check : NamedCheck(schema, check))
             funcalls == Converted(q.funcalls, LAMBDA f : NamedFuncall(schema, f))
  <2>1. funcalls = IF Err \in Range(calls) THEN Err ELSE calls
      BY DEF Converted
  <2>2. funcalls # Err /\ change = [q EXCEPT !.checks = checks, !.funcalls = funcalls]
    <3>1. KeyChange(schema, q) = IF checks = Err \/ funcalls = Err THEN Err
                                 ELSE [q EXCEPT !.checks = checks, !.funcalls = funcalls]
        BY <1>5 DEF KeyChange
    <3> HIDE DEF checks, funcalls
    <3> QED BY <3>1
  <2>3. change.key = q.key /\ change.erase = q.erase /\ change.funcalls = funcalls
    <3> HIDE DEF checks, funcalls
    <3> QED BY <1>1, <2>2
  <2>4. funcalls = calls /\ Err \notin Range(calls)
    <3> HIDE DEF funcalls, calls
    <3> QED BY <2>1, <2>2
  <2>5. change.funcalls = calls /\ DOMAIN calls = 1..n
      BY <1>2, <2>3, <2>4
  <2>6. ASSUME NEW i \in 1..n PROVE Carries(calls[i])
    <3>1. calls[i] = NamedFuncall(schema, q.funcalls[i]) /\ calls[i] # Err
        BY <1>2, <2>4 DEF Range
    <3>2. IsNamed(q.funcalls[i].arg1) /\ IsNamed(q.funcalls[i].arg2)
        BY <1>1, <1>2, <1>5 DEF IsCall
    <3> HIDE DEF calls
    <3> QED BY <3>1, <3>2, NamedSent
  <2> HIDE DEF calls
  <2>7. Calls(schema, n, change.funcalls)
      BY <1>3, <2>5, <2>6 DEF Calls, Served
  <2> QED BY <1>1, <2>3, <2>7
<1> QED BY <1>4, <1>5

\* What the head of the handler made of a request.
LEMMA AtomicDecoded ==
    ASSUME NEW schema, NEW q, q.kind = "atomic", NEW d, d = Decoded(schema, q)
    PROVE  /\ d.change = KeyChange(schema, q)
           /\ d.valid => d.change # Err /\ ValidAtomic(schema, d.change)
                         /\ d.checks = DecodedChecks(schema, d.change.checks)
<1> DEFINE change == KeyChange(schema, q)
           good == change # Err /\ ValidAtomic(schema, change)
           checks == IF good THEN DecodedChecks(schema, change.checks) ELSE Err
<1>1. d = [change |-> change, valid |-> good, checks |-> checks]
    BY DEF Decoded
<1>2. d.change = change /\ d.checks = checks /\ d.valid = good
  <2> HIDE DEF change, good, checks
  <2> QED BY <1>1
<1>3. d.valid => good
    BY <1>2, Zenon
<1> QED BY <1>2, <1>3

-------------------------------------------------------------------------------
(* Handlers, records and answers.                                             *)

\* A handler is at work.
Busy(c) == conn[c].pc \notin {"idle", "closed", "failed"}

\* The copy of a record that a key may have had, or of none.
CopyOf(k, r) == \E id \in {Absent, KeyValue(k)} : TypedBy(Schema, id, r)

\* Where a handler is: it has a request of its client and what decoding made of it;
\* a request that goes on was found valid, and goes the way of its calls.
Handler(c) ==
    /\ conn[c].pc \in Phases /\ conn[c].sent \in 0..Plans[plan].limit[c]
    /\ conn[c].request \in Plans[plan].menu[c] \cup {0}
    /\ Busy(c) => /\ conn[c].request \in Plans[plan].menu[c]
                  /\ conn[c].decoded = Decoded(Schema, Request(c))
    /\ conn[c].pc \in {"change", "prefetch", "store", "erase"} =>
          /\ Request(c).kind = "atomic" /\ Change(c) # Err /\ conn[c].decoded.valid
          /\ conn[c].pc = "erase" <=> Change(c).erase
    /\ conn[c].pc = "change" => CanUseRuntimeMutations(Schema, Change(c).funcalls)
    /\ conn[c].pc \in {"prefetch", "store"} => ~CanUseRuntimeMutations(Schema, Change(c).funcalls)
    /\ \E id : TypedBy(Schema, id, conn[c].fetched)
    /\ conn[c].pc = "store" => CopyOf(Change(c).key, conn[c].fetched)

\* Records are those of the schema, and each has its own key.
Records == DOMAIN rec \subseteq Keys /\ \A k \in DOMAIN rec : TypedBy(Schema, KeyValue(k), rec[k])

\* An answer is to a request of its client, before the one that is handled now.
Answers ==
    /\ IsFiniteSet(log)
    /\ \A e \in log :
          /\ e.client \in Clients /\ e.status \in Statuses
          /\ e.request \in Plans[plan].menu[e.client]
          /\ e.number \in Nat /\ e.number <= conn[e.client].sent
          /\ Busy(e.client) => e.number # conn[e.client].sent

HandlerInv == Records /\ Answers /\ \A c \in Clients : Handler(c)

\* What a step adds to the answers.
Adds(c) ==
    \/ log' = log /\ \/ conn'[c].sent = conn[c].sent /\ (Busy(c)' => Busy(c))
                     \/ conn'[c].sent = conn[c].sent + 1
    \/ /\ Busy(c) /\ ~Busy(c)' /\ conn'[c].sent = conn[c].sent
       /\ \E status \in Statuses : log' = log \cup {Entry(c, status)}

\* A key's bytes are a value.
LEMMA KeyIsThere ==
    /\ \A k \in Keys : KeyValue(k) # Absent
    /\ \A j, k \in Keys : KeyValue(j) = KeyValue(k) => j = k
<1>1. \A k \in Keys : KeyValue(k) \in {"bytes"} \X Texts
    BY KeysAssumption DEF KeyValue, Bytes
<1>2. \A j, k \in Keys : KeyValue(j) = KeyValue(k) => KeyBytes[j] = KeyBytes[k]
    BY DEF KeyValue, Bytes
<1> QED BY <1>1, <1>2, KeysAssumption, DistinctAssumption

\* The plan of a behaviour.
LEMMA PlanIs ==
    ASSUME plan \in DOMAIN Plans
    PROVE  /\ KeyAttribute \notin DOMAIN Schema
           /\ DOMAIN Initial \subseteq Keys /\ \A k \in DOMAIN Initial : TypedBy(Schema, KeyValue(k), Initial[k])
           /\ Plans[plan].menu \in [Clients -> SUBSET DOMAIN RequestOf]
           /\ Plans[plan].limit \in [Clients -> Nat]
<1>1. /\ KeyAttribute \notin DOMAIN Schema /\ DOMAIN Initial \subseteq Keys
      /\ \A k \in DOMAIN Initial :
            /\ Existing(Initial[k], KeyAttribute) = KeyValue(k)
            /\ \A x \in DOMAIN Initial[k] \ {KeyAttribute} :
                  /\ x \in DOMAIN Schema
                  /\ Initial[k][x] # Err /\ IsValue(Schema[x], Initial[k][x])
      /\ Plans[plan].menu \in [Clients -> SUBSET DOMAIN RequestOf]
      /\ Plans[plan].limit \in [Clients -> Nat]
    BY PlansAssumption DEF Schema, Initial
<1>2. ASSUME NEW k \in DOMAIN Initial PROVE TypedBy(Schema, KeyValue(k), Initial[k])
  <2>1. KeyValue(k) # Absent
      BY <1>1, KeyIsThere
  <2>2. HasKey(KeyValue(k), Initial[k])
      BY <1>1, <2>1 DEF HasKey, Existing
  <2> QED BY <1>1, <2>2 DEF TypedBy, Stores
<1> QED BY <1>1, <1>2

\* A step of one connection keeps the invariant when that connection, the records and
\* the answers are as they should be.
LEMMA HandlerStep ==
    ASSUME Shaped, HandlerInv, NEW c \in Clients, Own(c), Handler(c)', Records', Adds(c)
    PROVE  HandlerInv'
<1>1. plan' = plan /\ Schema' = Schema
    BY DEF Own, Schema
<1>2. ASSUME NEW d \in Clients PROVE Handler(d)'
  <2>1. CASE d = c
      BY <2>1
  <2>2. CASE d # c
    <3>1. conn'[d] = conn[d]
        BY <2>2 DEF Own
    <3>2. Request(d)' = Request(d) /\ Change(d)' = Change(d) /\ (Busy(d)' <=> Busy(d))
        BY <3>1 DEF Request, Change, Busy
    <3>3. Handler(d)
        BY DEF HandlerInv
    <3>4. CopyOf(Change(d).key, conn[d].fetched)' <=> CopyOf(Change(d).key, conn[d].fetched)
        BY <1>1, <3>1, <3>2 DEF CopyOf
    <3> QED BY <1>1, <3>1, <3>2, <3>3, <3>4 DEF Handler
  <2> QED BY <2>1, <2>2
<1>3. conn[c].sent \in Nat
  <2>1. Plans[plan].limit[c] \in Nat
      BY PlanIs DEF Shaped
  <2> QED BY <2>1 DEF HandlerInv, Handler
<1>4. ASSUME NEW e \in log
      PROVE  /\ e.client \in Clients /\ e.status \in Statuses
             /\ e.request \in Plans[plan].menu[e.client]
             /\ e.number \in Nat /\ e.number <= conn'[e.client].sent
             /\ Busy(e.client)' => e.number # conn'[e.client].sent
  <2>1. /\ e.client \in Clients /\ e.status \in Statuses
        /\ e.request \in Plans[plan].menu[e.client]
        /\ e.number \in Nat /\ e.number <= conn[e.client].sent
        /\ Busy(e.client) => e.number # conn[e.client].sent
      BY DEF HandlerInv, Answers
  <2>2. CASE e.client # c
    <3>1. conn'[e.client] = conn[e.client]
        BY <2>1, <2>2 DEF Own
    <3> QED BY <2>1, <3>1 DEF Busy
  <2>3. CASE e.client = c
      BY <1>3, <2>1, <2>3 DEF Adds
  <2> QED BY <2>2, <2>3
<1>5. IsFiniteSet(log)
    BY DEF HandlerInv, Answers
<1>6. CASE log' = log
  <2>1. Answers'
      BY <1>1, <1>4, <1>5, <1>6 DEF Answers
  <2> QED BY <1>2, <2>1 DEF HandlerInv
<1>7. CASE /\ Busy(c) /\ ~Busy(c)' /\ conn'[c].sent = conn[c].sent
           /\ \E status \in Statuses : log' = log \cup {Entry(c, status)}
  <2>1. PICK status \in Statuses : log' = log \cup {Entry(c, status)}
      BY <1>7
  <2>2. PICK e : e = Entry(c, status)
      OBVIOUS
  <2>3. /\ e.client = c /\ e.status = status /\ e.request = conn[c].request
        /\ e.number = conn[c].sent
      BY <2>2 DEF Entry
  <2>4. conn[c].request \in Plans[plan].menu[c]
      BY <1>7 DEF HandlerInv, Handler
  <2>5. IsFiniteSet(log')
      BY <1>5, <2>1, FS_AddElement
  <2>6. ASSUME NEW g \in log'
        PROVE  /\ g.client \in Clients /\ g.status \in Statuses
               /\ g.request \in Plans[plan].menu[g.client]
               /\ g.number \in Nat /\ g.number <= conn'[g.client].sent
               /\ Busy(g.client)' => g.number # conn'[g.client].sent
    <3>1. CASE g \in log
        BY <1>4, <3>1
    <3>2. CASE g = e
        BY <1>3, <1>7, <2>3, <2>4, <3>2
    <3> QED BY <2>1, <2>2, <3>1, <3>2
  <2>7. Answers'
      BY <1>1, <2>5, <2>6 DEF Answers
  <2> QED BY <1>2, <2>7 DEF HandlerInv
<1> QED BY <1>6, <1>7 DEF Adds

\* A record without attributes is one of any schema.
LEMMA NothingTyped == \A schema : TypedBy(schema, Absent, NoAttributes)
BY DEF TypedBy, HasKey, NoAttributes

\* The handler of an atomic request, after the dispatch.
LEMMA Working ==
    ASSUME Shaped, HandlerInv, NEW c \in Clients,
           conn[c].pc \in {"change", "prefetch", "store", "erase"}
    PROVE  /\ Change(c).key \in Keys /\ Change(c).key = Request(c).key
           /\ Request(c) \in Range(RequestOf) /\ Request(c).kind = "atomic"
           /\ Change(c) = KeyChange(Schema, Request(c)) /\ Change(c) # Err
           /\ Change(c).erase = Request(c).erase
           /\ ValidAtomic(Schema, Change(c))
           /\ Checks(c) = DecodedChecks(Schema, Change(c).checks)
           /\ \E n \in Nat : Calls(Schema, n, Change(c).funcalls)
           /\ Busy(c) /\ conn[c].request \in Plans[plan].menu[c]
<1>1. /\ Busy(c) /\ conn[c].request \in Plans[plan].menu[c]
      /\ conn[c].decoded = Decoded(Schema, Request(c)) /\ conn[c].decoded.valid
      /\ Request(c).kind = "atomic" /\ Change(c) # Err
    BY DEF HandlerInv, Handler, Busy
<1>2. conn[c].request \in DOMAIN RequestOf
    BY <1>1, PlanIs DEF Shaped
<1>3. Request(c) \in Range(RequestOf)
    BY <1>2 DEF Request, Range
<1>4. /\ Change(c) = KeyChange(Schema, Request(c)) /\ ValidAtomic(Schema, Change(c))
      /\ Checks(c) = DecodedChecks(Schema, Change(c).checks)
    BY <1>1, AtomicDecoded DEF Change, Checks
<1> QED BY <1>1, <1>3, <1>4, ChangeCalls

\* A handler that answers, ends its connection or goes on with a search.
LEMMA GoesOn ==
    ASSUME Shaped, HandlerInv, NEW c \in Clients, Own(c), Records',
           conn'[c].request = conn[c].request, conn'[c].decoded = conn[c].decoded,
           conn'[c].sent = conn[c].sent, conn'[c].fetched \in {conn[c].fetched, NoAttributes},
           \/ conn'[c].pc \in {"closed", "failed"} /\ log' = log
           \/ conn'[c].pc \in {"insert", "respond"} /\ log' = log /\ Busy(c)
           \/ /\ conn'[c].pc = "idle" /\ Busy(c)
              /\ \E status \in Statuses : log' = log \cup {Entry(c, status)}
    PROVE  HandlerInv'
<1>1. plan' = plan /\ Schema' = Schema
    BY DEF Own, Schema
<1>2. Handler(c) /\ (Request(c)' = Request(c))
    BY DEF HandlerInv, Request
<1>3. \E id : TypedBy(Schema, id, conn'[c].fetched)
    BY <1>2, NothingTyped DEF Handler
<1>4. Handler(c)'
    BY <1>1, <1>2, <1>3 DEF Handler, Busy, Phases
<1>5. Adds(c)
    BY DEF Adds, Busy
<1> QED BY <1>4, <1>5, HandlerStep

\* The records stay.
LEMMA RecordsStay ==
    ASSUME HandlerInv, rec' = rec, plan' = plan
    PROVE  Records'
BY DEF HandlerInv, Records, Schema

\* One record is replaced.
LEMMA RecordWritten ==
    ASSUME HandlerInv, plan' = plan, NEW k \in Keys, NEW r, TypedBy(Schema, KeyValue(k), r),
           rec' = With(rec, k, r)
    PROVE  Records'
<1>1. Schema' = Schema
    BY DEF Schema
<1> QED BY <1>1 DEF HandlerInv, Records, With

\* One record is removed.
LEMMA RecordRemoved ==
    ASSUME HandlerInv, plan' = plan, NEW k, rec' = Without(rec, k)
    PROVE  Records'
<1>1. Schema' = Schema
    BY DEF Schema
<1> QED BY <1>1 DEF HandlerInv, Records, Without

\* The record of a key, or none, is of the schema, and with its key it has it.
LEMMA EntryTyped ==
    ASSUME HandlerInv, NEW k
    PROVE  CopyOf(k, EntryOf(k))
<1>1. CASE k \in DOMAIN rec
    BY <1>1 DEF HandlerInv, Records, EntryOf, CopyOf
<1>2. CASE k \notin DOMAIN rec
    BY <1>2, NothingTyped DEF EntryOf, CopyOf
<1> QED BY <1>1, <1>2

\* The attribute of the key is set.
LEMMA KeyedTyped ==
    ASSUME HandlerInv, NEW k \in Keys
    PROVE  TypedBy(Schema, KeyValue(k), Keyed(k, EntryOf(k)))
<1>1. PICK id, r : r = EntryOf(k) /\ TypedBy(Schema, id, r)
    BY EntryTyped DEF CopyOf
<1>2. PICK v : v = KeyValue(k) /\ v # Absent
    BY KeyIsThere
<1>3. TypedBy(Schema, v, With(r, KeyAttribute, v))
    BY <1>1, <1>2 DEF TypedBy, HasKey, With
<1> QED BY <1>1, <1>2, <1>3 DEF Keyed

\* A record of the schema that is overwritten with a copy of it is one.
LEMMA OverwriteTyped ==
    ASSUME NEW schema, NEW id, NEW old \in {Absent, id}, NEW r, NEW s,
           TypedBy(schema, id, r), TypedBy(schema, old, s)
    PROVE  TypedBy(schema, id, Overwrite(r, s))
BY DEF TypedBy, HasKey, Overwrite

\* A handler answers, and the records are as they should be.
LEMMA AnswerStep ==
    ASSUME SearchInv, HandlerInv, NEW c \in Clients, Busy(c), plan' = plan, Records',
           NEW status \in Statuses, Answer(c, status)
    PROVE  HandlerInv'
<1>1. Shaped
    BY DEF SearchInv
<1> QED BY <1>1, AnswerFields, GoesOn DEF Keeps

\* A connection ends.
LEMMA EndStep ==
    ASSUME SearchInv, HandlerInv, NEW c \in Clients, plan' = plan, Records',
           NEW pc \in {"closed", "failed"}, Goto(c, pc)
    PROVE  HandlerInv'
<1>1. Shaped
    BY DEF SearchInv
<1> QED BY <1>1, GotoFields, GoesOn DEF Keeps

\* A frame arrives.
LEMMA HandlerReceive ==
    ASSUME SearchInv, HandlerInv, NEW c \in Clients, NEW q \in Plans[plan].menu[c], Receive(c, q)
    PROVE  HandlerInv'
<1>0. Shaped /\ DOMAIN conn[c] = Fields /\ Handler(c)
    BY DEF SearchInv, Shaped, HandlerInv
<1> DEFINE r == [conn[c] EXCEPT !.request = q, !.sent = @ + 1, !.pc = "handle",
                                !.decoded = Decoded(Schema, RequestOf[q])]
<1>1. conn' = [conn EXCEPT ![c] = r] /\ plan' = plan /\ rec' = rec /\ log' = log
      /\ conn[c].pc = "idle" /\ conn[c].sent < Plans[plan].limit[c]
    BY DEF Receive
<1>2. /\ DOMAIN r = Fields /\ r.pc = "handle" /\ r.request = q /\ r.sent = conn[c].sent + 1
      /\ r.decoded = Decoded(Schema, RequestOf[q]) /\ r.fetched = conn[c].fetched
    BY <1>0 DEF Fields
<1> HIDE DEF r
<1>3. Own(c) /\ conn'[c] = r
    BY <1>0, <1>1, <1>2, Replaced
<1>4. Schema' = Schema /\ Request(c)' = RequestOf[q]
    BY <1>1, <1>2, <1>3 DEF Schema, Request
<1>5. Plans[plan].limit[c] \in Nat
    BY <1>0, PlanIs DEF Shaped
<1>6. conn'[c].sent \in 0..Plans[plan].limit[c]
    BY <1>0, <1>1, <1>2, <1>3, <1>5 DEF Handler
<1>7. Handler(c)'
    BY <1>0, <1>1, <1>2, <1>3, <1>4, <1>6 DEF Handler, Busy, Phases
<1>8. Adds(c)
    BY <1>1, <1>2, <1>3 DEF Adds
<1> QED BY <1>0, <1>1, <1>3, <1>7, <1>8, RecordsStay, HandlerStep

\* The handler of an atomic request goes on.
LEMMA GoesTo ==
    ASSUME SearchInv, HandlerInv, NEW c \in Clients, conn[c].pc = "handle",
           plan' = plan, rec' = rec, Request(c).kind = "atomic",
           Change(c) # Err, conn[c].decoded.valid, NEW pc, Goto(c, pc),
           \/ pc = "erase" /\ Change(c).erase
           \/ /\ pc = "change" /\ ~Change(c).erase
              /\ CanUseRuntimeMutations(Schema, Change(c).funcalls)
           \/ /\ pc = "prefetch" /\ ~Change(c).erase
              /\ ~CanUseRuntimeMutations(Schema, Change(c).funcalls)
    PROVE  HandlerInv'
<1>0. Shaped /\ Handler(c) /\ Busy(c)
    BY DEF SearchInv, HandlerInv, Busy
<1>1. /\ Own(c) /\ conn'[c].pc = pc /\ conn'[c].fetched = conn[c].fetched /\ log' = log
      /\ conn'[c].request = conn[c].request /\ conn'[c].decoded = conn[c].decoded
      /\ conn'[c].sent = conn[c].sent
    BY <1>0, GotoFields DEF Keeps
<1>2. Schema' = Schema /\ Request(c)' = Request(c) /\ Change(c)' = Change(c)
    BY <1>1 DEF Schema, Request, Change
<1>3. /\ conn[c].request \in Plans[plan].menu[c] /\ conn[c].decoded = Decoded(Schema, Request(c))
      /\ conn[c].sent \in 0..Plans[plan].limit[c] /\ \E id : TypedBy(Schema, id, conn[c].fetched)
    BY <1>0 DEF Handler
<1>4. Handler(c)'
  <2>1. CASE pc = "erase"
      BY <1>1, <1>2, <1>3, <2>1 DEF Handler, Phases
  <2>2. CASE pc = "change"
      BY <1>1, <1>2, <1>3, <2>2 DEF Handler, Phases
  <2>3. CASE pc = "prefetch"
      BY <1>1, <1>2, <1>3, <2>3 DEF Handler, Phases
  <2> QED BY <2>1, <2>2, <2>3
<1>5. Adds(c)
    BY <1>0, <1>1 DEF Adds
<1> QED BY <1>0, <1>1, <1>4, <1>5, RecordsStay, HandlerStep

\* Where the route of an atomic request leads.
LEMMA Routes ==
    ASSUME NEW c, NEW q, NEW exists, AtomicRoute(c, q, exists)
    PROVE  \/ \E status \in Statuses : Answer(c, status)
           \/ q.erase /\ q.checks # <<>> /\ Fail(c)
           \/ q.erase /\ Goto(c, "erase")
           \/ ~q.erase /\ CanUseRuntimeMutations(Schema, q.funcalls) /\ Goto(c, "change")
           \/ ~q.erase /\ ~CanUseRuntimeMutations(Schema, q.funcalls) /\ Goto(c, "prefetch")
<1>1. CASE exists /\ q.fail_if_found /\ Answer(c, "compare_failed")
    BY <1>1 DEF Statuses
<1>2. CASE ~exists /\ q.fail_if_not_found /\ Answer(c, "not_found")
    BY <1>2 DEF Statuses
<1>3. CASE Goto(c, CASE q.erase -> IF q.checks = <<>> THEN "erase" ELSE "failed"
                     [] OTHER -> IF CanUseRuntimeMutations(Schema, q.funcalls) THEN "change"
                                 ELSE "prefetch")
  <2>1. CASE q.erase /\ q.checks = <<>>
      BY <1>3, <2>1
  <2>2. CASE q.erase /\ q.checks # <<>>
      BY <1>3, <2>2 DEF Fail
  <2>3. CASE ~q.erase /\ CanUseRuntimeMutations(Schema, q.funcalls)
      BY <1>3, <2>3
  <2>4. CASE ~q.erase /\ ~CanUseRuntimeMutations(Schema, q.funcalls)
      BY <1>3, <2>4
  <2> QED BY <2>1, <2>2, <2>3, <2>4
<1> QED BY <1>1, <1>2, <1>3 DEF AtomicRoute

\* An atomic request is validated and sent on its way.
LEMMA HandlerDispatch ==
    ASSUME SearchInv, HandlerInv, NEW c \in Clients, AtomicDispatch(c)
    PROVE  HandlerInv'
<1>1. /\ plan' = plan /\ rec' = rec /\ conn[c].pc = "handle" /\ Request(c).kind = "atomic"
      /\ Busy(c) /\ Records'
    BY RecordsStay DEF AtomicDispatch, Busy
<1>2. ASSUME NEW status \in Statuses, Answer(c, status) PROVE HandlerInv'
    BY <1>1, <1>2, AnswerStep
<1>3. CASE Fail(c)
    BY <1>1, <1>3, EndStep DEF Fail
<1>4. CASE Change(c) # Err /\ ~conn[c].decoded.valid /\ Answer(c, "bad_dimension_spec")
    BY <1>2, <1>4 DEF Statuses
<1>5. CASE /\ Change(c) # Err /\ conn[c].decoded.valid
           /\ AtomicRoute(c, Change(c), Request(c).key \in DOMAIN rec)
  <2>1. \/ \E status \in Statuses : Answer(c, status)
        \/ Fail(c)
        \/ Change(c).erase /\ Goto(c, "erase")
        \/ ~Change(c).erase /\ CanUseRuntimeMutations(Schema, Change(c).funcalls) /\ Goto(c, "change")
        \/ ~Change(c).erase /\ ~CanUseRuntimeMutations(Schema, Change(c).funcalls) /\ Goto(c, "prefetch")
      BY <1>5, Routes
  <2>2. CASE Change(c).erase /\ Goto(c, "erase")
      BY <1>1, <1>5, <2>2, GoesTo
  <2>3. CASE ~Change(c).erase /\ CanUseRuntimeMutations(Schema, Change(c).funcalls) /\ Goto(c, "change")
      BY <1>1, <1>5, <2>3, GoesTo
  <2>4. CASE ~Change(c).erase /\ ~CanUseRuntimeMutations(Schema, Change(c).funcalls) /\ Goto(c, "prefetch")
      BY <1>1, <1>5, <2>4, GoesTo
  <2> QED BY <1>2, <1>3, <2>1, <2>2, <2>3, <2>4
<1> QED BY <1>3, <1>4, <1>5 DEF AtomicDispatch

\* The engine carries out all the mutations it is given, for operands of the attributes'
\* own datatypes as they are carried out on a copy.
LEMMA EngineApplies ==
    ASSUME Shaped, HandlerInv, NEW c \in Clients, conn[c].pc = "change",
           NEW q, q = Change(c), NEW id, NEW r, TypedBy(Schema, id, r)
    PROVE  /\ TypedBy(Schema, id, ApplyMutations(r, Mutations(q)).record)
           /\ ApplyMutations(r, Mutations(q)).ok
           /\ (\A i \in DOMAIN q.funcalls : q.funcalls[i].dt1 = KindOf(Schema, q.funcalls[i].attr))
                 => ApplyMutations(r, Mutations(q)) = ApplyFuncalls(Schema, r, q.funcalls)
<1>1. PICK n \in Nat : Calls(Schema, n, q.funcalls)
    BY Working
<1>2. CanUseRuntimeMutations(Schema, q.funcalls) /\ KeyAttribute \notin DOMAIN Schema
    BY PlanIs DEF HandlerInv, Handler, Shaped
<1>3. DOMAIN q.funcalls = 1..n
    BY <1>1 DEF Calls
<1>4. \A i \in 1..n : InEngine(Schema, q.funcalls[i])
    BY <1>2, <1>3 DEF CanUseRuntimeMutations, InEngine
<1>5. PICK ms : ms = Mutations(q)
    OBVIOUS
<1>6. ms = [i \in 1..n |-> MutationFrom(q.funcalls[i])]
    BY <1>3, <1>5 DEF Mutations
<1>7. PICK fs : fs = q.funcalls
    OBVIOUS
<1>8. PICK schema : schema = Schema
    OBVIOUS
<1>9. /\ TypedBy(schema, id, ApplyMutations(r, ms).record) /\ ApplyMutations(r, ms).ok
      /\ (\A i \in 1..n : fs[i].dt1 = KindOf(schema, fs[i].attr))
                 => ApplyMutations(r, ms) = ApplyFuncalls(schema, r, fs)
    BY <1>1, <1>2, <1>4, <1>6, <1>7, <1>8, MutationsKeep
<1> QED BY <1>3, <1>5, <1>7, <1>8, <1>9

\* A change in the engine.
LEMMA HandlerChange ==
    ASSUME SearchInv, HandlerInv, NEW c \in Clients, AtomicChange(c)
    PROVE  HandlerInv'
<1>0. Shaped /\ conn[c].pc = "change" /\ plan' = plan
    BY DEF SearchInv, AtomicChange
<1>1. Busy(c) /\ Change(c).key \in Keys
    BY <1>0, Working
<1>2. PICK q : q = Change(c)
    OBVIOUS
<1>3. PICK applied : applied = ApplyMutations(Keyed(q.key, EntryOf(q.key)), Mutations(q))
    OBVIOUS
<1>4. TypedBy(Schema, KeyValue(q.key), applied.record) /\ applied.ok
    BY <1>0, <1>1, <1>2, <1>3, KeyedTyped, EngineApplies
<1>5. CASE Passes(q.key, Checks(c))
  <2>1. /\ rec' = With(rec, q.key, applied.record)
        /\ IF applied.ok THEN Answer(c, "success") ELSE Fail(c)
      BY <1>2, <1>3, <1>5 DEF AtomicChange
  <2>2. Records'
      BY <1>0, <1>1, <1>2, <1>4, <2>1, RecordWritten
  <2> QED BY <1>0, <1>1, <1>4, <2>1, <2>2, AnswerStep DEF Statuses
<1>6. CASE ~Passes(q.key, Checks(c))
  <2>1. rec' = rec /\ Answer(c, "compare_failed")
      BY <1>2, <1>6 DEF AtomicChange
  <2> QED BY <1>0, <1>1, <2>1, RecordsStay, AnswerStep DEF Statuses
<1> QED BY <1>5, <1>6

\* A change on a copy of the record.
LEMMA HandlerPrefetch ==
    ASSUME SearchInv, HandlerInv, NEW c \in Clients, AtomicPrefetch(c)
    PROVE  HandlerInv'
<1>0. Shaped /\ conn[c].pc = "prefetch" /\ plan' = plan /\ rec' = rec /\ Handler(c)
    BY DEF SearchInv, AtomicPrefetch, HandlerInv
<1>1. Busy(c) /\ \E n \in Nat : Calls(Schema, n, Change(c).funcalls)
    BY <1>0, Working
<1>2. PICK q : q = Change(c)
    OBVIOUS
<1>3. PICK updated : updated = ApplyFuncalls(Schema, EntryOf(q.key), q.funcalls)
    OBVIOUS
<1>4. CopyOf(q.key, updated.record)
  <2>1. PICK n \in Nat : Calls(Schema, n, q.funcalls)
      BY <1>1, <1>2
  <2>2. PICK id \in {Absent, KeyValue(q.key)} : TypedBy(Schema, id, EntryOf(q.key))
      BY EntryTyped DEF CopyOf
  <2>3. PICK schema, r, fs : schema = Schema /\ r = EntryOf(q.key) /\ fs = q.funcalls
      OBVIOUS
  <2>4. TypedBy(schema, id, ApplyFuncalls(schema, r, fs).record)
      BY <1>0, <2>1, <2>2, <2>3, PlanIs, FuncallsKeep DEF Shaped
  <2> QED BY <1>3, <2>3, <2>4 DEF CopyOf
<1>5. CASE ~updated.ok /\ Answer(c, "bad_dimension_spec")
    BY <1>0, <1>1, <1>5, RecordsStay, AnswerStep DEF Statuses
<1>6. CASE /\ conn' = [conn EXCEPT ![c].pc = "store", ![c].fetched = updated.record]
           /\ log' = log
  <2> DEFINE r == [conn[c] EXCEPT !.pc = "store", !.fetched = updated.record]
  <2>1. DOMAIN conn[c] = Fields
      BY <1>0 DEF Shaped
  <2>2. /\ DOMAIN r = Fields /\ r.pc = "store" /\ r.fetched = updated.record
        /\ r.request = conn[c].request /\ r.sent = conn[c].sent /\ r.decoded = conn[c].decoded
      BY <2>1 DEF Fields
  <2>3. conn' = [conn EXCEPT ![c] = r]
      BY <1>6
  <2> HIDE DEF r
  <2>4. Own(c) /\ conn'[c] = r
      BY <1>0, <2>2, <2>3, Replaced
  <2>5. Schema' = Schema /\ Request(c)' = Request(c) /\ Change(c)' = Change(c)
      BY <1>0, <2>2, <2>4 DEF Schema, Request, Change
  <2>6. CopyOf(Change(c).key, conn[c].fetched)' /\ (\E id : TypedBy(Schema, id, conn[c].fetched))'
      BY <1>2, <1>4, <2>2, <2>4, <2>5 DEF CopyOf
  <2>7. Handler(c)'
      BY <1>0, <1>1, <2>2, <2>4, <2>5, <2>6 DEF Handler, Busy, Phases
  <2>8. Adds(c)
      BY <1>1, <1>6, <2>2, <2>4 DEF Adds
  <2> QED BY <1>0, <2>4, <2>7, <2>8, RecordsStay, HandlerStep
<1> QED BY <1>2, <1>3, <1>5, <1>6 DEF AtomicPrefetch

\* The copy is put back.
LEMMA HandlerStore ==
    ASSUME SearchInv, HandlerInv, NEW c \in Clients, AtomicStore(c)
    PROVE  HandlerInv'
<1>0. Shaped /\ conn[c].pc = "store" /\ plan' = plan /\ Handler(c)
    BY DEF SearchInv, AtomicStore, HandlerInv
<1>1. Busy(c) /\ Change(c).key \in Keys
    BY <1>0, Working
<1>2. PICK q : q = Change(c)
    OBVIOUS
<1>3. CASE Passes(q.key, Checks(c))
  <2>1. /\ rec' = With(rec, q.key, Overwrite(Keyed(q.key, EntryOf(q.key)), conn[c].fetched))
        /\ Answer(c, "success")
      BY <1>2, <1>3 DEF AtomicStore
  <2>2. TypedBy(Schema, KeyValue(q.key), Overwrite(Keyed(q.key, EntryOf(q.key)), conn[c].fetched))
    <3>1. PICK old \in {Absent, KeyValue(q.key)} : TypedBy(Schema, old, conn[c].fetched)
        BY <1>0, <1>2 DEF Handler, CopyOf
    <3>2. TypedBy(Schema, KeyValue(q.key), Keyed(q.key, EntryOf(q.key)))
        BY <1>1, <1>2, KeyedTyped
    <3>3. PICK schema, id, r, s : /\ schema = Schema /\ id = KeyValue(q.key)
                                  /\ r = Keyed(q.key, EntryOf(q.key)) /\ s = conn[c].fetched
        OBVIOUS
    <3> QED BY <3>1, <3>2, <3>3, OverwriteTyped
  <2>3. Records'
      BY <1>0, <1>1, <1>2, <2>1, <2>2, RecordWritten
  <2> QED BY <1>0, <1>1, <2>1, <2>3, AnswerStep DEF Statuses
<1>4. CASE ~Passes(q.key, Checks(c))
  <2>1. rec' = rec /\ Answer(c, "compare_failed")
      BY <1>2, <1>4 DEF AtomicStore
  <2> QED BY <1>0, <1>1, <2>1, RecordsStay, AnswerStep DEF Statuses
<1> QED BY <1>3, <1>4

\* A record is deleted.
LEMMA HandlerErase ==
    ASSUME SearchInv, HandlerInv, NEW c \in Clients, AtomicErase(c)
    PROVE  HandlerInv'
<1>1. /\ plan' = plan /\ Busy(c) /\ rec' = Without(rec, Request(c).key) /\ Answer(c, "success")
    BY DEF AtomicErase, Busy
<1> QED BY <1>1, RecordRemoved, AnswerStep DEF Statuses

\* Requests that change nothing.
LEMMA HandlerInspect ==
    ASSUME SearchInv, HandlerInv, NEW c \in Clients, Inspect(c)
    PROVE  HandlerInv'
<1>1. plan' = plan /\ rec' = rec /\ Busy(c) /\ Records'
    BY RecordsStay DEF Inspect, Busy
<1>2. PICK status : /\ status = AnswerOf(c)
                    /\ \/ status = Err /\ Fail(c)
                       \/ status # Err /\ Answer(c, status)
    BY DEF Inspect
<1>3. AnswerOf(c) \in Statuses \cup {Err}
  <2>1. CASE Request(c).kind = "get" /\ Request(c).key \notin DOMAIN rec
      BY <2>1 DEF AnswerOf, Statuses
  <2>2. CASE Request(c).kind = "get" /\ Request(c).key \in DOMAIN rec
      BY <2>2 DEF AnswerOf, Statuses
  <2>3. CASE Request(c).kind = "count"
      BY <2>3 DEF AnswerOf, Statuses
  <2>4. CASE Request(c).kind = "other"
      BY <2>4 DEF AnswerOf, Statuses
  <2> QED BY <2>1, <2>2, <2>3, <2>4 DEF Inspect
<1> QED BY <1>1, <1>2, <1>3, AnswerStep, EndStep DEF Fail

\* A connection that ends.
LEMMA HandlerEnd ==
    ASSUME SearchInv, HandlerInv, NEW c \in Clients, Disconnect(c) \/ Garbled(c)
    PROVE  HandlerInv'
<1>1. plan' = plan /\ rec' = rec /\ (Goto(c, "closed") \/ Goto(c, "failed"))
    BY DEF Disconnect, Garbled, Fail
<1> QED BY <1>1, RecordsStay, EndStep

\* A search runs.
LEMMA HandlerRun ==
    ASSUME SearchInv, HandlerInv, NEW c \in Clients, SearchRun(c)
    PROVE  HandlerInv'
<1>0. Shaped /\ DOMAIN conn[c] = Fields /\ plan' = plan /\ Busy(c) /\ Records'
    BY RecordsStay DEF SearchInv, Shaped, SearchRun, Busy
<1>1. CASE Fail(c)
    BY <1>0, <1>1, EndStep DEF Fail
<1>2. CASE ~Fail(c)
  <2> DEFINE r == [conn[c] EXCEPT !.pc = "insert", !.found = Copies(Matches(Checks(c)))]
  <2>1. conn' = [conn EXCEPT ![c] = r] /\ log' = log
      BY <1>2 DEF SearchRun
  <2>2. /\ DOMAIN r = Fields /\ r.pc = "insert" /\ r.fetched = conn[c].fetched
        /\ r.request = conn[c].request /\ r.sent = conn[c].sent /\ r.decoded = conn[c].decoded
      BY <1>0 DEF Fields
  <2> HIDE DEF r
  <2>3. Own(c) /\ conn'[c] = r
      BY <1>0, <2>1, <2>2, Replaced
  <2> QED BY <1>0, <2>1, <2>2, <2>3, GoesOn
<1> QED BY <1>1, <1>2

\* The result of a search is filed.
LEMMA HandlerInsert ==
    ASSUME SearchInv, HandlerInv, NEW c \in Clients, SearchInsert(c)
    PROVE  HandlerInv'
<1>0. Shaped /\ DOMAIN conn[c] = Fields /\ plan' = plan /\ Busy(c) /\ Records'
    BY RecordsStay DEF SearchInv, Shaped, SearchInsert, Busy
<1> DEFINE r == [conn[c] EXCEPT !.pc = "respond", !.found = <<>>, !.search = "open",
                                !.under = Request(c).id,
                                !.matched = [i \in DOMAIN conn[c].found |-> conn[c].found[i].key],
                                !.received = <<>>]
<1>1. conn' = [conn EXCEPT ![c] = r] /\ log' = log
    BY DEF SearchInsert
<1>2. /\ DOMAIN r = Fields /\ r.pc = "respond" /\ r.fetched = conn[c].fetched
      /\ r.request = conn[c].request /\ r.sent = conn[c].sent /\ r.decoded = conn[c].decoded
    BY <1>0 DEF Fields
<1> HIDE DEF r
<1>3. Own(c) /\ conn'[c] = r
    BY <1>0, <1>1, <1>2, Replaced
<1> QED BY <1>0, <1>1, <1>2, <1>3, GoesOn

\* What a response to a search, and the end of one, do to the connection.
Responds(c, search, received, status) ==
    /\ conn' = [conn EXCEPT ![c].pc = "idle", ![c].search = search, ![c].received = received]
    /\ log' = log \cup {Entry(c, status)}

\* A search is answered.
LEMMA SearchAnswer ==
    ASSUME SearchInv, HandlerInv, NEW c \in Clients, plan' = plan, rec' = rec, Busy(c),
           NEW search, NEW received, NEW status \in Statuses,
           Responds(c, search, received, status)
    PROVE  HandlerInv'
<1>0. Shaped /\ DOMAIN conn[c] = Fields /\ Records'
    BY RecordsStay DEF SearchInv, Shaped
<1> DEFINE r == [conn[c] EXCEPT !.pc = "idle", !.search = search, !.received = received]
<1>1. conn' = [conn EXCEPT ![c] = r] /\ log' = log \cup {Entry(c, status)}
    BY DEF Responds
<1>2. /\ DOMAIN r = Fields /\ r.pc = "idle" /\ r.fetched = conn[c].fetched
      /\ r.request = conn[c].request /\ r.sent = conn[c].sent /\ r.decoded = conn[c].decoded
    BY <1>0 DEF Fields
<1> HIDE DEF r
<1>3. Own(c) /\ conn'[c] = r
    BY <1>0, <1>1, <1>2, Replaced
<1> QED BY <1>0, <1>1, <1>2, <1>3, GoesOn

\* A response takes a record to the client, or says there is none, or fails.
LEMMA HandlerResponse ==
    ASSUME SearchInv, HandlerInv, NEW c \in Clients, SearchResponse(c)
    PROVE  HandlerInv'
<1> DEFINE id == Request(c).id
           own == id = conn[c].under
<1>0. /\ plan' = plan /\ rec' = rec /\ Busy(c) /\ Records'
      /\ DOMAIN conn = Clients /\ DOMAIN conn[c] = Fields
    BY RecordsStay DEF SearchResponse, Busy, SearchInv, Shaped
<1>1. CASE Fail(c)
    BY <1>0, <1>1, EndStep DEF Fail
<1>2. CASE /\ conn' = [conn EXCEPT ![c].pc = "idle",
                                   ![c].search = IF own /\ @ = "open" THEN "done" ELSE @]
           /\ log' = log \cup {Entry(c, "done")}
  <2>1. PICK search : search = IF own /\ conn[c].search = "open" THEN "done" ELSE conn[c].search
      OBVIOUS
  <2>2. conn' = [conn EXCEPT ![c].pc = "idle", ![c].search = search]
      BY <1>2, <2>1
  <2>3. PICK received : received = conn[c].received
      OBVIOUS
  <2>4. PICK status \in Statuses : status = "done"
      BY DEF Statuses
  <2>5. Responds(c, search, received, status)
      BY <1>0, <1>2, <2>2, <2>3, <2>4 DEF Fields, Responds
  <2> QED BY <1>0, <1>2, <2>4, <2>5, SearchAnswer
<1>3. CASE /\ conn' = [conn EXCEPT ![c].pc = "idle",
                                   ![c].received = IF own THEN Append(@, Head(Left(id)).key) ELSE @]
           /\ log' = log \cup {Entry(c, "item")}
  <2>1. PICK received : received = IF own THEN Append(conn[c].received, Head(Left(id)).key)
                                   ELSE conn[c].received
      OBVIOUS
  <2>2. conn' = [conn EXCEPT ![c].pc = "idle", ![c].received = received]
      BY <1>3, <2>1
  <2>3. PICK search : search = conn[c].search
      OBVIOUS
  <2>4. PICK status \in Statuses : status = "item"
      BY DEF Statuses
  <2>5. Responds(c, search, received, status)
      BY <1>0, <1>3, <2>2, <2>3, <2>4 DEF Fields, Responds
  <2> QED BY <1>0, <1>3, <2>4, <2>5, SearchAnswer
<1> QED BY <1>1, <1>2, <1>3 DEF SearchResponse

\* A search is stopped.
LEMMA HandlerStop ==
    ASSUME SearchInv, HandlerInv, NEW c \in Clients, SearchStop(c)
    PROVE  HandlerInv'
<1>0. /\ plan' = plan /\ rec' = rec /\ Busy(c)
      /\ DOMAIN conn = Clients /\ DOMAIN conn[c] = Fields
    BY DEF SearchStop, Busy, SearchInv, Shaped
<1>1. PICK search : search = IF Request(c).id = conn[c].under THEN "none" ELSE conn[c].search
    OBVIOUS
<1>2. conn' = [conn EXCEPT ![c].pc = "idle", ![c].search = search]
      /\ log' = log \cup {Entry(c, "done")}
    BY <1>1 DEF SearchStop
<1>3. PICK received : received = conn[c].received
    OBVIOUS
<1>4. PICK status \in Statuses : status = "done"
    BY DEF Statuses
<1>5. Responds(c, search, received, status)
    BY <1>0, <1>2, <1>3, <1>4 DEF Fields, Responds
<1> QED BY <1>0, <1>2, <1>4, <1>5, SearchAnswer

\* At the start nothing is handled, and the records are the plan's.
LEMMA HandlerInit == Init => HandlerInv
<1> SUFFICES ASSUME Init PROVE HandlerInv
    OBVIOUS
<1>1. plan \in DOMAIN Plans /\ log = {} /\ rec = Initial
    BY DEF Init, Initial
<1>2. Records
    BY <1>1, PlanIs DEF Records
<1>3. Answers
    BY <1>1, FS_EmptySet DEF Answers
<1>4. ASSUME NEW c \in Clients PROVE Handler(c)
  <2>1. /\ conn[c].pc = "idle" /\ conn[c].request = 0 /\ conn[c].sent = 0
        /\ conn[c].fetched = NoAttributes
      BY DEF Init
  <2>2. Plans[plan].limit[c] \in Nat
      BY <1>1, PlanIs
  <2> QED BY <2>1, <2>2, NothingTyped DEF Handler, Busy, Phases
<1> QED BY <1>2, <1>3, <1>4 DEF HandlerInv

\* Every step keeps the invariant.
LEMMA HandlerSteps == SearchInv /\ HandlerInv /\ [Next]_vars => HandlerInv'
<1> SUFFICES ASSUME SearchInv, HandlerInv, [Next]_vars PROVE HandlerInv'
    OBVIOUS
<1>1. CASE UNCHANGED vars
  <2>1. /\ plan' = plan /\ rec' = rec /\ conn' = conn /\ log' = log
      BY <1>1 DEF vars
  <2>2. Schema' = Schema /\ \A c \in Clients : Request(c)' = Request(c) /\ Change(c)' = Change(c)
      BY <2>1 DEF Schema, Request, Change
  <2>3. ASSUME NEW c \in Clients PROVE Handler(c)'
    <3>1. CopyOf(Change(c).key, conn[c].fetched)' <=> CopyOf(Change(c).key, conn[c].fetched)
        BY <2>1, <2>2 DEF CopyOf
    <3> QED BY <2>1, <2>2, <3>1 DEF HandlerInv, Handler, Busy
  <2>4. Answers'
      BY <2>1 DEF HandlerInv, Answers, Busy
  <2> QED BY <2>1, <2>3, <2>4, RecordsStay DEF HandlerInv
<1>2. CASE Next
  <2>1. PICK c \in Clients :
           \/ \E q \in Plans[plan].menu[c] : Receive(c, q)
           \/ Disconnect(c) \/ Garbled(c)
           \/ AtomicDispatch(c) \/ AtomicChange(c) \/ AtomicPrefetch(c)
           \/ AtomicStore(c) \/ AtomicErase(c)
           \/ SearchRun(c) \/ SearchInsert(c) \/ SearchResponse(c) \/ SearchStop(c)
           \/ Inspect(c)
      BY <1>2 DEF Next
  <2>2. CASE Disconnect(c) \/ Garbled(c)
      BY <2>2, HandlerEnd
  <2>3. CASE \E q \in Plans[plan].menu[c] : Receive(c, q)
      BY <2>3, HandlerReceive
  <2>4. CASE AtomicDispatch(c) \/ AtomicErase(c) \/ Inspect(c)
      BY <2>4, HandlerDispatch, HandlerErase, HandlerInspect
  <2>5. CASE AtomicChange(c) \/ AtomicPrefetch(c) \/ AtomicStore(c)
      BY <2>5, HandlerChange, HandlerPrefetch, HandlerStore
  <2>6. CASE SearchRun(c) \/ SearchInsert(c) \/ SearchResponse(c) \/ SearchStop(c)
      BY <2>6, HandlerRun, HandlerInsert, HandlerResponse, HandlerStop
  <2> QED BY <2>1, <2>2, <2>3, <2>4, <2>5, <2>6
<1> QED BY <1>1, <1>2

\* Both invariants are of every behaviour.
LEMMA Invariant == Spec => [](SearchInv /\ HandlerInv)
<1>1. Init => SearchInv /\ HandlerInv
    BY SearchInit, HandlerInit
<1>2. SearchInv /\ HandlerInv /\ [Next]_vars => SearchInv' /\ HandlerInv'
    BY SearchStep, HandlerSteps DEF HandlerInv, Records
<1>3. QED
    BY <1>1, <1>2, PTL DEF Spec

\* SearchDeliversEach: a client that is told its search is done has received every
\* record that matched when the search ran, once and in order, whatever it asked of its
\* other searches and whatever other clients did meanwhile, when no two clients use one
\* search id (legacy_searches is one table for all of them).
THEOREM SearchesDeliver == Spec => []SearchDeliversEach
<1>1. SearchInv => SearchDeliversEach
    BY DEF SearchInv, Apart, Delivers, SearchDeliversEach
<1>2. QED
    BY <1>1, Invariant, PTL

\* PathsAgree: the two ways of an atomic request agree, when legacy_atomic_can_use_
\* runtime_mutations sends it to the engine: what the engine makes of the record with the
\* mutations is what legacy_apply_atomic_direct would make of it with the function calls,
\* for operands of the attribute's own datatype.
THEOREM BothWaysAgree == Spec => []PathsAgree
<1>1. ASSUME SearchInv, HandlerInv PROVE PathsAgree
    BY <1>1, Working, KeyedTyped, EngineApplies DEF SearchInv, PathsAgree
<1>2. QED
    BY <1>1, Invariant, PTL

\* StoredValuesRoundTrip: whatever function calls were served, on the engine's way or on a
\* copy of the record and in either form, every attribute of every record is encoded for
\* its kind (legacy_protocol_value_from_kind), and the encoding is read back
\* (legacy_value_from_kind_bytes) as the value that is stored, when legacy_hyperdatatype
\* has a code for the kind.
THEOREM ValuesReadBack == Spec => []StoredValuesRoundTrip
<1>1. ASSUME HandlerInv PROVE StoredValuesRoundTrip
  <2>1. SUFFICES ASSUME NEW k \in DOMAIN rec, NEW a \in DOMAIN rec[k] \ {KeyAttribute},
                        HasDatatype(Schema[a])
                 PROVE  LET bytes == ProtocolValue(Schema[a], rec[k][a])
                        IN  bytes # Err /\ ValueFromKindBytes(Schema[a], bytes) = rec[k][a]
      BY DEF StoredValuesRoundTrip
  <2>2. IsValue(Schema[a], rec[k][a])
      BY <1>1, <2>1 DEF HandlerInv, Records, TypedBy, Stores
  <2> QED BY <2>1, <2>2, ValueRoundTrip
<1>2. QED
    BY <1>1, Invariant, PTL

\* KeySearchFindsRecord: a search for the bytes of a key finds the record of that key, if
\* there is one, and no other: materialize_key_mutation gives every record its key, when
\* the engine makes or changes it and when legacy_apply_atomic_direct puts a copy back,
\* and no call that is validated writes it.
THEOREM KeySearchFinds == Spec => []KeySearchFindsRecord
<1>1. ASSUME HandlerInv PROVE KeySearchFindsRecord
  <2>1. SUFFICES ASSUME NEW k \in Keys, NEW v, v = KeyValue(k), NEW j \in DOMAIN rec, NEW checks,
                        checks = <<[attr |-> KeyAttribute, predicate |-> "eq", value |-> v]>>
                 PROVE  RecordMatches(rec[j], checks) <=> j = k
      BY DEF KeySearchFindsRecord, Matches
  <2>2. j \in Keys /\ KeyAttribute \in DOMAIN rec[j] /\ rec[j][KeyAttribute] = KeyValue(j)
      BY <1>1, KeyIsThere DEF HandlerInv, Records, TypedBy, HasKey
  <2>3. /\ DOMAIN checks = {1} /\ checks[1].attr = KeyAttribute
        /\ checks[1].predicate = "eq" /\ checks[1].value = v
      BY <2>1
  <2>4. RecordMatches(rec[j], checks) <=> KeyValue(j) = v
    <3>1. Satisfies(KeyValue(j), "eq", v) <=> KeyValue(j) = v
        BY DEF Satisfies
    <3> QED BY <2>2, <2>3, <3>1 DEF RecordMatches
  <2> QED BY <2>1, <2>2, <2>4, KeyIsThere
<1>2. QED
    BY <1>1, Invariant, PTL

-------------------------------------------------------------------------------
(* What searches find.                                                        *)

\* Copies of records of the schema with their keys, and keys.
Items(schema, s) ==
    \A i \in 1..Len(s) : s[i].key \in Keys /\ TypedBy(schema, KeyValue(s[i].key), s[i].record)
KeysOnly(s) == \A i \in 1..Len(s) : s[i] \in Keys

\* Every cursor, and every result that is not filed yet, holds copies of records; every
\* client knows keys.
Found(c) ==
    /\ Items(Schema, conn[c].found)
    /\ KeysOnly(conn[c].matched) /\ KeysOnly(conn[c].received)
FoundInv ==
    /\ \A id : Items(Schema, Left(id))
    /\ \A c \in Clients : Found(c)

\* Every key that matched is in its place.
LEMMA InOrderIn ==
    ASSUME NEW S, IsFiniteSet(S), S \subseteq Nat, NEW i \in 1..Cardinality(S)
    PROVE  InOrder(S)[i] \in S
<1> DEFINE Q == {p \in S \X S : p[1] < p[2]}
<1>1. Cardinality(S) \in Nat /\ i - 1 \in Nat /\ i - 1 < Cardinality(S)
    BY FS_CardinalityType
<1>2. Order(S, Q)
  <2>1. \A x, y \in S : <<x, y>> \in Q <=> x < y
      OBVIOUS
  <2>2. \A x \in S : <<x, x>> \notin Q
      BY <2>1
  <2>3. ASSUME NEW x \in S, NEW y \in S, NEW z \in S, <<x, y>> \in Q, <<y, z>> \in Q
        PROVE  <<x, z>> \in Q
      BY <2>1, <2>3
  <2>4. ASSUME NEW x \in S, NEW y \in S PROVE x = y \/ <<x, y>> \in Q \/ <<y, x>> \in Q
    <3>1. x \in Nat /\ y \in Nat
        OBVIOUS
    <3>2. x = y \/ x < y \/ y < x
        BY <3>1
    <3> QED BY <2>1, <3>2
  <2>5. \A x, y, z : <<x, y>> \in Q /\ <<y, z>> \in Q => x \in S /\ y \in S /\ z \in S
      OBVIOUS
  <2> HIDE DEF Q
  <2> QED BY <2>2, <2>3, <2>4, <2>5 DEF Order
<1>3. ASSUME NEW k \in S PROVE Below(S, Q, k) = {j \in S : j < k}
    BY DEF Below
<1> HIDE DEF Q
<1>4. HasRank(S, Q, i - 1)
    BY <1>1, <1>2, RankOnto
<1>5. PICK k \in S : Cardinality({j \in S : j < k}) = i - 1
    BY <1>3, <1>4 DEF HasRank
<1>6. InOrder(S)[i] = CHOOSE m \in S : Cardinality({j \in S : j < m}) = i - 1
    BY DEF InOrder
<1> QED BY <1>5, <1>6

\* Copies of what matches.
LEMMA CopiesItems ==
    ASSUME HandlerInv, NEW checks, NEW f, f = Copies(Matches(checks))
    PROVE  Items(Schema, f)
<1> DEFINE S == Matches(checks)
<1>1. S \subseteq DOMAIN rec /\ S \subseteq Keys
    BY DEF Matches, HandlerInv, Records
<1>2. IsFiniteSet(S) /\ S \subseteq Nat
    BY <1>1, KeysAssumption, FS_Subset
<1>3. Cardinality(S) \in Nat
    BY <1>2, FS_CardinalityType
<1>4. \A k \in DOMAIN rec : TypedBy(Schema, KeyValue(k), rec[k])
    BY DEF HandlerInv, Records
<1> HIDE DEF S
<1>5. f = [i \in 1..Cardinality(S) |-> [key |-> InOrder(S)[i], record |-> rec[InOrder(S)[i]]]]
    BY DEF Copies, S
<1>6. Len(f) = Cardinality(S)
  <2>1. f = [i \in 1..Cardinality(S) |-> f[i]]
      BY <1>5
  <2> QED BY <1>3, <2>1, FunctionSequence
<1>7. ASSUME NEW i \in 1..Cardinality(S)
      PROVE  f[i].key \in Keys /\ TypedBy(Schema, KeyValue(f[i].key), f[i].record)
  <2>1. PICK k : k = InOrder(S)[i]
      OBVIOUS
  <2>2. k \in S
      BY <1>2, <2>1, InOrderIn
  <2>3. f[i].key = k /\ f[i].record = rec[k]
      BY <1>5, <2>1
  <2> QED BY <1>1, <1>4, <2>2, <2>3
<1> QED BY <1>6, <1>7 DEF Items

\* A step of c keeps the invariant when the cursors and c are as they should be.
LEMMA FoundStep ==
    ASSUME FoundInv, NEW c \in Clients, Own(c), \A id : Items(Schema, Left(id)'),
           Items(Schema, conn'[c].found), KeysOnly(conn'[c].matched), KeysOnly(conn'[c].received)
    PROVE  FoundInv'
<1>1. Schema' = Schema
    BY DEF Own, Schema
<1>2. ASSUME NEW d \in Clients PROVE Found(d)'
  <2>1. CASE d = c
      BY <1>1, <2>1 DEF Found
  <2>2. CASE d # c
    <3>1. conn'[d] = conn[d] /\ Found(d)
        BY <2>2 DEF Own, FoundInv
    <3> QED BY <1>1, <3>1 DEF Found
  <2> QED BY <2>1, <2>2
<1>3. \A id : Items(Schema, Left(id))'
    BY <1>1
<1> QED BY <1>2, <1>3 DEF FoundInv

\* Sequences without elements, and what is left of one or added to it.
LEMMA ItemsOf ==
    /\ \A schema : Items(schema, <<>>)
    /\ KeysOnly(<<>>)
<1>1. Len(<<>>) = 0 /\ 1..0 = {}
    BY NoSequence
<1> QED BY <1>1 DEF Items, KeysOnly

\* What is left of the copies.
LEMMA ItemsTail ==
    ASSUME NEW schema, NEW s, Sequence(s), s # <<>>, Items(schema, s)
    PROVE  Items(schema, Tail(s)) /\ Head(s).key \in Keys
<1>1. /\ Len(s) \in Nat /\ Len(s) > 0 /\ Len(Tail(s)) = Len(s) - 1 /\ Head(s) = s[1]
      /\ \A i \in 1..Len(s) - 1 : Tail(s)[i] = s[i + 1]
    BY TailSequence
<1>2. \A i \in 1..Len(s) - 1 : i + 1 \in 1..Len(s)
    BY <1>1
<1>3. 1 \in 1..Len(s)
    BY <1>1
<1> QED BY <1>1, <1>2, <1>3 DEF Items

\* One more key is received.
LEMMA KeysAppend ==
    ASSUME NEW s, Sequence(s), KeysOnly(s), NEW k \in Keys
    PROVE  KeysOnly(Append(s, k))
<1>1. /\ Len(s) \in Nat /\ Len(Append(s, k)) = Len(s) + 1
      /\ \A i \in 1..Len(s) : Append(s, k)[i] = s[i]
      /\ Append(s, k)[Len(s) + 1] = k
    BY AppendSequence
<1>2. \A i \in 1..Len(s) + 1 : i \in 1..Len(s) \/ i = Len(s) + 1
    BY <1>1
<1> QED BY <1>1, <1>2 DEF KeysOnly

\* A step that is not about searches, or a search that runs.
LEMMA FoundQuiet ==
    ASSUME FoundInv, NEW c \in Clients, Quiet(c), Items(Schema, conn'[c].found)
    PROVE  FoundInv'
<1>1. \A id : Items(Schema, Left(id)')
    BY DEF Quiet, Left, FoundInv
<1>2. Found(c)
    BY DEF FoundInv
<1> QED BY <1>1, <1>2, FoundStep DEF Quiet, Found

\* A frame arrives.
LEMMA FoundReceive ==
    ASSUME SearchInv, FoundInv, NEW c \in Clients, NEW q \in Plans[plan].menu[c], Receive(c, q)
    PROVE  FoundInv'
<1>0. Shaped /\ DOMAIN conn[c] = Fields /\ Found(c)
    BY DEF SearchInv, Shaped, FoundInv
<1> DEFINE r == [conn[c] EXCEPT !.request = q, !.sent = @ + 1, !.pc = "handle",
                                !.decoded = Decoded(Schema, RequestOf[q])]
<1>1. conn' = [conn EXCEPT ![c] = r] /\ plan' = plan /\ cursors' = cursors
    BY DEF Receive
<1>2. DOMAIN r = Fields /\ r.found = conn[c].found
    BY <1>0 DEF Fields
<1>3. /\ r.search = conn[c].search /\ r.under = conn[c].under
      /\ r.matched = conn[c].matched /\ r.received = conn[c].received
    BY <1>0 DEF Fields
<1> HIDE DEF r
<1>4. Own(c) /\ conn'[c] = r
    BY <1>0, <1>1, <1>2, Replaced
<1> QED BY <1>0, <1>1, <1>2, <1>3, <1>4, FoundQuiet DEF Quiet, Found

\* A search runs.
LEMMA FoundRun ==
    ASSUME SearchInv, HandlerInv, FoundInv, NEW c \in Clients, SearchRun(c)
    PROVE  FoundInv'
<1>0. /\ Shaped /\ DOMAIN conn[c] = Fields /\ Found(c)
      /\ plan' = plan /\ cursors' = cursors
    BY DEF SearchInv, Shaped, SearchRun, FoundInv
<1>1. CASE Fail(c)
  <2>1. Quiet(c) /\ conn'[c].found = conn[c].found
      BY <1>0, <1>1, GotoEffect DEF Fail
  <2> QED BY <1>0, <2>1, FoundQuiet DEF Found
<1>2. CASE ~Fail(c)
  <2>1. PICK f : f = Copies(Matches(Checks(c)))
      OBVIOUS
  <2> DEFINE r == [conn[c] EXCEPT !.pc = "insert", !.found = f]
  <2>2. conn' = [conn EXCEPT ![c] = r]
      BY <1>2, <2>1 DEF SearchRun
  <2>3. DOMAIN r = Fields /\ r.found = f
      BY <1>0 DEF Fields
  <2>4. /\ r.search = conn[c].search /\ r.under = conn[c].under
        /\ r.matched = conn[c].matched /\ r.received = conn[c].received
      BY <1>0 DEF Fields
  <2> HIDE DEF r
  <2>5. Own(c) /\ conn'[c] = r
      BY <1>0, <2>2, <2>3, Replaced
  <2>6. Items(Schema, f)
      BY <2>1, CopiesItems
  <2> QED BY <1>0, <2>3, <2>4, <2>5, <2>6, FoundQuiet DEF Quiet
<1> QED BY <1>1, <1>2

\* The result is filed.
LEMMA FoundInsert ==
    ASSUME SearchInv, FoundInv, NEW c \in Clients, SearchInsert(c)
    PROVE  FoundInv'
<1>1. PICK id, found, keys : /\ id = Request(c).id /\ found = conn[c].found
                             /\ keys = [i \in DOMAIN found |-> found[i].key]
    OBVIOUS
<1> DEFINE r == [conn[c] EXCEPT !.pc = "respond", !.found = <<>>, !.search = "open",
                                !.under = id, !.matched = keys, !.received = <<>>]
<1>2. /\ Shaped /\ DOMAIN conn[c] = Fields /\ CursorsShaped /\ plan' = plan
      /\ Items(Schema, found) /\ Sequence(found)
    BY <1>1 DEF SearchInv, Shaped, SearchInsert, CursorsShaped, FoundInv, Found, Handles
<1>3. /\ conn' = [conn EXCEPT ![c] = r]
      /\ cursors' = With(cursors, id, [records |-> found, format |-> Request(c).format])
    BY <1>1 DEF SearchInsert
<1>4. DOMAIN r = Fields /\ r.found = <<>> /\ r.matched = keys /\ r.received = <<>>
    BY <1>2 DEF Fields
<1> HIDE DEF r
<1>5. Own(c) /\ conn'[c] = r
    BY <1>2, <1>3, <1>4, Replaced
<1>6. Only(id) /\ Left(id)' = found
    BY <1>2, <1>3, Filed
<1>7. \A j : Items(Schema, Left(j)')
    BY <1>2, <1>6 DEF Only, FoundInv
<1>8. KeysOnly(keys)
  <2>1. Len(found) \in Nat /\ DOMAIN found = 1..Len(found)
      BY <1>2, AnySequence DEF Sequence
  <2>2. keys = [i \in 1..Len(found) |-> keys[i]] /\ \A i \in 1..Len(found) : keys[i] = found[i].key
      BY <1>1, <2>1
  <2>3. Len(keys) = Len(found)
      BY <2>1, <2>2, FunctionSequence
  <2> QED BY <1>2, <2>2, <2>3 DEF KeysOnly, Items
<1> QED BY <1>4, <1>5, <1>7, <1>8, ItemsOf, FoundStep

\* A search is stopped.
LEMMA FoundStop ==
    ASSUME SearchInv, FoundInv, NEW c \in Clients, SearchStop(c)
    PROVE  FoundInv'
<1>1. PICK id : id = Request(c).id
    OBVIOUS
<1> DEFINE r == [conn[c] EXCEPT !.pc = "idle",
                                !.search = IF id = conn[c].under THEN "none" ELSE @]
<1>2. Shaped /\ DOMAIN conn[c] = Fields /\ CursorsShaped /\ plan' = plan /\ Found(c)
    BY DEF SearchInv, Shaped, SearchStop, CursorsShaped, FoundInv
<1>3. conn' = [conn EXCEPT ![c] = r] /\ cursors' = Without(cursors, id)
    BY <1>1 DEF SearchStop
<1>4. /\ DOMAIN r = Fields /\ r.found = conn[c].found
      /\ r.matched = conn[c].matched /\ r.received = conn[c].received
    BY <1>2 DEF Fields
<1> HIDE DEF r
<1>5. Own(c) /\ conn'[c] = r
    BY <1>2, <1>3, <1>4, Replaced
<1>6. Only(id) /\ Left(id)' = <<>>
    BY <1>2, <1>3, Removed
<1>7. \A j : Items(Schema, Left(j)')
    BY <1>6, ItemsOf DEF Only, FoundInv
<1> QED BY <1>2, <1>4, <1>5, <1>7, FoundStep DEF Found

\* A response is sent.
LEMMA FoundResponse ==
    ASSUME SearchInv, FoundInv, NEW c \in Clients, SearchResponse(c)
    PROVE  FoundInv'
<1>1. PICK id, item : id = Request(c).id /\ item = Head(Left(id))
    OBVIOUS
<1> DEFINE own == id = conn[c].under
<1>2. /\ Shaped /\ DOMAIN conn[c] = Fields /\ CursorsShaped /\ plan' = plan /\ Found(c)
      /\ Sequence(conn[c].received) /\ Items(Schema, Left(id))
    BY DEF SearchInv, Shaped, SearchResponse, CursorsShaped, FoundInv, Handles
<1>3. Sequence(Left(id))
    BY <1>2, NoSequence DEF CursorsShaped, Left
<1>4. CASE /\ Left(id) = <<>> /\ cursors' = Without(cursors, id)
           /\ conn' = [conn EXCEPT ![c].pc = "idle",
                                   ![c].search = IF own /\ @ = "open" THEN "done" ELSE @]
  <2> DEFINE r == [conn[c] EXCEPT !.pc = "idle",
                                  !.search = IF own /\ @ = "open" THEN "done" ELSE @]
  <2>1. conn' = [conn EXCEPT ![c] = r] /\ cursors' = Without(cursors, id)
      BY <1>4
  <2>2. /\ DOMAIN r = Fields /\ r.found = conn[c].found
        /\ r.matched = conn[c].matched /\ r.received = conn[c].received
      BY <1>2 DEF Fields
  <2> HIDE DEF r
  <2>3. Own(c) /\ conn'[c] = r
      BY <1>2, <2>1, <2>2, Replaced
  <2>4. Only(id) /\ Left(id)' = <<>>
      BY <1>2, <2>1, Removed
  <2>5. \A j : Items(Schema, Left(j)')
      BY <2>4, ItemsOf DEF Only, FoundInv
  <2> QED BY <1>2, <2>2, <2>3, <2>5, FoundStep DEF Found
<1>5. CASE /\ Left(id) # <<>> /\ cursors' = AfterPop(id)
           /\ conn' = [conn EXCEPT ![c].pc = "idle",
                                   ![c].received = IF own THEN Append(@, item.key) ELSE @]
  <2> DEFINE r == [conn[c] EXCEPT !.pc = "idle",
                                  !.received = IF own THEN Append(@, item.key) ELSE @]
  <2>1. conn' = [conn EXCEPT ![c] = r] /\ Left(id) # <<>> /\ cursors' = AfterPop(id)
      BY <1>5
  <2>2. /\ DOMAIN r = Fields /\ r.found = conn[c].found /\ r.matched = conn[c].matched
        /\ r.received = IF own THEN Append(conn[c].received, item.key) ELSE conn[c].received
      BY <1>2 DEF Fields
  <2> HIDE DEF r
  <2>3. Own(c) /\ conn'[c] = r
      BY <1>2, <2>1, <2>2, Replaced
  <2>4. Only(id) /\ Left(id)' = Tail(Left(id))
      BY <1>2, <2>1, Sent
  <2>5. Items(Schema, Tail(Left(id))) /\ item.key \in Keys
      BY <1>1, <1>2, <1>3, <2>1, ItemsTail
  <2>6. \A j : Items(Schema, Left(j)')
      BY <2>4, <2>5 DEF Only, FoundInv
  <2>7. KeysOnly(conn[c].received) /\ KeysOnly(conn[c].matched) /\ Items(Schema, conn[c].found)
      BY <1>2 DEF Found
  <2>8. KeysOnly(Append(conn[c].received, item.key))
    <3>1. PICK s, k : s = conn[c].received /\ k = item.key
        OBVIOUS
    <3> QED BY <1>2, <2>5, <2>7, <3>1, KeysAppend
  <2>9. KeysOnly(conn'[c].received)
      BY <2>2, <2>3, <2>7, <2>8
  <2> QED BY <2>2, <2>3, <2>6, <2>7, <2>9, FoundStep
<1>6. CASE Left(id) # <<>> /\ cursors' = Popped(id) /\ Fail(c)
  <2>1. /\ Own(c) /\ conn'[c].found = conn[c].found
        /\ conn'[c].matched = conn[c].matched /\ conn'[c].received = conn[c].received
      BY <1>2, <1>6, GotoFields DEF Fail, Keeps
  <2>2. Only(id) /\ Left(id)' = Tail(Left(id))
      BY <1>2, <1>6, Taken
  <2>3. Items(Schema, Tail(Left(id)))
      BY <1>2, <1>3, <1>6, ItemsTail
  <2>4. \A j : Items(Schema, Left(j)')
      BY <2>2, <2>3 DEF Only, FoundInv
  <2> QED BY <1>2, <2>1, <2>4, FoundStep DEF Found
<1> QED BY <1>1, <1>4, <1>5, <1>6 DEF SearchResponse

\* Nothing was found at the start.
LEMMA FoundInit == Init => FoundInv
<1> SUFFICES ASSUME Init PROVE FoundInv
    OBVIOUS
<1>1. \A id : Left(id) = <<>>
    BY DEF Init, Left, NoAttributes
<1>2. \A c \in Clients : /\ conn[c].found = <<>> /\ conn[c].matched = <<>>
                         /\ conn[c].received = <<>>
    BY DEF Init
<1> QED BY <1>1, <1>2, ItemsOf DEF FoundInv, Found

\* Every step keeps the invariant.
LEMMA FoundSteps == SearchInv /\ HandlerInv /\ FoundInv /\ [Next]_vars => FoundInv'
<1> SUFFICES ASSUME SearchInv, HandlerInv, FoundInv, [Next]_vars PROVE FoundInv'
    OBVIOUS
<1>1. CASE UNCHANGED vars
  <2>1. plan' = plan /\ conn' = conn /\ cursors' = cursors
      BY <1>1 DEF vars
  <2> QED BY <2>1 DEF FoundInv, Found, Left, Schema
<1>2. CASE Next
  <2>1. PICK c \in Clients :
           \/ \E q \in Plans[plan].menu[c] : Receive(c, q)
           \/ Disconnect(c) \/ Garbled(c)
           \/ AtomicDispatch(c) \/ AtomicChange(c) \/ AtomicPrefetch(c)
           \/ AtomicStore(c) \/ AtomicErase(c)
           \/ SearchRun(c) \/ SearchInsert(c) \/ SearchResponse(c) \/ SearchStop(c)
           \/ Inspect(c)
      BY <1>2 DEF Next
  <2>2. CASE \/ Disconnect(c) \/ Garbled(c) \/ AtomicDispatch(c) \/ AtomicChange(c)
             \/ AtomicPrefetch(c) \/ AtomicStore(c) \/ AtomicErase(c) \/ Inspect(c)
    <3>1. Quiet(c) /\ conn'[c].found = conn[c].found
        BY <2>2, PlainEffect
    <3> QED BY <3>1, FoundQuiet DEF FoundInv, Found
  <2>3. CASE \E q \in Plans[plan].menu[c] : Receive(c, q)
      BY <2>3, FoundReceive
  <2>4. CASE SearchRun(c) \/ SearchInsert(c) \/ SearchResponse(c) \/ SearchStop(c)
      BY <2>4, FoundRun, FoundInsert, FoundResponse, FoundStop
  <2> QED BY <2>1, <2>2, <2>3, <2>4
<1> QED BY <1>1, <1>2

\* A sequence of keys.
LEMMA KeysSequence ==
    ASSUME NEW s, Sequence(s), KeysOnly(s)
    PROVE  s \in Seq(Keys)
<1>1. Len(s) \in Nat /\ DOMAIN s = 1..Len(s) /\ s = [i \in 1..Len(s) |-> s[i]]
    BY DEF Sequence
<1> QED BY <1>1 DEF KeysOnly

\* TypeOK: the type invariant of the connections, the records, the table of cursors and
\* the answers (handle_legacy_request and what it keeps).
THEOREM TypeCorrect == Spec => []TypeOK
<1>1. ASSUME SearchInv, HandlerInv, FoundInv PROVE TypeOK
  <2>1. plan \in DOMAIN Plans /\ DOMAIN rec \subseteq Keys
        /\ \A k \in DOMAIN rec : AttributesOf(rec[k])
      BY <1>1 DEF SearchInv, Shaped, HandlerInv, Records, TypedBy, AttributesOf
  <2>2. ASSUME NEW id \in DOMAIN cursors, NEW i \in DOMAIN cursors[id].records
        PROVE  AttributesOf(cursors[id].records[i].record)
    <3>1. Sequence(cursors[id].records) /\ Items(Schema, cursors[id].records)
        BY <1>1 DEF SearchInv, Shaped, FoundInv, Left
    <3>2. PICK s : s = cursors[id].records
        OBVIOUS
    <3>3. DOMAIN s = 1..Len(s)
        BY <3>1, <3>2, AnySequence DEF Sequence
    <3> QED BY <3>1, <3>2, <3>3 DEF Items, TypedBy, AttributesOf
  <2>3. ASSUME NEW c \in Clients
        PROVE  /\ conn[c].pc \in Phases /\ conn[c].sent \in 0..Plans[plan].limit[c]
               /\ conn[c].request \in Plans[plan].menu[c] \cup {0}
               /\ AttributesOf(conn[c].fetched)
               /\ conn[c].matched \in Seq(Keys) /\ conn[c].received \in Seq(Keys)
    <3>1. Handler(c) /\ Found(c) /\ Handles(c)
        BY <1>1 DEF HandlerInv, FoundInv, SearchInv
    <3>2. conn[c].matched \in Seq(Keys) /\ conn[c].received \in Seq(Keys)
        BY <3>1, KeysSequence DEF Found, Handles
    <3> QED BY <3>1, <3>2 DEF Handler, TypedBy, AttributesOf
  <2>4. \A e \in log : e.status \in Statuses /\ e.request \in Plans[plan].menu[e.client]
      BY <1>1 DEF HandlerInv, Answers
  <2> QED BY <2>1, <2>2, <2>3, <2>4 DEF TypeOK
<1>2. SearchInv /\ HandlerInv /\ FoundInv /\ [Next]_vars => FoundInv'
    BY FoundSteps
<1>3. QED
    BY <1>1, <1>2, Invariant, FoundInit, PTL DEF Spec

-------------------------------------------------------------------------------
(* What fails a connection.                                                   *)

\* A default value is one of its kind.
LEMMA DefaultIs ==
    ASSUME NEW kind, HasDatatype(kind), NEW v, v = DefaultValue(kind), v # Err
    PROVE  IsValue(kind, v)
<1>1. CASE kind \in Text
  <2>1. <<>> \in Texts
      BY EmptySeq DEF Texts
  <2>2. v = <<"bytes", <<>>>>
      BY <1>1, KindTags DEF DefaultValue, Bytes, IsMap
  <2>3. v \in {"bytes"} \X Texts
      BY <2>1, <2>2
  <2> QED BY <1>1, <2>3 DEF IsValue, IsElement
<1>2. CASE kind = KInt
    BY <1>2, KindTags DEF DefaultValue, IsValue, IsElement, Number
<1>3. CASE kind = KFloat
    BY <1>3, KindTags DEF DefaultValue, IsValue, IsElement
<1>4. CASE kind = KTimestamp
    BY <1>4, KindTags DEF DefaultValue, IsMap
<1>5. CASE kind[1] \in {"list", "set", "map"}
  <2>0. kind \notin Text /\ kind # KInt /\ kind # KFloat
      BY <1>5, KindTags
  <2>1. CASE kind[1] = "list"
    <3>1. v = <<"list", <<>>>>
        BY <2>0, <2>1 DEF DefaultValue, IsMap
    <3>2. v[2] = <<>> /\ v = <<"list", v[2]>>
        BY <3>1
    <3>3. Len(<<>>) = 0 /\ <<>> = [i \in 1..Len(<<>>) |-> <<>>[i]] /\ DOMAIN <<>> = {}
        BY NoSequence, AnySequence DEF Sequence
    <3>4. IsListOf(kind[2], <<>>)
        BY <3>3 DEF IsListOf, IsList
    <3> QED BY <2>1, <3>2, <3>4 DEF IsValue
  <2>2. CASE kind[1] = "set"
    <3>1. v = <<"set", {}>>
        BY <2>0, <2>2 DEF DefaultValue, IsMap
    <3>2. v[2] = {} /\ v = <<"set", v[2]>>
        BY <3>1
    <3> QED BY <2>2, <3>2, FS_EmptySet DEF IsValue, IsSetOf
  <2>3. CASE kind[1] = "map"
    <3>1. v = <<"map", NoAttributes>>
        BY <2>0, <2>3 DEF DefaultValue, IsMap
    <3>2. v[2] = NoAttributes /\ v = <<"map", v[2]>>
        BY <3>1
    <3>3. IsMapOf(kind[2], kind[3], NoAttributes)
        BY FS_EmptySet DEF IsMapOf, IsSetOf, NoAttributes
    <3> QED BY <2>3, <3>2, <3>3 DEF IsValue, IsMap
  <2> QED BY <1>5, <2>1, <2>2, <2>3
<1> QED BY <1>1, <1>2, <1>3, <1>4, <1>5, KindCases DEF Plain

\* A record of a supported schema can be sent in the protocol's form.
LEMMA Sendable ==
    ASSUME NEW schema, \A x \in DOMAIN schema : HasDatatype(schema[x]) /\ DefaultValue(schema[x]) # Err,
           KeyAttribute \notin DOMAIN schema, NEW id, NEW r, TypedBy(schema, id, r)
    PROVE  CanSend("protocol", schema, r)
<1>1. ASSUME NEW x \in DOMAIN schema
      PROVE  RecordValue(schema, r, x) # Err /\ ProtocolValue(schema[x], RecordValue(schema, r, x)) # Err
  <2>1. PICK kind, v : kind = schema[x] /\ v = RecordValue(schema, r, x)
      OBVIOUS
  <2>2. HasDatatype(kind) /\ DefaultValue(kind) # Err
      BY <2>1
  <2>3. v # Err /\ IsValue(kind, v)
    <3>1. CASE x \in DOMAIN r
        BY <2>1, <2>2, <3>1 DEF RecordValue, TypedBy, Stores
    <3>2. CASE x \notin DOMAIN r
        BY <2>1, <2>2, <3>2, DefaultIs DEF RecordValue
    <3> QED BY <3>1, <3>2
  <2> QED BY <2>1, <2>2, <2>3, ValueRoundTrip
<1> QED BY <1>1 DEF CanSend

\* Every cursor is to be sent in the protocol's form.
Forms == \A id \in DOMAIN cursors : cursors[id].format = "protocol"

\* A connection that failed has sent what is not served.
Excused(c) == conn[c].pc = "failed" => Unserved(c)

FailInv == Supported /\ InProtocolForm => Forms /\ \A c \in Clients : Excused(c)

\* A step of one connection keeps the invariant when that connection is excused and the
\* cursors keep their form.
LEMMA FailStep ==
    ASSUME FailInv, NEW c \in Clients, plan' = plan,
           Supported /\ InProtocolForm /\ Forms => Own(c) /\ Forms' /\ Excused(c)'
    PROVE  FailInv'
<1>1. (Supported' <=> Supported) /\ (InProtocolForm' <=> InProtocolForm)
    BY DEF Supported, InProtocolForm, Schema
<1>2. ASSUME Own(c), NEW d \in Clients, d # c, Excused(d) PROVE Excused(d)'
  <2>1. conn'[d] = conn[d]
      BY <1>2 DEF Own
  <2> QED BY <1>2, <2>1 DEF Excused, Unserved, Request, Checks
<1> QED BY <1>1, <1>2 DEF FailInv

\* The form of the requests of a handler.
LEMMA ProtocolForm ==
    ASSUME InProtocolForm, NEW c \in Clients, conn[c].request \in Plans[plan].menu[c],
           Request(c).kind \in {"atomic", "start", "get", "count"}
    PROVE  Request(c).format = "protocol"
BY DEF InProtocolForm, Request

\* An answer excuses; so does every step that goes on.
LEMMA AnswerExcused ==
    ASSUME Shaped, NEW c \in Clients, NEW status, Answer(c, status), plan' = plan
    PROVE  Excused(c)'
<1>1. conn'[c].pc = "idle"
    BY AnswerFields
<1> QED BY <1>1 DEF Excused

\* A connection that fails for what it has sent.
LEMMA FailExcused ==
    ASSUME Shaped, NEW c \in Clients, Goto(c, "failed"), plan' = plan, Unserved(c)
    PROVE  Excused(c)'
<1>1. conn'[c].request = conn[c].request /\ conn'[c].decoded = conn[c].decoded
    BY GotoFields DEF Keeps
<1> QED BY <1>1 DEF Excused, Unserved, Request, Checks

\* A connection that goes on.
LEMMA GotoExcused ==
    ASSUME Shaped, NEW c \in Clients, NEW pc, pc # "failed", Goto(c, pc), plan' = plan
    PROVE  Excused(c)'
<1>1. conn'[c].pc = pc
    BY GotoFields
<1> QED BY <1>1 DEF Excused

\* The request a handler is at: one of the daemon's, with its form.
LEMMA AtRequest ==
    ASSUME SearchInv, HandlerInv, NEW c \in Clients, Busy(c)
    PROVE  Request(c) \in Range(RequestOf) /\ conn[c].request \in Plans[plan].menu[c]
<1>1. conn[c].request \in Plans[plan].menu[c] /\ plan \in DOMAIN Plans
    BY DEF HandlerInv, Handler, SearchInv, Shaped
<1>2. conn[c].request \in DOMAIN RequestOf
    BY <1>1, PlanIs
<1> QED BY <1>1, <1>2 DEF Request, Range

\* An atomic request fails its connection only by an erase under a check.
LEMMA DispatchExcused ==
    ASSUME SearchInv, HandlerInv, InProtocolForm, NEW c \in Clients, AtomicDispatch(c)
    PROVE  Excused(c)'
<1>1. /\ Shaped /\ plan' = plan /\ Busy(c) /\ Request(c).kind = "atomic"
      /\ \/ Change(c) = Err /\ Fail(c)
         \/ Answer(c, "bad_dimension_spec")
         \/ /\ Change(c) # Err
            /\ AtomicRoute(c, Change(c), Request(c).key \in DOMAIN rec)
    BY DEF SearchInv, AtomicDispatch, Busy
<1>2. Request(c) # Err /\ Request(c).format = "protocol"
    BY <1>1, AtRequest, ProtocolForm, RequestsAssumption
<1>3. Change(c) = Request(c)
  <2>1. conn[c].decoded = Decoded(Schema, Request(c))
      BY <1>1 DEF HandlerInv, Handler
  <2>2. Change(c) = KeyChange(Schema, Request(c))
      BY <1>1, <2>1, AtomicDecoded DEF Change
  <2> QED BY <1>2, <2>2 DEF KeyChange
<1>4. CASE Answer(c, "bad_dimension_spec")
    BY <1>1, <1>4, AnswerExcused
<1>5. CASE AtomicRoute(c, Change(c), Request(c).key \in DOMAIN rec)
  <2>1. PICK q, exists : q = Change(c) /\ exists = (Request(c).key \in DOMAIN rec)
      OBVIOUS
  <2>2. \/ \E status \in Statuses : Answer(c, status)
        \/ q.erase /\ q.checks # <<>> /\ Fail(c)
        \/ Goto(c, "erase") \/ Goto(c, "change") \/ Goto(c, "prefetch")
      BY <1>5, <2>1, Routes
  <2>3. CASE \E status \in Statuses : Answer(c, status)
      BY <1>1, <2>3, AnswerExcused
  <2>4. CASE q.erase /\ q.checks # <<>> /\ Fail(c)
      BY <1>1, <1>3, <2>1, <2>4, FailExcused DEF Fail, Unserved
  <2>5. CASE Goto(c, "erase") \/ Goto(c, "change") \/ Goto(c, "prefetch")
      BY <1>1, <2>5, GotoExcused
  <2> QED BY <2>2, <2>3, <2>4, <2>5
<1> QED BY <1>1, <1>2, <1>3, <1>4, <1>5

\* The engine carries out all the mutations of a request that was validated.
LEMMA ChangeExcused ==
    ASSUME SearchInv, HandlerInv, NEW c \in Clients, AtomicChange(c)
    PROVE  Excused(c)'
<1>0. Shaped /\ conn[c].pc = "change" /\ plan' = plan
    BY DEF SearchInv, AtomicChange
<1>1. PICK q : q = Change(c)
    OBVIOUS
<1>2. PICK applied : applied = ApplyMutations(Keyed(q.key, EntryOf(q.key)), Mutations(q))
    OBVIOUS
<1>3. applied.ok
    BY <1>0, <1>1, <1>2, Working, KeyedTyped, EngineApplies
<1>4. Answer(c, "success") \/ Answer(c, "compare_failed")
    BY <1>1, <1>2, <1>3 DEF AtomicChange
<1> QED BY <1>0, <1>4, AnswerExcused

\* A change on a copy is computed, or refused; the copy and an erase are answered.
LEMMA CopyExcused ==
    ASSUME SearchInv, NEW c \in Clients, AtomicPrefetch(c) \/ AtomicStore(c) \/ AtomicErase(c)
    PROVE  Excused(c)'
<1>0. Shaped /\ plan' = plan /\ DOMAIN conn = Clients /\ DOMAIN conn[c] = Fields
    BY DEF SearchInv, Shaped, AtomicPrefetch, AtomicStore, AtomicErase
<1>1. CASE \E status : Answer(c, status)
    BY <1>0, <1>1, AnswerExcused
<1>2. CASE \E r : conn' = [conn EXCEPT ![c].pc = "store", ![c].fetched = r]
  <2>1. conn'[c].pc = "store"
      BY <1>0, <1>2 DEF Fields
  <2> QED BY <2>1 DEF Excused
<1> QED BY <1>1, <1>2 DEF AtomicPrefetch, AtomicStore, AtomicErase

\* A record that is stored can be sent, and a count fails for its checks.
LEMMA InspectExcused ==
    ASSUME SearchInv, HandlerInv, Supported, InProtocolForm, NEW c \in Clients, Inspect(c)
    PROVE  Excused(c)'
<1>0. /\ Shaped /\ plan' = plan /\ Busy(c) /\ Request(c).kind \in {"get", "count", "other"}
    BY DEF SearchInv, Inspect, Busy
<1>1. PICK status : /\ status = AnswerOf(c)
                    /\ \/ status = Err /\ Fail(c)
                       \/ status # Err /\ Answer(c, status)
    BY DEF Inspect
<1>2. CASE Answer(c, status)
    BY <1>0, <1>2, AnswerExcused
<1>3. CASE status = Err /\ Fail(c)
  <2>1. AnswerOf(c) \notin Statuses
      BY <1>1, <1>3, StatusesAssumption
  <2>2. Request(c).kind = "count" /\ Checks(c) = Err
    <3>1. CASE Request(c).kind = "get" /\ Request(c).key \notin DOMAIN rec
        BY <2>1, <3>1 DEF AnswerOf, Statuses
    <3>2. CASE Request(c).kind = "get" /\ Request(c).key \in DOMAIN rec
      <4>1. Request(c).format = "protocol"
          BY <1>0, <3>2, AtRequest, ProtocolForm
      <4>2. TypedBy(Schema, KeyValue(Request(c).key), rec[Request(c).key])
          BY <3>2 DEF HandlerInv, Records
      <4>3. CanSend("protocol", Schema, rec[Request(c).key])
        <5>1. PICK schema, r : schema = Schema /\ r = rec[Request(c).key]
            OBVIOUS
        <5> QED BY <1>0, <4>2, <5>1, PlanIs, Sendable DEF Supported, Shaped
      <4> QED BY <2>1, <3>2, <4>1, <4>3 DEF AnswerOf, Statuses
    <3>3. CASE Request(c).kind = "count"
        BY <2>1, <3>3 DEF AnswerOf, Statuses
    <3>4. CASE Request(c).kind = "other"
        BY <2>1, <3>4 DEF AnswerOf, Statuses
    <3> QED BY <1>0, <3>1, <3>2, <3>3, <3>4
  <2> QED BY <1>0, <1>3, <2>2, FailExcused DEF Fail, Unserved
<1> QED BY <1>1, <1>2, <1>3

\* A search that is filed is to be sent in the form of its request.
LEMMA InsertFails ==
    ASSUME SearchInv, HandlerInv, InProtocolForm, Forms, NEW c \in Clients, SearchInsert(c)
    PROVE  Own(c) /\ Forms' /\ Excused(c)'
<1>0. /\ Shaped /\ DOMAIN conn[c] = Fields /\ plan' = plan /\ Busy(c) /\ Request(c).kind = "start"
    BY DEF SearchInv, Shaped, Handles, SearchInsert, Busy
<1>1. Request(c).format = "protocol"
    BY <1>0, AtRequest, ProtocolForm
<1> DEFINE r == [conn[c] EXCEPT !.pc = "respond", !.found = <<>>, !.search = "open",
                                !.under = Request(c).id,
                                !.matched = [i \in DOMAIN conn[c].found |-> conn[c].found[i].key],
                                !.received = <<>>]
           v == [records |-> conn[c].found, format |-> Request(c).format]
<1>2. conn' = [conn EXCEPT ![c] = r] /\ cursors' = With(cursors, Request(c).id, v)
    BY DEF SearchInsert
<1>3. DOMAIN r = Fields /\ r.pc = "respond" /\ v.format = "protocol"
    BY <1>0, <1>1 DEF Fields
<1> HIDE DEF r, v
<1>4. Own(c) /\ conn'[c] = r
    BY <1>0, <1>2, <1>3, Replaced
<1>5. Forms'
    BY <1>2, <1>3 DEF Forms, With
<1> QED BY <1>3, <1>4, <1>5 DEF Excused

\* A search runs, or fails for its checks.
LEMMA RunFails ==
    ASSUME SearchInv, HandlerInv, NEW c \in Clients, SearchRun(c)
    PROVE  Own(c) /\ Excused(c)'
<1>0. Shaped /\ DOMAIN conn[c] = Fields /\ plan' = plan /\ Request(c).kind = "start"
    BY DEF SearchInv, Shaped, SearchRun
<1>1. CASE Checks(c) = Err /\ Fail(c)
    BY <1>0, <1>1, GotoFields, FailExcused DEF Fail, Unserved
<1>2. CASE conn' = [conn EXCEPT ![c].pc = "insert", ![c].found = Copies(Matches(Checks(c)))]
  <2> DEFINE r == [conn[c] EXCEPT !.pc = "insert", !.found = Copies(Matches(Checks(c)))]
  <2>1. conn' = [conn EXCEPT ![c] = r]
      BY <1>2
  <2>2. DOMAIN r = Fields /\ r.pc = "insert"
      BY <1>0 DEF Fields
  <2> HIDE DEF r
  <2>3. Own(c) /\ conn'[c] = r
      BY <1>0, <2>1, <2>2, Replaced
  <2> QED BY <2>2, <2>3 DEF Excused
<1> QED BY <1>1, <1>2 DEF SearchRun

\* A cursor that is removed or popped leaves the others their form.
LEMMA FormsStay ==
    ASSUME Shaped, Forms, NEW id,
           \/ cursors' = Without(cursors, id)
           \/ id \in DOMAIN cursors /\ cursors' = Popped(id)
    PROVE  Forms'
<1>1. CASE cursors' = Without(cursors, id)
    BY <1>1 DEF Forms, Without
<1>2. CASE id \in DOMAIN cursors /\ cursors' = Popped(id)
  <2> DEFINE v == [cursors[id] EXCEPT !.records = Tail(@)]
  <2>1. v.format = cursors[id].format
      BY <1>2 DEF Shaped
  <2>2. cursors' = [cursors EXCEPT ![id] = v]
      BY <1>2 DEF Popped
  <2> HIDE DEF v
  <2> QED BY <1>2, <2>1, <2>2 DEF Forms
<1> QED BY <1>1, <1>2

\* What a connection does when it answers a search.
LEMMA RespondsExcused ==
    ASSUME Shaped, NEW c \in Clients, NEW search, NEW received, plan' = plan,
           conn' = [conn EXCEPT ![c].pc = "idle", ![c].search = search, ![c].received = received]
    PROVE  Own(c) /\ Excused(c)'
<1> DEFINE r == [conn[c] EXCEPT !.pc = "idle", !.search = search, !.received = received]
<1>1. conn' = [conn EXCEPT ![c] = r] /\ DOMAIN r = Fields /\ r.pc = "idle"
    BY DEF Shaped, Fields
<1> HIDE DEF r
<1>2. Own(c) /\ conn'[c] = r
    BY <1>1, Replaced
<1> QED BY <1>1, <1>2 DEF Excused

\* A record that a search found can be sent.
LEMMA ResponseFails ==
    ASSUME SearchInv, FoundInv, Supported, Forms, NEW c \in Clients, SearchResponse(c)
    PROVE  Own(c) /\ Forms' /\ Excused(c)'
<1>1. PICK id, item : id = Request(c).id /\ item = Head(Left(id))
    OBVIOUS
<1> DEFINE own == id = conn[c].under
<1>2. Shaped /\ DOMAIN conn[c] = Fields /\ plan' = plan
    BY DEF SearchInv, Shaped, SearchResponse
<1>3. CASE /\ cursors' = Without(cursors, id)
           /\ conn' = [conn EXCEPT ![c].pc = "idle",
                                   ![c].search = IF own /\ @ = "open" THEN "done" ELSE @]
  <2>1. PICK search, received :
           /\ search = IF own /\ conn[c].search = "open" THEN "done" ELSE conn[c].search
           /\ received = conn[c].received
      OBVIOUS
  <2>2. conn' = [conn EXCEPT ![c].pc = "idle", ![c].search = search, ![c].received = received]
      BY <1>2, <1>3, <2>1 DEF Fields
  <2> QED BY <1>2, <1>3, <2>2, FormsStay, RespondsExcused
<1>4. CASE /\ Left(id) # <<>> /\ cursors' = AfterPop(id)
           /\ conn' = [conn EXCEPT ![c].pc = "idle",
                                   ![c].received = IF own THEN Append(@, item.key) ELSE @]
  <2>1. PICK search, received :
           /\ search = conn[c].search
           /\ received = IF own THEN Append(conn[c].received, item.key) ELSE conn[c].received
      OBVIOUS
  <2>2. conn' = [conn EXCEPT ![c].pc = "idle", ![c].search = search, ![c].received = received]
      BY <1>2, <1>4, <2>1 DEF Fields
  <2>3. id \in DOMAIN cursors /\ (cursors' = Without(cursors, id) \/ cursors' = Popped(id))
      BY <1>4 DEF AfterPop, Left
  <2> QED BY <1>2, <2>2, <2>3, FormsStay, RespondsExcused
<1>5. CASE Left(id) # <<>> /\ ~CanSend(cursors[id].format, Schema, item.record)
  <2>1. id \in DOMAIN cursors /\ Left(id) = cursors[id].records /\ cursors[id].format = "protocol"
      BY <1>5 DEF Left, Forms
  <2>2. Sequence(Left(id)) /\ Items(Schema, Left(id))
      BY <1>2, <2>1 DEF Shaped, FoundInv
  <2>3. TypedBy(Schema, KeyValue(item.key), item.record)
    <3>1. PICK s : s = Left(id)
        OBVIOUS
    <3>2. Len(s) \in Nat /\ Len(s) > 0 /\ item = s[1]
        BY <1>1, <1>5, <2>2, <3>1, TailSequence
    <3> QED BY <2>2, <3>1, <3>2 DEF Items
  <2>4. CanSend("protocol", Schema, item.record)
    <3>1. PICK schema, r : schema = Schema /\ r = item.record
        OBVIOUS
    <3> QED BY <1>2, <2>3, <3>1, PlanIs, Sendable DEF Supported, Shaped
  <2> QED BY <1>5, <2>1, <2>4
<1> QED BY <1>1, <1>3, <1>4, <1>5 DEF SearchResponse

\* A search is stopped.
LEMMA StopFails ==
    ASSUME SearchInv, Forms, NEW c \in Clients, SearchStop(c)
    PROVE  Own(c) /\ Forms' /\ Excused(c)'
<1>1. PICK id, search, received :
         /\ id = Request(c).id /\ received = conn[c].received
         /\ search = IF id = conn[c].under THEN "none" ELSE conn[c].search
    OBVIOUS
<1>2. Shaped /\ DOMAIN conn[c] = Fields /\ plan' = plan
    BY DEF SearchInv, Shaped, SearchStop
<1>3. /\ cursors' = Without(cursors, id)
      /\ conn' = [conn EXCEPT ![c].pc = "idle", ![c].search = search]
    BY <1>1 DEF SearchStop
<1>4. conn' = [conn EXCEPT ![c].pc = "idle", ![c].search = search, ![c].received = received]
    BY <1>1, <1>2, <1>3 DEF Fields
<1> QED BY <1>2, <1>3, <1>4, FormsStay, RespondsExcused

\* A frame arrives on a connection that has not failed.
LEMMA ReceiveFails ==
    ASSUME SearchInv, NEW c \in Clients, NEW q, Receive(c, q)
    PROVE  Own(c) /\ Excused(c)' /\ cursors' = cursors
<1> DEFINE r == [conn[c] EXCEPT !.request = q, !.sent = @ + 1, !.pc = "handle",
                                !.decoded = Decoded(Schema, RequestOf[q])]
<1>0. Shaped /\ DOMAIN conn[c] = Fields /\ plan' = plan /\ cursors' = cursors
    BY DEF SearchInv, Shaped, Receive
<1>1. conn' = [conn EXCEPT ![c] = r]
    BY DEF Receive
<1>2. DOMAIN r = Fields /\ r.pc = "handle"
    BY <1>0 DEF Fields
<1> HIDE DEF r
<1>3. Own(c) /\ conn'[c] = r
    BY <1>0, <1>1, <1>2, Replaced
<1> QED BY <1>0, <1>2, <1>3 DEF Excused

\* Requests that have nothing to do with searches.
LEMMA PlainFails ==
    ASSUME SearchInv, HandlerInv, Supported, InProtocolForm, NEW c \in Clients,
           \/ Disconnect(c) \/ Garbled(c) \/ AtomicDispatch(c) \/ AtomicChange(c)
           \/ AtomicPrefetch(c) \/ AtomicStore(c) \/ AtomicErase(c) \/ Inspect(c)
    PROVE  Excused(c)'
<1>1. CASE Disconnect(c)
    BY <1>1, GotoExcused DEF Disconnect, SearchInv
<1>2. CASE Garbled(c)
    BY <1>2, FailExcused DEF Garbled, Fail, Unserved, SearchInv
<1> QED BY <1>1, <1>2, DispatchExcused, ChangeExcused, CopyExcused, InspectExcused

\* Nothing failed at the start.
LEMMA FailInit == Init => FailInv
BY DEF Init, NoAttributes, FailInv, Forms, Excused

\* Every step keeps the invariant.
LEMMA FailSteps ==
    SearchInv /\ HandlerInv /\ FoundInv /\ FailInv /\ [Next]_vars => FailInv'
<1> SUFFICES ASSUME SearchInv, HandlerInv, FoundInv, FailInv, [Next]_vars PROVE FailInv'
    OBVIOUS
<1>1. CASE UNCHANGED vars
  <2>1. plan' = plan /\ conn' = conn /\ cursors' = cursors
      BY <1>1 DEF vars
  <2>2. (Supported' <=> Supported) /\ (InProtocolForm' <=> InProtocolForm)
      BY <2>1 DEF Supported, InProtocolForm, Schema
  <2>3. \A c \in Clients : Excused(c) => Excused(c)'
      BY <2>1 DEF Excused, Unserved, Request, Checks
  <2> QED BY <2>1, <2>2, <2>3 DEF FailInv, Forms
<1>2. CASE Next
  <2>1. PICK c \in Clients :
           \/ \E q \in Plans[plan].menu[c] : Receive(c, q)
           \/ Disconnect(c) \/ Garbled(c)
           \/ AtomicDispatch(c) \/ AtomicChange(c) \/ AtomicPrefetch(c)
           \/ AtomicStore(c) \/ AtomicErase(c)
           \/ SearchRun(c) \/ SearchInsert(c) \/ SearchResponse(c) \/ SearchStop(c)
           \/ Inspect(c)
      BY <1>2 DEF Next
  <2>2. CASE \/ Disconnect(c) \/ Garbled(c) \/ AtomicDispatch(c) \/ AtomicChange(c)
             \/ AtomicPrefetch(c) \/ AtomicStore(c) \/ AtomicErase(c) \/ Inspect(c)
    <3>1. Own(c) /\ cursors' = cursors
        BY <2>2, PlainEffect DEF Quiet
    <3>2. Supported /\ InProtocolForm => Excused(c)'
        BY <2>2, PlainFails
    <3> QED BY <3>1, <3>2, FailStep DEF Forms, Own
  <2>3. CASE \E q \in Plans[plan].menu[c] : Receive(c, q)
      BY <2>3, ReceiveFails, FailStep DEF Forms, Own
  <2>4. CASE SearchRun(c)
    <3>1. Own(c) /\ Excused(c)' /\ cursors' = cursors
        BY <2>4, RunFails DEF SearchRun
    <3> QED BY <3>1, FailStep DEF Forms, Own
  <2>5. CASE SearchInsert(c) \/ SearchResponse(c) \/ SearchStop(c)
    <3>1. plan' = plan
        BY <2>5 DEF SearchInsert, SearchResponse, SearchStop
    <3>2. Supported /\ InProtocolForm /\ Forms => Own(c) /\ Forms' /\ Excused(c)'
        BY <2>5, InsertFails, ResponseFails, StopFails
    <3> QED BY <3>1, <3>2, FailStep
  <2> QED BY <2>1, <2>2, <2>3, <2>4, <2>5
<1> QED BY <1>1, <1>2

\* OnlyUnservedRequestsFail: in a space whose kinds all have a datatype and a default,
\* while the clients speak the protocol's form, a request ends its connection only when its
\* body or its checks do not decode, or when it erases under a check: the engine carries
\* out every mutation of a request that was validated, and no record is stored that a get
\* or legacy_search_response cannot send.
THEOREM SupportedRequestsServed == Spec => []OnlyUnservedRequestsFail
<1>1. FailInv => OnlyUnservedRequestsFail
    BY DEF FailInv, Excused, OnlyUnservedRequestsFail
<1>2. SearchInv /\ HandlerInv /\ FoundInv /\ [Next]_vars => FoundInv'
    BY FoundSteps
<1>3. SearchInv /\ HandlerInv /\ FoundInv /\ FailInv /\ [Next]_vars => FailInv'
    BY FailSteps
<1>4. QED
    BY <1>1, <1>2, <1>3, Invariant, FoundInit, FailInit, PTL DEF Spec

-------------------------------------------------------------------------------
(* Changes of the integer n.                                                  *)

\* The integer n of a record, zero when it has none.
NumberOf(r) == IF "n" \in DOMAIN r THEN r["n"][2] ELSE 0

\* A schema with the integer n, and a valid request in protocol form.
HasN(schema) == KeyAttribute \notin DOMAIN schema /\ "n" \in DOMAIN schema /\ schema["n"] = KInt
ValidOnN(schema, q) ==
    q \in Range(RequestOf) /\ q.kind = "atomic" /\ OnN(q) /\ ValidAtomic(schema, q)

\* The call of a request on n.
LEMMA CallOnN ==
    ASSUME NEW schema, HasN(schema), NEW q, ValidOnN(schema, q), NEW f, f = q.funcalls[1]
    PROVE  /\ DOMAIN q.funcalls = 1..1 /\ Served(schema, f) /\ f.attr = "n" /\ f.dt1 = KInt
           /\ KindOf(schema, f.attr) = KInt /\ schema[f.attr] = KInt
           /\ f.name \in {"set"} \cup NumNames =>
                 /\ f.arg2 = <<>> /\ HasWord(f.arg1) /\ Operand(q) \in Int
                 /\ Operand(q) = AsI64(f.arg1[1])
           /\ f.name = "set" => ValueFromProtocol(f.dt1, f.arg1) = Number(Operand(q))
<1>1. /\ q.format = "protocol" /\ Len(q.funcalls) = 1 /\ f.attr = "n" /\ f.dt1 = KInt
      /\ Operand(q) = AsI64(f.arg1[1])
    BY DEF ValidOnN, OnN, Operand
<1>2. IsList(q.funcalls) /\ \A i \in DOMAIN q.funcalls : IsCall(q.format, q.funcalls[i])
    BY RequestsAssumption DEF ValidOnN
<1>3. DOMAIN q.funcalls = 1..1
    BY <1>1, <1>2 DEF IsList
<1>4. 1 \in DOMAIN q.funcalls
    BY <1>3
<1>5. ValidFuncall(schema, f)
    BY <1>4 DEF ValidOnN, ValidAtomic
<1>6. KindOf(schema, f.attr) = KInt /\ schema[f.attr] = KInt
    BY <1>1 DEF HasN, KindOf
<1>7. Carries(f) /\ NumberIn(f.arg1)
  <2>1. IsCall("protocol", f)
      BY <1>1, <1>2, <1>4
  <2> QED BY <2>1, BytesCarried DEF IsCall, Carries, Carried
<1>8. CASE f.name = "set"
  <2>1. Fits(KInt, f.dt1, f.arg1) /\ NoArg2(f)
      BY <1>5, <1>6, <1>8, IntCall DEF NumNames, MergeNames
  <2>2. /\ HasWord(f.arg1) /\ AsI64(f.arg1[1]) \in Int
        /\ ValueFromProtocol(f.dt1, f.arg1) = <<"int", AsI64(f.arg1[1])>>
      BY <1>7, <2>1, IntArgument
  <2> QED BY <1>1, <1>3, <1>5, <1>6, <1>7, <2>1, <2>2 DEF Served, NoArg2, Number
<1>9. CASE f.name \in NumNames
  <2>1. HasWord(f.arg1) /\ NoArg2(f) /\ f.name # "set"
      BY <1>5, <1>6, <1>9, IntCall DEF NumNames, MergeNames
  <2>2. AsI64(f.arg1[1]) \in Int
      BY <1>7, <2>1, IntWord
  <2> QED BY <1>1, <1>3, <1>5, <1>6, <1>7, <2>1, <2>2 DEF Served, NoArg2
<1>10. CASE f.name \notin {"set"} \cup NumNames
    BY <1>1, <1>3, <1>5, <1>6, <1>7, <1>10 DEF Served
<1> QED BY <1>8, <1>9, <1>10

\* The integer a numeric call on n starts from.
LEMMA OldOfN ==
    ASSUME NEW schema, HasN(schema), NEW id, NEW r, TypedBy(schema, id, r)
    PROVE  /\ PayloadOf("int", Existing(r, "n"), 0) = NumberOf(r) /\ NumberOf(r) \in Int
           /\ "n" \in DOMAIN r => r["n"] = Number(NumberOf(r))
<1>1. /\ PayloadOf("int", Existing(r, "n"), 0) \in Int
      /\ PayloadOf("int", Existing(r, "n"), 0) = IF "n" \in DOMAIN r THEN r["n"][2] ELSE 0
    BY OldNumber DEF HasN
<1>2. "n" \in DOMAIN r => r["n"] \in {"int"} \X Int
    BY IntStored DEF HasN, TypedBy
<1> QED BY <1>1, <1>2 DEF NumberOf, Number

\* An addition, and a set, are carried out by the engine; a division is not.
LEMMA OneOnN ==
    ASSUME NEW schema, HasN(schema), NEW q, ValidOnN(schema, q),
           NEW id, NEW r, TypedBy(schema, id, r)
    PROVE  /\ q.funcalls[1].name = "num_add" =>
                 /\ CanUseRuntimeMutations(schema, q.funcalls)
                 /\ ApplyMutations(r, Mutations(q)).record
                       = With(r, "n", Number(Saturate(NumberOf(r) + Operand(q))))
           /\ q.funcalls[1].name = "set" =>
                 /\ CanUseRuntimeMutations(schema, q.funcalls)
                 /\ ApplyMutations(r, Mutations(q)).record = With(r, "n", Number(Operand(q)))
           /\ q.funcalls[1].name = "num_div" /\ Operand(q) # 0 =>
                 /\ ~CanUseRuntimeMutations(schema, q.funcalls)
                 /\ ApplyFuncalls(schema, r, q.funcalls).record
                       = With(r, "n", Number(Quotient(NumberOf(r), Operand(q))))
<1>1. PICK f : f = q.funcalls[1]
    OBVIOUS
<1>2. PICK fs : fs = q.funcalls
    OBVIOUS
<1>3. /\ DOMAIN fs = 1..1 /\ Served(schema, f) /\ f.attr = "n" /\ f.dt1 = KInt
      /\ KindOf(schema, f.attr) = KInt /\ schema[f.attr] = KInt
      /\ f.name \in {"set"} \cup NumNames =>
            /\ f.arg2 = <<>> /\ HasWord(f.arg1) /\ Operand(q) \in Int
            /\ Operand(q) = AsI64(f.arg1[1])
      /\ f.name = "set" => ValueFromProtocol(f.dt1, f.arg1) = Number(Operand(q))
    BY <1>1, <1>2, CallOnN
<1>4. \A i : i \in 1..1 <=> i = 1
    OBVIOUS
<1>5. PICK ms : ms = Mutations(q)
    OBVIOUS
<1>6. DOMAIN ms = 1..1 /\ ms[1] = MutationFrom(f)
    BY <1>1, <1>2, <1>3, <1>4, <1>5 DEF Mutations
<1>7. ApplyMutations(r, ms) = ApplyMutation(Going(r), MutationFrom(f))
    BY <1>6, OneMutation
<1>8. KeyAttribute \notin DOMAIN schema
    BY DEF HasN
<1>9. ASSUME InEngine(schema, f)
      PROVE  /\ CanUseRuntimeMutations(schema, fs)
             /\ ApplyMutations(r, ms).record = With(r, "n", EngineValue(r, f))
  <2>1. ApplyMutation(Going(r), MutationFrom(f)) = Going(With(r, f.attr, EngineValue(r, f)))
      BY <1>3, <1>8, <1>9, MutationKeeps
  <2>2. Going(With(r, f.attr, EngineValue(r, f))).record = With(r, f.attr, EngineValue(r, f))
      BY StateFields
  <2>3. CanUseRuntimeMutations(schema, fs)
      BY <1>1, <1>2, <1>3, <1>4, <1>9 DEF CanUseRuntimeMutations, InEngine
  <2> QED BY <1>3, <1>7, <2>1, <2>2, <2>3
<1>10. CASE f.name = "num_add"
  <2>1. InEngine(schema, f) /\ f.name \in NumNames /\ f.name # "set"
      BY <1>3, <1>10 DEF InEngine, EngineNames, NumNames
  <2>2. EngineValue(r, f) = Number(EngineNumeric("num_add", NumberOf(r), Operand(q)))
      BY <1>3, <1>10, <2>1, OldOfN DEF EngineValue
  <2>3. EngineNumeric("num_add", NumberOf(r), Operand(q)) = Saturate(NumberOf(r) + Operand(q))
      BY DEF EngineNumeric
  <2> QED BY <1>1, <1>2, <1>5, <1>9, <1>10, <2>1, <2>2, <2>3
<1>11. CASE f.name = "set"
  <2>1. InEngine(schema, f)
      BY <1>3, <1>11 DEF InEngine
  <2>2. EngineValue(r, f) = Number(Operand(q))
      BY <1>3, <1>11 DEF EngineValue
  <2> QED BY <1>1, <1>2, <1>5, <1>9, <1>11, <2>1, <2>2
<1>12. CASE f.name = "num_div" /\ Operand(q) # 0
  <2>1. /\ f.name \in NumNames /\ f.name \notin EngineNames /\ f.name # "set"
        /\ f.name \notin StringNames
      BY <1>12 DEF NumNames, EngineNames, StringNames
  <2>0. Quotient(NumberOf(r), Operand(q)) \in Int
    <3>1. PICK a, b : a = NumberOf(r) /\ b = Operand(q)
        OBVIOUS
    <3>2. a \in Int /\ b \in Int /\ b # 0
        BY <1>3, <1>12, <2>1, <3>1, OldOfN
    <3> QED BY <3>1, <3>2, QuotientType
  <2>2. ~CanUseRuntimeMutations(schema, fs)
      BY <1>1, <1>2, <1>3, <1>4, <2>1 DEF CanUseRuntimeMutations
  <2>3. OperandI64(f) = Operand(q)
      BY <1>3, <2>1, IntKind DEF OperandI64
  <2>4. NewValue(schema, r, f) = Number(Quotient(NumberOf(r), Operand(q)))
    <3> DEFINE old == Existing(r, "n")
    <3>1. NewValue(schema, r, f) = NewNumber(KInt, old, f)
        BY <1>3, <2>1 DEF NewValue, NumNames, StringNames, ListNames, ElementNames, MergeNames
    <3>2. NewNumber(KInt, old, f) = NumberFrom(KInt, old, f)
        BY IntKind DEF NewNumber
    <3>3. PayloadOf("int", old, 0) = NumberOf(r) /\ NumberOf(r) \in Int
        BY OldOfN
    <3>4. ApplyI64(f.name, NumberOf(r), Operand(q)) = Quotient(NumberOf(r), Operand(q))
        BY <1>12 DEF ApplyI64
    <3>5. Quotient(NumberOf(r), Operand(q)) # Err
        BY <2>0, DistinctAssumption
    <3>6. NumberOf(r) # Err /\ KInt # KFloat
        BY <3>3, IntKind, DistinctAssumption
    <3> HIDE DEF old
    <3>7. NumberFrom(KInt, old, f) = Number(Quotient(NumberOf(r), Operand(q)))
        BY <2>3, <3>3, <3>4, <3>5, <3>6 DEF NumberFrom
    <3> QED BY <3>1, <3>2, <3>7
  <2>5. NewValue(schema, r, f) # Err
    <3>1. NewValue(schema, r, f) = <<"int", Quotient(NumberOf(r), Operand(q))>>
        BY <2>4 DEF Number
    <3> QED BY <2>0, <3>1, DistinctAssumption
  <2>6. ApplyFuncalls(schema, r, fs) = ApplyFuncall(schema, Going(r), f)
      BY <1>1, <1>2, <1>3, OneFuncall
  <2>7. PICK v : v = NewValue(schema, r, f)
      OBVIOUS
  <2>8. ApplyFuncall(schema, Going(r), f) = [Going(r) EXCEPT !.record = With(@, f.attr, v)]
      BY <2>5, <2>7, StateFields DEF ApplyFuncall
  <2>9. ApplyFuncalls(schema, r, fs) = Going(With(r, f.attr, v))
      BY <2>6, <2>8, StateWritten
  <2>10. ApplyFuncalls(schema, r, fs).record = With(r, "n", v)
    <3>1. PICK w : w = With(r, f.attr, v)
        OBVIOUS
    <3>2. Going(w).record = w
        BY StateFields
    <3> QED BY <1>3, <2>9, <3>1, <3>2
  <2> QED BY <1>1, <1>2, <1>12, <2>2, <2>4, <2>7, <2>10
<1> QED BY <1>1, <1>10, <1>11, <1>12

\* A check that n equals a value holds of the records whose n is that value.
LEMMA CheckOnN ==
    ASSUME NEW schema, HasN(schema), NEW q \in Range(RequestOf), q.kind = "atomic",
           MovesAway(q), ValidAtomic(schema, q)
    PROVE  /\ DecodedChecks(schema, q.checks) # <<>>
           /\ \A r : RecordMatches(r, DecodedChecks(schema, q.checks)) =>
                        "n" \in DOMAIN r /\ r["n"] = Number(Expected(q))
<1>1. PICK checks : checks = q.checks
    OBVIOUS
<1>2. PICK check : check = checks[1]
    OBVIOUS
<1>3. /\ q.format = "protocol" /\ Len(checks) = 1 /\ check.attr = "n" /\ check.predicate = "eq"
      /\ Expected(q) = AsI64(check.value[1])
    BY <1>1, <1>2 DEF MovesAway, OnN, Expected
<1>4. IsList(checks) /\ \A i \in DOMAIN checks : HasNumber(q.format, checks[i].value)
    BY <1>1, RequestsAssumption
<1>5. DOMAIN checks = 1..1 /\ 1 \in DOMAIN checks
    BY <1>3, <1>4 DEF IsList
<1>6. HasNumber("protocol", check.value)
    BY <1>2, <1>3, <1>4, <1>5
<1>7. NumberIn(check.value)
    BY <1>6, Ends DEF HasNumber, NumberIn
<1>8. ValidCheck(schema, check)
    BY <1>1, <1>2, <1>5 DEF ValidAtomic
<1>9. KindOf(schema, check.attr) = KInt
    BY <1>3 DEF HasN, KindOf
<1>10. Fits(KInt, check.dt, check.value) /\ KindOf(schema, check.attr) # Err
       /\ ValueFromProtocol(check.dt, check.value) # Err
    BY <1>8, <1>9 DEF ValidCheck, Fits
<1>11. /\ Expected(q) \in Int
       /\ ValueFromProtocol(check.dt, check.value) = <<"int", Expected(q)>>
    BY <1>3, <1>7, <1>10, IntArgument
<1>12. PICK d : d = [attr |-> "n", predicate |-> "eq", value |-> <<"int", Expected(q)>>]
    OBVIOUS
<1>13. DecodedCheck(schema, check) = d
  <2>1. check.predicate \in Predicates
      BY <1>3 DEF Predicates
  <2> QED BY <1>3, <1>10, <1>11, <1>12, <2>1 DEF DecodedCheck
<1>14. d # Err
  <2>1. PICK v : v = <<"int", Expected(q)>>
      OBVIOUS
  <2>2. v \in {"int"} \X Int
      BY <1>11, <2>1
  <2>3. "eq" \in Predicates
      BY DEF Predicates
  <2>4. d \in [attr : {"n"}, predicate : Predicates, value : {"int"} \X Int]
      BY <1>12, <2>1, <2>2, <2>3
  <2> QED BY <2>4, ChecksAssumption
<1> DEFINE out == [i \in DOMAIN checks |-> DecodedCheck(schema, checks[i])]
<1>15. DOMAIN out = 1..1 /\ out[1] = d
    BY <1>2, <1>5, <1>13
<1>16. DecodedChecks(schema, checks) = IF Err \in Range(out) THEN Err ELSE out
    BY DEF DecodedChecks, Converted
<1> HIDE DEF out
<1>17. Err \notin Range(out)
    BY <1>14, <1>15 DEF Range
<1>18. DecodedChecks(schema, checks) = out
    BY <1>16, <1>17
<1>19. out # <<>>
  <2>1. DOMAIN <<>> = 1..0 /\ 1..0 # 1..1
      OBVIOUS
  <2> QED BY <1>15, <2>1
<1>20. ASSUME NEW r, RecordMatches(r, out)
       PROVE  "n" \in DOMAIN r /\ r["n"] = Number(Expected(q))
  <2>1. d.attr \in DOMAIN r /\ Satisfies(r[d.attr], d.predicate, d.value)
      BY <1>15, <1>20 DEF RecordMatches
  <2>2. "n" \in DOMAIN r /\ Satisfies(r["n"], "eq", <<"int", Expected(q)>>)
      BY <1>12, <2>1
  <2> QED BY <2>2 DEF Satisfies, Number
<1> QED BY <1>1, <1>18, <1>19, <1>20

-------------------------------------------------------------------------------
(* The answers and the records.                                               *)

\* A key's record is as it was at the start.
Same(k) ==
    /\ k \in DOMAIN rec <=> k \in DOMAIN Initial
    /\ k \in DOMAIN rec => rec[k] = Initial[k]
InitialEntry(k) == IF k \in DOMAIN Initial THEN Initial[k] ELSE NoAttributes

\* While only additions have changed n, it holds its first value and their sum.
Total(k) == NumberAt(Initial, k) + SumFunctionOnSet(Added, Changes(k))
Counted(k) ==
    IsIntegerN /\ Changes(k) # {} /\ (\A e \in Changes(k) : IsAdd(RequestOf[e.request]))
    => /\ k \in DOMAIN rec /\ Numbers(Added, Changes(k))
       /\ Total(k) >= MinInt /\ NumberAt(rec, k) = Saturate(Total(k))

\* While only changes that expect one value of n and move it away have succeeded, there
\* was one at most, and n has another value now.
OneValue(k) ==
    /\ \A e \in Changes(k) : MovesAway(RequestOf[e.request])
    /\ \A e, f \in Changes(k) :
          Expected(RequestOf[e.request]) = Expected(RequestOf[f.request])
Excluded(k) ==
    IsIntegerN /\ OneValue(k)
    => \A e \in Changes(k) :
          /\ Changes(k) = {e} /\ k \in DOMAIN rec /\ "n" \in DOMAIN rec[k]
          /\ rec[k]["n"] # Number(Expected(RequestOf[e.request]))

KeyInv(k) == (Changes(k) = {} => Same(k)) /\ Counted(k) /\ Excluded(k)

\* A copy that was made before any change is one of the first record.
Copied(c) ==
    conn[c].pc = "store" /\ Changes(Change(c).key) = {}
    => conn[c].fetched =
          ApplyFuncalls(Schema, InitialEntry(Change(c).key), Change(c).funcalls).record

ChangeInv == (\A k \in Keys : KeyInv(k)) /\ (\A c \in Clients : Copied(c))

\* The number at a key.
LEMMA NumberAtEntry ==
    \A k : /\ NumberAt(rec, k) = NumberOf(EntryOf(k))
           /\ NumberAt(Initial, k) = NumberOf(InitialEntry(k))
BY DEF NumberAt, NumberOf, EntryOf, InitialEntry, NoAttributes

\* The key is another attribute.
LEMMA KeyedNumber == \A k, r : NumberOf(Keyed(k, r)) = NumberOf(r)
BY DEF NumberOf, Keyed, With, KeyAttribute

\* Changes are answers.
LEMMA ChangesFinite ==
    ASSUME HandlerInv, NEW k
    PROVE  IsFiniteSet(Changes(k)) /\ Changes(k) \subseteq log
<1>1. Changes(k) \subseteq log
    BY DEF Changes
<1> QED BY <1>1, FS_Subset DEF HandlerInv, Answers

\* A key at which nothing changes.
LEMMA KeyStays ==
    ASSUME HandlerInv, NEW k, KeyInv(k), plan' = plan, log \subseteq log',
           Changes(k)' = Changes(k),
           k \in DOMAIN rec' <=> k \in DOMAIN rec, k \in DOMAIN rec => rec'[k] = rec[k]
    PROVE  KeyInv(k)'
<1>1. Schema' = Schema /\ Initial' = Initial /\ (IsIntegerN' <=> IsIntegerN)
    BY DEF Schema, Initial, IsIntegerN
<1>2. Changes(k)' = {} => Same(k)'
    BY <1>1 DEF KeyInv, Same
<1>3. Counted(k)'
  <2>1. SUFFICES ASSUME IsIntegerN, Changes(k) # {},
                        \A e \in Changes(k) : IsAdd(RequestOf[e.request])
                 PROVE  /\ k \in DOMAIN rec' /\ Numbers(Added', Changes(k))
                        /\ Total(k)' >= MinInt /\ NumberAt(rec', k) = Saturate(Total(k)')
      BY <1>1 DEF Counted
  <2>2. /\ k \in DOMAIN rec /\ Numbers(Added, Changes(k))
        /\ Total(k) >= MinInt /\ NumberAt(rec, k) = Saturate(Total(k))
      BY <2>1 DEF KeyInv, Counted
  <2>3. \A e \in Changes(k) : Added'[e] = Added[e]
      BY ChangesFinite DEF Added
  <2>4. PICK S, f, h : S = Changes(k) /\ f = Added /\ h = Added'
      OBVIOUS
  <2>5. SumFunctionOnSet(h, S) = SumFunctionOnSet(f, S)
      BY <2>2, <2>3, <2>4, ChangesFinite, SumSame
  <2>6. Total(k)' = Total(k)
      BY <1>1, <2>4, <2>5 DEF Total
  <2>7. NumberAt(rec', k) = NumberAt(rec, k)
      BY <2>2 DEF NumberAt
  <2>8. Numbers(Added', Changes(k))
      BY <2>2, <2>3 DEF Numbers
  <2> QED BY <2>2, <2>6, <2>7, <2>8
<1>4. Excluded(k)'
    BY <1>1 DEF KeyInv, Excluded, OneValue
<1> QED BY <1>2, <1>3, <1>4 DEF KeyInv

\* An answer other than a change.
LEMMA NoChange ==
    ASSUME NEW k, NEW c, NEW status,
           status # "success" \/ Request(c).kind # "atomic",
           log' = log \cup {Entry(c, status)}
    PROVE  Changes(k)' = Changes(k)
BY DEF Changes, Entry, Request

\* A change: it is new, and of its key.
LEMMA OneChange ==
    ASSUME HandlerInv, NEW c \in Clients, Busy(c), Request(c).kind = "atomic",
           log' = log \cup {Entry(c, "success")},
           NEW k, k = Request(c).key, NEW e, e = Entry(c, "success")
    PROVE  /\ Changes(k)' = Changes(k) \cup {e} /\ e \notin log
           /\ RequestOf[e.request] = Request(c)
           /\ \A j : j # k => Changes(j)' = Changes(j)
<1>1. /\ e.client = c /\ e.status = "success" /\ e.request = conn[c].request
      /\ e.number = conn[c].sent
    BY DEF Entry
<1>2. RequestOf[e.request] = Request(c)
    BY <1>1 DEF Request
<1>3. e \notin log
    BY <1>1 DEF HandlerInv, Answers
<1>4. Changes(k)' = Changes(k) \cup {e}
    BY <1>1, <1>2 DEF Changes
<1>5. \A j : j # k => Changes(j)' = Changes(j)
    BY <1>1, <1>2 DEF Changes
<1> QED BY <1>2, <1>3, <1>4, <1>5

\* The copies of the other connections.
LEMMA CopiedOther ==
    ASSUME ChangeInv, NEW c \in Clients, Own(c), log \subseteq log',
           NEW d \in Clients, d # c
    PROVE  Copied(d)'
<1>1. conn'[d] = conn[d] /\ Copied(d)
    BY DEF Own, ChangeInv
<1>2. /\ Schema' = Schema /\ Change(d)' = Change(d)
      /\ InitialEntry(Change(d).key)' = InitialEntry(Change(d).key)
    BY <1>1 DEF Own, Schema, Change, InitialEntry, Initial
<1>3. Changes(Change(d).key)' = {} => Changes(Change(d).key) = {}
  <2>1. PICK k : k = Change(d).key
      OBVIOUS
  <2>2. Changes(k) \subseteq Changes(k)'
      BY DEF Changes
  <2> QED BY <1>2, <2>1, <2>2
<1> QED BY <1>1, <1>2, <1>3 DEF Copied

\* A step that changes no record.
LEMMA PassiveStep ==
    ASSUME HandlerInv, ChangeInv, NEW c \in Clients, Own(c), rec' = rec,
           \/ log' = log
           \/ \E status : /\ status # "success" \/ Request(c).kind # "atomic"
                          /\ log' = log \cup {Entry(c, status)},
           Copied(c)'
    PROVE  ChangeInv'
<1>1. ASSUME NEW k PROVE Changes(k)' = Changes(k)
  <2>1. CASE log' = log
      BY <2>1 DEF Changes
  <2> QED BY <2>1, NoChange
<1>2. log \subseteq log' /\ plan' = plan
    BY DEF Own
<1>3. ASSUME NEW k \in Keys PROVE KeyInv(k)'
    BY <1>1, <1>2, KeyStays DEF ChangeInv
<1>4. ASSUME NEW d \in Clients PROVE Copied(d)'
    BY <1>2, CopiedOther
<1> QED BY <1>3, <1>4 DEF ChangeInv

\* A change of one key.
LEMMA ChangeStep ==
    ASSUME Shaped, HandlerInv, ChangeInv, NEW c \in Clients, plan' = plan,
           Busy(c), Request(c).kind = "atomic", Answer(c, "success"), NEW k, k = Request(c).key,
           \A j : j # k => /\ j \in DOMAIN rec' <=> j \in DOMAIN rec
                           /\ j \in DOMAIN rec => rec'[j] = rec[j],
           Counted(k)', Excluded(k)'
    PROVE  ChangeInv'
<1>1. Own(c) /\ conn'[c].pc = "idle" /\ log' = log \cup {Entry(c, "success")}
    BY AnswerFields
<1>2. PICK e : e = Entry(c, "success")
    OBVIOUS
<1>3. Changes(k)' = Changes(k) \cup {e} /\ \A j : j # k => Changes(j)' = Changes(j)
    BY <1>1, <1>2, OneChange
<1>4. ASSUME NEW j \in Keys PROVE KeyInv(j)'
  <2>1. CASE j = k
    <3>1. Changes(j)' # {}
        BY <1>3, <2>1
    <3> QED BY <2>1, <3>1 DEF KeyInv
  <2>2. CASE j # k
      BY <1>1, <1>3, <2>2, KeyStays DEF ChangeInv
  <2> QED BY <2>1, <2>2
<1>5. Copied(c)'
    BY <1>1 DEF Copied
<1>6. ASSUME NEW d \in Clients PROVE Copied(d)'
    BY <1>1, <1>5, CopiedOther
<1> QED BY <1>4, <1>6 DEF ChangeInv

\* The request of a change, when it is one on n.
LEMMA RequestOnN ==
    ASSUME Shaped, HandlerInv, NEW c \in Clients,
           conn[c].pc \in {"change", "prefetch", "store", "erase"},
           IsIntegerN, OnN(Request(c))
    PROVE  /\ HasN(Schema) /\ ValidOnN(Schema, Request(c)) /\ Change(c) = Request(c)
           /\ ~Request(c).erase
<1>1. /\ Request(c) \in Range(RequestOf) /\ Request(c).kind = "atomic"
      /\ Change(c) = KeyChange(Schema, Request(c)) /\ ValidAtomic(Schema, Change(c))
    BY Working
<1>2. Request(c).format = "protocol" /\ ~Request(c).erase
    BY DEF OnN
<1>3. Change(c) = Request(c)
    BY <1>1, <1>2 DEF KeyChange
<1>4. HasN(Schema)
    BY PlanIs DEF HasN, Shaped, IsIntegerN
<1> QED BY <1>1, <1>2, <1>3, <1>4 DEF ValidOnN

\* Saturation at the upper end is not undone by additions.
LEMMA SaturateAdds ==
    ASSUME NEW t \in Int, NEW o \in Int, t >= MinInt, o >= 0
    PROVE  /\ Saturate(Saturate(t) + o) = Saturate(t + o) /\ t + o >= MinInt
           /\ Saturate(t) \in Int
           /\ t <= MaxInt => Saturate(t) = t
<1>1. MaxInt \in Int /\ MinInt \in Int /\ MinInt <= MaxInt
    BY Ends
<1>2. PICK top \in Int, bottom \in Int : top = MaxInt /\ bottom = MinInt
    BY <1>1
<1> QED BY <1>1, <1>2 DEF Saturate

\* The first value of n.
LEMMA FirstNumber ==
    ASSUME Shaped, IsIntegerN, NEW k
    PROVE  /\ NumberAt(Initial, k) \in Int /\ NumberAt(Initial, k) >= MinInt
           /\ NumberAt(Initial, k) <= MaxInt
<1>1. ASSUME k \in DOMAIN Initial, "n" \in DOMAIN Initial[k] PROVE Initial[k]["n"] \in {"int"} \X Ints
    BY <1>1, PlansAssumption DEF Shaped, IsIntegerN, Schema, Initial
<1>2. NumberAt(Initial, k) \in Ints \cup {0}
    BY <1>1 DEF NumberAt
<1>3. 0 \in Int /\ MinInt <= 0 /\ 0 <= MaxInt
    BY Ends
<1> QED BY <1>2, <1>3, Ends

\* An addition adds its operand to the total.
LEMMA CountedStep ==
    ASSUME Shaped, HandlerInv, ChangeInv, NEW c \in Clients, plan' = plan,
           conn[c].pc = "change", log' = log \cup {Entry(c, "success")},
           NEW k \in Keys, k = Request(c).key,
           rec' = With(rec, k, ApplyMutations(Keyed(k, EntryOf(k)), Mutations(Change(c))).record)
    PROVE  Counted(k)'
<1>1. Schema' = Schema /\ Initial' = Initial /\ (IsIntegerN' <=> IsIntegerN)
    BY DEF Schema, Initial, IsIntegerN
<1>2. PICK e : e = Entry(c, "success")
    OBVIOUS
<1>3. Request(c).kind = "atomic" /\ Busy(c)
    BY Working
<1>4. /\ Changes(k)' = Changes(k) \cup {e} /\ e \notin log /\ RequestOf[e.request] = Request(c)
    BY <1>2, <1>3, OneChange
<1>5. SUFFICES ASSUME IsIntegerN, \A g \in Changes(k) \cup {e} : IsAdd(RequestOf[g.request])
               PROVE  /\ k \in DOMAIN rec' /\ Numbers(Added', Changes(k)')
                      /\ Total(k)' >= MinInt /\ NumberAt(rec', k) = Saturate(Total(k)')
    BY <1>1, <1>4 DEF Counted
<1>6. PICK q : q = Request(c)
    OBVIOUS
<1>7. /\ IsAdd(q) /\ OnN(q) /\ q.funcalls[1].name = "num_add" /\ Operand(q) >= 0
    BY <1>4, <1>5, <1>6 DEF IsAdd
<1>8. HasN(Schema) /\ ValidOnN(Schema, q) /\ Change(c) = q
    BY <1>5, <1>6, <1>7, RequestOnN
<1>9. Operand(q) \in Int
    BY <1>7, <1>8, CallOnN DEF NumNames
<1>10. /\ k \in DOMAIN rec'
       /\ rec'[k] = With(Keyed(k, EntryOf(k)), "n", Number(Saturate(NumberOf(EntryOf(k)) + Operand(q))))
  <2>0. NumberOf(Keyed(k, EntryOf(k))) = NumberOf(EntryOf(k))
      BY KeyedNumber
  <2>1. PICK id, r : r = Keyed(k, EntryOf(k)) /\ TypedBy(Schema, id, r)
      BY KeyedTyped
  <2>2. ApplyMutations(r, Mutations(q)).record
           = With(r, "n", Number(Saturate(NumberOf(r) + Operand(q))))
      BY <1>7, <1>8, <2>1, OneOnN
  <2>3. k \in DOMAIN rec' /\ rec'[k] = ApplyMutations(r, Mutations(q)).record
      BY <1>8, <2>1 DEF With
  <2> QED BY <2>0, <2>1, <2>2, <2>3
<1>11. NumberAt(rec', k) = Saturate(NumberAt(rec, k) + Operand(q))
  <2>1. PICK v : v = Number(Saturate(NumberOf(EntryOf(k)) + Operand(q)))
      OBVIOUS
  <2>2. rec'[k] = With(Keyed(k, EntryOf(k)), "n", v)
      BY <1>10, <2>1
  <2>3. "n" \in DOMAIN rec'[k] /\ rec'[k]["n"] = v
      BY <2>2 DEF With
  <2>4. v[2] = Saturate(NumberOf(EntryOf(k)) + Operand(q))
      BY <2>1 DEF Number
  <2> QED BY <1>10, <2>3, <2>4, NumberAtEntry DEF NumberAt
<1>12. /\ Numbers(Added, Changes(k)) /\ Total(k) >= MinInt
       /\ NumberAt(rec, k) = Saturate(Total(k)) /\ Total(k) \in Int
  <2>1. IsFiniteSet(Changes(k)) /\ KeyInv(k)
      BY ChangesFinite DEF ChangeInv
  <2>2. NumberAt(Initial, k) \in Int /\ NumberAt(Initial, k) >= MinInt /\ NumberAt(Initial, k) <= MaxInt
      BY <1>5, FirstNumber
  <2>3. PICK S, f : S = Changes(k) /\ f = Added
      OBVIOUS
  <2>4. CASE Changes(k) = {}
    <3>1. Numbers(f, S)
        BY <2>3, <2>4 DEF Numbers
    <3>2. SumFunctionOnSet(f, S) = 0
        BY <2>1, <2>3, <2>4, <3>1, SumType
    <3>3. Total(k) = NumberAt(Initial, k)
        BY <2>2, <2>3, <3>2 DEF Total
    <3>4. NumberAt(rec, k) = NumberAt(Initial, k)
        BY <2>1, <2>4 DEF KeyInv, Same, NumberAt
    <3> QED BY <2>2, <2>3, <3>1, <3>3, <3>4, SaturateAdds
  <2>5. CASE Changes(k) # {}
    <3>1. /\ Numbers(Added, Changes(k)) /\ Total(k) >= MinInt
          /\ NumberAt(rec, k) = Saturate(Total(k))
        BY <1>5, <2>1, <2>5 DEF KeyInv, Counted
    <3>2. SumFunctionOnSet(f, S) \in Int
        BY <2>1, <2>3, <3>1, SumType
    <3> QED BY <2>2, <2>3, <3>1, <3>2 DEF Total
  <2> QED BY <2>4, <2>5
<1>13. Added'[e] = Operand(q) /\ \A g \in Changes(k) : Added'[g] = Added[g]
    BY <1>2, <1>4, <1>6, ChangesFinite DEF Added
<1>14. Total(k)' = Total(k) + Operand(q) /\ Numbers(Added', Changes(k)')
  <2>1. PICK S, f, h : S = Changes(k) /\ f = Added /\ h = Added'
      OBVIOUS
  <2>2. IsFiniteSet(S) /\ e \notin S
      BY <1>4, <2>1, ChangesFinite
  <2>3. /\ SumFunctionOnSet(f, S) \in Int
        /\ SumFunctionOnSet(h, S \cup {e}) = SumFunctionOnSet(f, S) + h[e]
      BY <1>9, <1>12, <1>13, <2>1, <2>2, SumOneMore
  <2>4. NumberAt(Initial, k) \in Int
      BY <1>5, FirstNumber
  <2>5. Total(k)' = NumberAt(Initial, k) + SumFunctionOnSet(h, S \cup {e})
      BY <1>1, <1>4, <2>1 DEF Total
  <2>6. Total(k) = NumberAt(Initial, k) + SumFunctionOnSet(f, S)
      BY <2>1 DEF Total
  <2>7. Numbers(Added', Changes(k)')
      BY <1>4, <1>9, <1>12, <1>13 DEF Numbers
  <2> QED BY <1>9, <1>13, <2>1, <2>3, <2>4, <2>5, <2>6, <2>7
<1>15. PICK t \in Int, o \in Int : t = Total(k) /\ o = Operand(q)
    BY <1>9, <1>12
<1>16. Saturate(Saturate(t) + o) = Saturate(t + o) /\ t + o >= MinInt
    BY <1>7, <1>12, <1>15, SaturateAdds
<1> QED BY <1>10, <1>11, <1>12, <1>14, <1>15, <1>16

\* A change that was let through found the value it expects.
LEMMA FoundExpected ==
    ASSUME Shaped, HandlerInv, NEW c \in Clients, conn[c].pc \in {"change", "store"},
           IsIntegerN, MovesAway(Request(c)), NEW k, k = Request(c).key, Passes(k, Checks(c))
    PROVE  k \in DOMAIN rec /\ "n" \in DOMAIN rec[k] /\ rec[k]["n"] = Number(Expected(Request(c)))
<1>1. PICK q : q = Request(c)
    OBVIOUS
<1>2. HasN(Schema) /\ ValidOnN(Schema, q) /\ Change(c) = q
    BY <1>1, RequestOnN DEF MovesAway
<1>3. Checks(c) = DecodedChecks(Schema, q.checks)
    BY <1>2, Working
<1>4. /\ DecodedChecks(Schema, q.checks) # <<>>
      /\ \A r : RecordMatches(r, DecodedChecks(Schema, q.checks)) =>
                   "n" \in DOMAIN r /\ r["n"] = Number(Expected(q))
    BY <1>1, <1>2, CheckOnN DEF ValidOnN
<1> QED BY <1>1, <1>3, <1>4 DEF Passes

\* A second change that expects the same value is not let through; and the first one
\* leaves another value.
LEMMA ExcludedStep ==
    ASSUME Shaped, HandlerInv, ChangeInv, NEW c \in Clients, plan' = plan,
           conn[c].pc \in {"change", "store"}, log' = log \cup {Entry(c, "success")},
           NEW k \in Keys, k = Request(c).key, Passes(k, Checks(c)),
           IsIntegerN /\ MovesAway(Request(c)) /\ Changes(k) = {} =>
              /\ k \in DOMAIN rec' /\ "n" \in DOMAIN rec'[k]
              /\ rec'[k]["n"] # Number(Expected(Request(c)))
    PROVE  Excluded(k)'
<1>1. IsIntegerN' <=> IsIntegerN
    BY DEF Schema, IsIntegerN
<1>2. PICK e : e = Entry(c, "success")
    OBVIOUS
<1>3. Request(c).kind = "atomic" /\ Busy(c)
    BY Working
<1>4. /\ Changes(k)' = Changes(k) \cup {e} /\ RequestOf[e.request] = Request(c)
    BY <1>2, <1>3, OneChange
<1>5. SUFFICES ASSUME IsIntegerN, OneValue(k)', NEW g \in Changes(k)'
               PROVE  /\ Changes(k)' = {g} /\ k \in DOMAIN rec' /\ "n" \in DOMAIN rec'[k]
                      /\ rec'[k]["n"] # Number(Expected(RequestOf[g.request]))
    BY <1>1 DEF Excluded
<1>6. /\ \A f \in Changes(k) \cup {e} : MovesAway(RequestOf[f.request])
      /\ \A f, h \in Changes(k) \cup {e} :
            Expected(RequestOf[f.request]) = Expected(RequestOf[h.request])
    BY <1>4, <1>5 DEF OneValue
<1>7. MovesAway(Request(c))
    BY <1>4, <1>6
<1>8. k \in DOMAIN rec /\ "n" \in DOMAIN rec[k] /\ rec[k]["n"] = Number(Expected(Request(c)))
    BY <1>5, <1>7, FoundExpected
<1>9. Changes(k) = {}
  <2>1. SUFFICES ASSUME NEW f \in Changes(k) PROVE FALSE
      OBVIOUS
  <2>2. OneValue(k) /\ Excluded(k)
      BY <1>6 DEF OneValue, ChangeInv, KeyInv
  <2>3. rec[k]["n"] # Number(Expected(RequestOf[f.request]))
      BY <1>5, <2>2 DEF Excluded
  <2>4. Expected(RequestOf[f.request]) = Expected(Request(c))
      BY <1>4, <1>6
  <2> QED BY <1>8, <2>3, <2>4
<1>10. g = e /\ Changes(k)' = {g}
    BY <1>4, <1>5, <1>9
<1> QED BY <1>4, <1>5, <1>7, <1>9, <1>10

\* A change in the engine.
LEMMA ChangeChange ==
    ASSUME SearchInv, HandlerInv, ChangeInv, NEW c \in Clients, AtomicChange(c)
    PROVE  ChangeInv'
<1>0. Shaped /\ conn[c].pc = "change" /\ plan' = plan
    BY DEF SearchInv, AtomicChange
<1>1. /\ Busy(c) /\ Change(c).key \in Keys /\ Change(c).key = Request(c).key
      /\ Request(c).kind = "atomic"
    BY <1>0, Working
<1>2. PICK q, k : q = Change(c) /\ k = q.key
    OBVIOUS
<1>3. PICK applied : applied = ApplyMutations(Keyed(k, EntryOf(k)), Mutations(q))
    OBVIOUS
<1>4. applied.ok
    BY <1>0, <1>1, <1>2, <1>3, KeyedTyped, EngineApplies
<1>5. CASE Passes(k, Checks(c))
  <2>1. rec' = With(rec, k, applied.record) /\ Answer(c, "success")
      BY <1>2, <1>3, <1>4, <1>5 DEF AtomicChange
  <2>2. \A j : j # k => /\ j \in DOMAIN rec' <=> j \in DOMAIN rec
                        /\ j \in DOMAIN rec => rec'[j] = rec[j]
      BY <2>1 DEF With
  <2>3. log' = log \cup {Entry(c, "success")}
      BY <2>1 DEF Answer
  <2>4. Counted(k)'
      BY <1>0, <1>1, <1>2, <1>3, <2>1, <2>3, CountedStep
  <2>5. ASSUME IsIntegerN, MovesAway(Request(c))
        PROVE  /\ k \in DOMAIN rec' /\ "n" \in DOMAIN rec'[k]
               /\ rec'[k]["n"] # Number(Expected(Request(c)))
    <3>1. PICK id, r : r = Keyed(k, EntryOf(k)) /\ TypedBy(Schema, id, r)
        BY <1>1, <1>2, KeyedTyped
    <3>2. PICK p : p = Request(c)
        OBVIOUS
    <3>3. /\ HasN(Schema) /\ ValidOnN(Schema, p) /\ q = p
        BY <1>0, <1>2, <2>5, <3>2, RequestOnN DEF MovesAway
    <3>4. CanUseRuntimeMutations(Schema, p.funcalls)
        BY <1>0, <1>2, <3>3 DEF HandlerInv, Handler
    <3>5. p.funcalls[1].name = "set" /\ Operand(p) # Expected(p)
        BY <2>5, <3>1, <3>2, <3>3, <3>4, OneOnN DEF MovesAway
    <3>6. applied.record = With(r, "n", Number(Operand(p)))
        BY <1>3, <3>1, <3>3, <3>5, OneOnN
    <3>7. k \in DOMAIN rec' /\ rec'[k] = With(r, "n", Number(Operand(p)))
        BY <2>1, <3>6 DEF With
    <3>8. "n" \in DOMAIN rec'[k] /\ rec'[k]["n"] = Number(Operand(p))
        BY <3>7 DEF With
    <3> QED BY <3>2, <3>5, <3>7, <3>8 DEF Number
  <2>6. Excluded(k)'
      BY <1>0, <1>1, <1>2, <1>5, <2>3, <2>5, ExcludedStep
  <2> QED BY <1>0, <1>1, <1>2, <2>1, <2>2, <2>4, <2>6, ChangeStep
<1>6. CASE ~Passes(k, Checks(c))
  <2>1. rec' = rec /\ Answer(c, "compare_failed")
      BY <1>2, <1>6 DEF AtomicChange
  <2>2. Own(c) /\ conn'[c].pc = "idle" /\ log' = log \cup {Entry(c, "compare_failed")}
      BY <1>0, <2>1, AnswerFields
  <2>3. Copied(c)'
      BY <2>2 DEF Copied
  <2>4. PICK status : status = "compare_failed"
      OBVIOUS
  <2> QED BY <2>1, <2>2, <2>3, <2>4, PassiveStep
<1> QED BY <1>5, <1>6

\* The record is read and changed in memory.
LEMMA ChangePrefetch ==
    ASSUME SearchInv, HandlerInv, ChangeInv, NEW c \in Clients, AtomicPrefetch(c)
    PROVE  ChangeInv'
<1>0. /\ Shaped /\ conn[c].pc = "prefetch" /\ plan' = plan /\ rec' = rec
      /\ DOMAIN conn[c] = Fields
    BY DEF SearchInv, AtomicPrefetch, Shaped
<1>1. Change(c).key \in Keys
    BY <1>0, Working
<1>2. PICK q, k : q = Change(c) /\ k = q.key
    OBVIOUS
<1>3. PICK updated : updated = ApplyFuncalls(Schema, EntryOf(k), q.funcalls)
    OBVIOUS
<1>4. CASE Answer(c, "bad_dimension_spec")
  <2>1. Own(c) /\ conn'[c].pc = "idle" /\ log' = log \cup {Entry(c, "bad_dimension_spec")}
      BY <1>0, <1>4, AnswerFields
  <2>2. Copied(c)'
      BY <2>1 DEF Copied
  <2>3. PICK status : status = "bad_dimension_spec"
      OBVIOUS
  <2> QED BY <1>0, <2>1, <2>2, <2>3, PassiveStep
<1>5. CASE /\ conn' = [conn EXCEPT ![c].pc = "store", ![c].fetched = updated.record]
           /\ log' = log
  <2> DEFINE r == [conn[c] EXCEPT !.pc = "store", !.fetched = updated.record]
  <2>1. DOMAIN r = Fields /\ r.fetched = updated.record /\ r.decoded = conn[c].decoded
      BY <1>0 DEF Fields
  <2>2. conn' = [conn EXCEPT ![c] = r]
      BY <1>5
  <2> HIDE DEF r
  <2>3. Own(c) /\ conn'[c] = r
      BY <1>0, <2>1, <2>2, Replaced
  <2>4. Schema' = Schema /\ Initial' = Initial /\ Change(c)' = q /\ conn'[c].fetched = updated.record
      BY <1>0, <1>2, <2>1, <2>3 DEF Schema, Initial, Change
  <2>5. Changes(k)' = Changes(k)
      BY <1>5 DEF Changes
  <2>6. ASSUME Changes(k) = {} PROVE EntryOf(k) = InitialEntry(k)
    <3>1. Same(k)
        BY <1>1, <1>2, <2>6 DEF ChangeInv, KeyInv
    <3> QED BY <3>1 DEF Same, EntryOf, InitialEntry
  <2>7. InitialEntry(k)' = InitialEntry(k)
      BY <2>4 DEF InitialEntry
  <2>8. Copied(c)'
      BY <1>2, <1>3, <2>4, <2>5, <2>6, <2>7 DEF Copied
  <2> QED BY <1>0, <1>5, <2>3, <2>8, PassiveStep
<1> QED BY <1>2, <1>3, <1>4, <1>5 DEF AtomicPrefetch

\* The copy is put back.
LEMMA ChangeStore ==
    ASSUME SearchInv, HandlerInv, ChangeInv, NEW c \in Clients, AtomicStore(c)
    PROVE  ChangeInv'
<1>0. Shaped /\ conn[c].pc = "store" /\ plan' = plan
    BY DEF SearchInv, AtomicStore
<1>1. /\ Busy(c) /\ Change(c).key \in Keys /\ Change(c).key = Request(c).key
      /\ Request(c).kind = "atomic"
    BY <1>0, Working
<1>2. PICK q, k : q = Change(c) /\ k = q.key
    OBVIOUS
<1>3. CASE Passes(k, Checks(c))
  <2>1. rec' = With(rec, k, Overwrite(Keyed(k, EntryOf(k)), conn[c].fetched)) /\ Answer(c, "success")
      BY <1>2, <1>3 DEF AtomicStore
  <2>2. \A j : j # k => /\ j \in DOMAIN rec' <=> j \in DOMAIN rec
                        /\ j \in DOMAIN rec => rec'[j] = rec[j]
      BY <2>1 DEF With
  <2>3. log' = log \cup {Entry(c, "success")}
      BY <2>1 DEF Answer
  <2>4. PICK e : e = Entry(c, "success")
      OBVIOUS
  <2>5. Changes(k)' = Changes(k) \cup {e} /\ RequestOf[e.request] = Request(c)
      BY <1>1, <1>2, <2>3, <2>4, OneChange
  <2>6. PICK p : p = Request(c)
      OBVIOUS
  <2>7. ASSUME IsIntegerN, OnN(p)
        PROVE  /\ HasN(Schema) /\ ValidOnN(Schema, p) /\ q = p
               /\ ~CanUseRuntimeMutations(Schema, p.funcalls)
    <3>1. HasN(Schema) /\ ValidOnN(Schema, p) /\ q = p
        BY <1>0, <1>2, <2>6, <2>7, RequestOnN
    <3>2. ~CanUseRuntimeMutations(Schema, q.funcalls)
        BY <1>0, <1>2 DEF HandlerInv, Handler
    <3> QED BY <3>1, <3>2
  <2>8. Counted(k)'
    <3>1. SUFFICES ASSUME IsIntegerN, IsAdd(p) PROVE FALSE
        BY <1>0, <2>5, <2>6 DEF Counted, IsIntegerN, Schema
    <3>2. OnN(p) /\ p.funcalls[1].name = "num_add"
        BY <3>1 DEF IsAdd
    <3>3. TypedBy(Schema, Absent, NoAttributes)
        BY NothingTyped
    <3> QED BY <2>7, <3>1, <3>2, <3>3, OneOnN
  <2>9. ASSUME IsIntegerN, MovesAway(Request(c)), Changes(k) = {}
        PROVE  /\ k \in DOMAIN rec' /\ "n" \in DOMAIN rec'[k]
               /\ rec'[k]["n"] # Number(Expected(Request(c)))
    <3>1. HasN(Schema) /\ ValidOnN(Schema, p) /\ q = p
          /\ ~CanUseRuntimeMutations(Schema, p.funcalls)
        BY <2>6, <2>7, <2>9 DEF MovesAway
    <3>2. PICK id, r : r = EntryOf(k) /\ TypedBy(Schema, id, r)
        BY EntryTyped DEF CopyOf
    <3>3. /\ p.funcalls[1].name = "num_div" /\ Operand(p) # 0
          /\ Quotient(Expected(p), Operand(p)) # Expected(p)
        BY <2>6, <2>9, <3>1, <3>2, OneOnN DEF MovesAway
    <3>4. r = InitialEntry(k)
      <4>1. Same(k)
          BY <1>1, <1>2, <2>9 DEF ChangeInv, KeyInv
      <4> QED BY <3>2, <4>1 DEF Same, EntryOf, InitialEntry
    <3>5. conn[c].fetched = ApplyFuncalls(Schema, r, p.funcalls).record
        BY <1>0, <1>2, <2>9, <3>1, <3>4 DEF ChangeInv, Copied
    <3>6. conn[c].fetched = With(r, "n", Number(Quotient(NumberOf(r), Operand(p))))
        BY <3>1, <3>2, <3>3, <3>5, OneOnN
    <3>7. NumberOf(r) = Expected(p)
      <4>1. k \in DOMAIN rec /\ "n" \in DOMAIN rec[k] /\ rec[k]["n"] = Number(Expected(p))
          BY <1>0, <1>1, <1>2, <1>3, <2>6, <2>9, FoundExpected
      <4> QED BY <3>2, <4>1 DEF EntryOf, NumberOf, Number
    <3>8. k \in DOMAIN rec' /\ rec'[k] = Overwrite(Keyed(k, r), conn[c].fetched)
        BY <2>1, <3>2 DEF With
    <3>9. PICK v, s : v = Number(Quotient(Expected(p), Operand(p))) /\ s = conn[c].fetched
        OBVIOUS
    <3>10. "n" \in DOMAIN s /\ s["n"] = v
        BY <3>6, <3>7, <3>9 DEF With
    <3>11. "n" \in DOMAIN rec'[k] /\ rec'[k]["n"] = v
        BY <3>8, <3>9, <3>10 DEF Overwrite
    <3> QED BY <2>6, <3>3, <3>8, <3>9, <3>11 DEF Number
  <2>10. Excluded(k)'
      BY <1>0, <1>1, <1>2, <1>3, <2>3, <2>9, ExcludedStep
  <2> QED BY <1>0, <1>1, <1>2, <2>1, <2>2, <2>8, <2>10, ChangeStep
<1>4. CASE ~Passes(k, Checks(c))
  <2>1. rec' = rec /\ Answer(c, "compare_failed")
      BY <1>2, <1>4 DEF AtomicStore
  <2>2. Own(c) /\ conn'[c].pc = "idle" /\ log' = log \cup {Entry(c, "compare_failed")}
      BY <1>0, <2>1, AnswerFields
  <2>3. Copied(c)'
      BY <2>2 DEF Copied
  <2>4. PICK status : status = "compare_failed"
      OBVIOUS
  <2> QED BY <2>1, <2>2, <2>3, <2>4, PassiveStep
<1> QED BY <1>3, <1>4

\* A record is deleted.
LEMMA ChangeErase ==
    ASSUME SearchInv, HandlerInv, ChangeInv, NEW c \in Clients, AtomicErase(c)
    PROVE  ChangeInv'
<1>0. Shaped /\ conn[c].pc = "erase" /\ plan' = plan
    BY DEF SearchInv, AtomicErase
<1>1. /\ Busy(c) /\ Request(c).key \in Keys /\ Request(c).kind = "atomic"
    BY <1>0, Working
<1>2. PICK k : k = Request(c).key
    OBVIOUS
<1>3. rec' = Without(rec, k) /\ Answer(c, "success")
    BY <1>2 DEF AtomicErase
<1>4. \A j : j # k => /\ j \in DOMAIN rec' <=> j \in DOMAIN rec
                      /\ j \in DOMAIN rec => rec'[j] = rec[j]
    BY <1>3 DEF Without
<1>5. PICK e : e = Entry(c, "success")
    OBVIOUS
<1>6. e \in Changes(k)' /\ RequestOf[e.request] = Request(c)
  <2>1. log' = log \cup {Entry(c, "success")}
      BY <1>3 DEF Answer
  <2> QED BY <1>1, <1>2, <1>5, <2>1, OneChange
<1>7. ASSUME IsIntegerN PROVE ~OnN(Request(c))
  <2>1. Change(c).erase /\ Change(c).erase = Request(c).erase
      BY <1>0, Working DEF HandlerInv, Handler
  <2> QED BY <1>0, <1>7, <2>1, RequestOnN
<1>8. IsIntegerN' <=> IsIntegerN
    BY <1>0 DEF IsIntegerN, Schema
<1>9. Counted(k)' /\ Excluded(k)'
    BY <1>6, <1>7, <1>8 DEF Counted, IsAdd, Excluded, OneValue, MovesAway
<1> QED BY <1>0, <1>1, <1>2, <1>3, <1>4, <1>9, ChangeStep

\* A handler that answers something else, ends or goes on elsewhere.
LEMMA ChangeElse ==
    ASSUME SearchInv, HandlerInv, ChangeInv, NEW c \in Clients, plan' = plan, rec' = rec,
           \/ \E pc : pc # "store" /\ Goto(c, pc)
           \/ \E status : /\ status # "success" \/ Request(c).kind # "atomic"
                          /\ Answer(c, status)
    PROVE  ChangeInv'
<1>0. Shaped
    BY DEF SearchInv
<1>1. /\ Own(c) /\ conn'[c].pc # "store"
      /\ \/ log' = log
         \/ \E status : /\ status # "success" \/ Request(c).kind # "atomic"
                        /\ log' = log \cup {Entry(c, status)}
  <2>1. ASSUME NEW pc, pc # "store", Goto(c, pc)
        PROVE  Own(c) /\ conn'[c].pc # "store" /\ log' = log
      BY <1>0, <2>1, GotoFields
  <2>2. ASSUME NEW status, Answer(c, status)
        PROVE  Own(c) /\ conn'[c].pc # "store" /\ log' = log \cup {Entry(c, status)}
      BY <1>0, <2>2, AnswerFields
  <2> QED BY <2>1, <2>2
<1>2. Copied(c)'
    BY <1>1 DEF Copied
<1> QED BY <1>1, <1>2, PassiveStep

\* The route of an atomic request.
LEMMA ChangeDispatch ==
    ASSUME SearchInv, HandlerInv, ChangeInv, NEW c \in Clients, AtomicDispatch(c)
    PROVE  ChangeInv'
<1>1. plan' = plan /\ rec' = rec
    BY DEF AtomicDispatch
<1>2. \/ \E pc : pc # "store" /\ Goto(c, pc)
      \/ \E status : status # "success" /\ Answer(c, status)
  <2>1. CASE Fail(c)
      BY <2>1 DEF Fail
  <2>2. CASE Answer(c, "bad_dimension_spec")
      BY <2>2
  <2>3. CASE AtomicRoute(c, Change(c), Request(c).key \in DOMAIN rec)
      BY <2>3 DEF AtomicRoute
  <2> QED BY <2>1, <2>2, <2>3 DEF AtomicDispatch
<1> QED BY <1>1, <1>2, ChangeElse

\* The other requests, and frames.
LEMMA ChangeRest ==
    ASSUME SearchInv, HandlerInv, ChangeInv, NEW c \in Clients,
           \/ \E q \in Plans[plan].menu[c] : Receive(c, q)
           \/ Disconnect(c) \/ Garbled(c) \/ Inspect(c)
           \/ SearchRun(c) \/ SearchInsert(c) \/ SearchResponse(c) \/ SearchStop(c)
    PROVE  ChangeInv'
<1>0. Shaped /\ DOMAIN conn = Clients /\ DOMAIN conn[c] = Fields
    BY DEF SearchInv, Shaped
<1>1. plan' = plan /\ rec' = rec
    BY DEF Receive, Disconnect, Garbled, Inspect, SearchRun, SearchInsert, SearchResponse, SearchStop
<1>2. ASSUME NEW r, DOMAIN r = Fields, r.pc # "store", conn' = [conn EXCEPT ![c] = r],
             \/ log' = log
             \/ \E status : /\ status # "success" \/ Request(c).kind # "atomic"
                            /\ log' = log \cup {Entry(c, status)}
      PROVE  ChangeInv'
  <2>1. Own(c) /\ conn'[c] = r
      BY <1>0, <1>1, <1>2, Replaced
  <2>2. Copied(c)'
      BY <1>2, <2>1 DEF Copied
  <2> QED BY <1>1, <1>2, <2>1, <2>2, PassiveStep
<1>3. ASSUME NEW q \in Plans[plan].menu[c], Receive(c, q) PROVE ChangeInv'
  <2> DEFINE r == [conn[c] EXCEPT !.request = q, !.sent = @ + 1, !.pc = "handle",
                                  !.decoded = Decoded(Schema, RequestOf[q])]
  <2>1. conn' = [conn EXCEPT ![c] = r] /\ log' = log
      BY <1>3 DEF Receive
  <2>2. DOMAIN r = Fields /\ r.pc = "handle"
      BY <1>0 DEF Fields
  <2> HIDE DEF r
  <2> QED BY <1>2, <2>1, <2>2
<1>4. CASE Disconnect(c) \/ Garbled(c)
  <2>1. Goto(c, "closed") \/ Goto(c, "failed")
      BY <1>4 DEF Disconnect, Garbled, Fail
  <2>2. \E pc : pc # "store" /\ Goto(c, pc)
      BY <2>1
  <2> QED BY <1>1, <2>2, ChangeElse
<1>5. CASE Inspect(c)
  <2>1. Request(c).kind # "atomic" /\ ((\E status : Answer(c, status)) \/ Goto(c, "failed"))
      BY <1>5 DEF Inspect, Fail
  <2>2. CASE Goto(c, "failed")
    <3>1. \E pc : pc # "store" /\ Goto(c, pc)
        BY <2>2
    <3> QED BY <1>1, <3>1, ChangeElse
  <2>3. CASE \E status : Answer(c, status)
      BY <1>1, <2>1, <2>3, ChangeElse
  <2> QED BY <2>1, <2>2, <2>3
<1>6. CASE Fail(c)
  <2>1. \E pc : pc # "store" /\ Goto(c, pc)
      BY <1>6 DEF Fail
  <2> QED BY <1>1, <2>1, ChangeElse
<1>7. CASE SearchRun(c) /\ ~Fail(c)
  <2> DEFINE r == [conn[c] EXCEPT !.pc = "insert", !.found = Copies(Matches(Checks(c)))]
  <2>1. conn' = [conn EXCEPT ![c] = r] /\ log' = log
      BY <1>7 DEF SearchRun
  <2>2. DOMAIN r = Fields /\ r.pc = "insert"
      BY <1>0 DEF Fields
  <2> HIDE DEF r
  <2> QED BY <1>2, <2>1, <2>2
<1>8. CASE SearchInsert(c)
  <2> DEFINE r == [conn[c] EXCEPT !.pc = "respond", !.found = <<>>, !.search = "open",
                                  !.under = Request(c).id,
                                  !.matched = [i \in DOMAIN conn[c].found |-> conn[c].found[i].key],
                                  !.received = <<>>]
  <2>1. conn' = [conn EXCEPT ![c] = r] /\ log' = log
      BY <1>8 DEF SearchInsert
  <2>2. DOMAIN r = Fields /\ r.pc = "respond"
      BY <1>0 DEF Fields
  <2> HIDE DEF r
  <2> QED BY <1>2, <2>1, <2>2
<1>9. ASSUME NEW search, NEW received, NEW status, status # "success",
             Responds(c, search, received, status)
      PROVE  ChangeInv'
  <2> DEFINE r == [conn[c] EXCEPT !.pc = "idle", !.search = search, !.received = received]
  <2>1. conn' = [conn EXCEPT ![c] = r] /\ log' = log \cup {Entry(c, status)}
      BY <1>9 DEF Responds
  <2>2. DOMAIN r = Fields /\ r.pc = "idle"
      BY <1>0 DEF Fields
  <2> HIDE DEF r
  <2> QED BY <1>2, <1>9, <2>1, <2>2
<1>10. CASE SearchStop(c)
  <2>1. PICK search : search = IF Request(c).id = conn[c].under THEN "none" ELSE conn[c].search
      OBVIOUS
  <2>2. PICK received, status : received = conn[c].received /\ status = "done"
      OBVIOUS
  <2>3. conn' = [conn EXCEPT ![c].pc = "idle", ![c].search = search]
        /\ log' = log \cup {Entry(c, status)}
      BY <1>10, <2>1, <2>2 DEF SearchStop
  <2>4. Responds(c, search, received, status)
      BY <1>0, <2>2, <2>3 DEF Responds, Fields
  <2> QED BY <1>9, <2>2, <2>4
<1>11. CASE SearchResponse(c) /\ ~Fail(c)
  <2> DEFINE id == Request(c).id
             own == id = conn[c].under
  <2>1. CASE /\ conn' = [conn EXCEPT ![c].pc = "idle",
                                     ![c].search = IF own /\ @ = "open" THEN "done" ELSE @]
             /\ log' = log \cup {Entry(c, "done")}
    <3>1. PICK search, received, status :
             /\ search = IF own /\ conn[c].search = "open" THEN "done" ELSE conn[c].search
             /\ received = conn[c].received /\ status = "done"
        OBVIOUS
    <3>2. conn' = [conn EXCEPT ![c].pc = "idle", ![c].search = search]
          /\ log' = log \cup {Entry(c, status)}
        BY <2>1, <3>1
    <3>3. Responds(c, search, received, status)
        BY <1>0, <3>1, <3>2 DEF Responds, Fields
    <3> QED BY <1>9, <3>1, <3>3
  <2>2. CASE /\ conn' = [conn EXCEPT ![c].pc = "idle",
                                     ![c].received = IF own THEN Append(@, Head(Left(id)).key) ELSE @]
             /\ log' = log \cup {Entry(c, "item")}
    <3>1. PICK search, received, status :
             /\ received = IF own THEN Append(conn[c].received, Head(Left(id)).key)
                           ELSE conn[c].received
             /\ search = conn[c].search /\ status = "item"
        OBVIOUS
    <3>2. conn' = [conn EXCEPT ![c].pc = "idle", ![c].received = received]
          /\ log' = log \cup {Entry(c, status)}
        BY <2>2, <3>1
    <3>3. Responds(c, search, received, status)
        BY <1>0, <3>1, <3>2 DEF Responds, Fields
    <3> QED BY <1>9, <3>1, <3>3
  <2> QED BY <1>11, <2>1, <2>2 DEF SearchResponse
<1> QED BY <1>3, <1>4, <1>5, <1>6, <1>7, <1>8, <1>10, <1>11

\* At the start nothing was changed.
LEMMA ChangeInit == Init => ChangeInv
<1> SUFFICES ASSUME Init PROVE ChangeInv
    OBVIOUS
<1>1. log = {} /\ rec = Initial
    BY DEF Init, Initial
<1>2. ASSUME NEW k PROVE KeyInv(k)
  <2>1. Changes(k) = {}
      BY <1>1 DEF Changes
  <2> QED BY <1>1, <2>1 DEF KeyInv, Same, Counted, Excluded
<1>3. ASSUME NEW c \in Clients PROVE Copied(c)
  <2>1. conn[c].pc = "idle"
      BY DEF Init
  <2> QED BY <2>1 DEF Copied
<1> QED BY <1>2, <1>3 DEF ChangeInv

\* Every step keeps the invariant.
LEMMA ChangeSteps == SearchInv /\ HandlerInv /\ ChangeInv /\ [Next]_vars => ChangeInv'
<1> SUFFICES ASSUME SearchInv, HandlerInv, ChangeInv, [Next]_vars PROVE ChangeInv'
    OBVIOUS
<1>1. CASE UNCHANGED vars
  <2>1. plan' = plan /\ rec' = rec /\ conn' = conn /\ log' = log
      BY <1>1 DEF vars
  <2>2. \A k : Changes(k)' = Changes(k)
      BY <2>1 DEF Changes
  <2>3. ASSUME NEW k \in Keys PROVE KeyInv(k)'
      BY <2>1, <2>2, KeyStays DEF ChangeInv
  <2>4. ASSUME NEW c \in Clients PROVE Copied(c)'
    <3>1. /\ Schema' = Schema /\ Change(c)' = Change(c)
          /\ InitialEntry(Change(c).key)' = InitialEntry(Change(c).key)
        BY <2>1 DEF Schema, Change, InitialEntry, Initial
    <3> QED BY <2>1, <2>2, <3>1 DEF ChangeInv, Copied
  <2> QED BY <2>3, <2>4 DEF ChangeInv
<1>2. CASE Next
  <2>1. PICK c \in Clients :
           \/ \E q \in Plans[plan].menu[c] : Receive(c, q)
           \/ Disconnect(c) \/ Garbled(c)
           \/ AtomicDispatch(c) \/ AtomicChange(c) \/ AtomicPrefetch(c)
           \/ AtomicStore(c) \/ AtomicErase(c)
           \/ SearchRun(c) \/ SearchInsert(c) \/ SearchResponse(c) \/ SearchStop(c)
           \/ Inspect(c)
      BY <1>2 DEF Next
  <2>2. CASE \/ AtomicDispatch(c) \/ AtomicChange(c) \/ AtomicPrefetch(c)
             \/ AtomicStore(c) \/ AtomicErase(c)
      BY <2>2, ChangeDispatch, ChangeChange, ChangePrefetch, ChangeStore, ChangeErase
  <2>3. CASE \/ \E q \in Plans[plan].menu[c] : Receive(c, q)
             \/ Disconnect(c) \/ Garbled(c) \/ Inspect(c)
             \/ SearchRun(c) \/ SearchInsert(c) \/ SearchResponse(c) \/ SearchStop(c)
      BY <2>3, ChangeRest
  <2> QED BY <2>1, <2>2, <2>3
<1> QED BY <1>1, <1>2

\* Every change is in the record.
LEMMA ChangesKept == Spec => [](SearchInv /\ HandlerInv /\ ChangeInv)
<1>1. SearchInv /\ HandlerInv /\ ChangeInv /\ [Next]_vars => ChangeInv'
    BY ChangeSteps
<1>2. QED
    BY <1>1, Invariant, ChangeInit, PTL DEF Spec

\* AddsAccumulate: additions of several clients to one counter all count, whether the
\* record was there or not, and stop at the largest integer, although the existence check
\* of handle_legacy_request and the change of the engine are two steps.
THEOREM AddsCount == Spec => []AddsAccumulate
<1>1. ChangeInv => AddsAccumulate
    BY DEF ChangeInv, KeyInv, Counted, Total, AddsAccumulate
<1>2. QED
    BY <1>1, ChangesKept, PTL

\* CheckedChangesExclude: of the changes that check one value of n and move n away from
\* it, at most one succeeds, in the engine or on the copy of
\* legacy_apply_atomic_direct, whose checks the engine evaluates when the copy is put back.
THEOREM CompareAndSwap == Spec => []CheckedChangesExclude
<1>1. ASSUME HandlerInv, ChangeInv PROVE CheckedChangesExclude
  <2>1. SUFFICES ASSUME IsIntegerN, NEW k \in Keys, OneValue(k)
                 PROVE  Cardinality(Changes(k)) <= 1
      BY DEF CheckedChangesExclude, OneValue
  <2>2. Excluded(k)
      BY <1>1 DEF ChangeInv, KeyInv
  <2>3. CASE Changes(k) = {}
      BY <2>3, FS_EmptySet
  <2>4. CASE Changes(k) # {}
    <3>1. PICK e \in Changes(k) : Changes(k) = {e}
        BY <2>1, <2>2, <2>4 DEF Excluded
    <3> QED BY <3>1, FS_Singleton
  <2> QED BY <2>3, <2>4
<1>2. QED
    BY <1>1, ChangesKept, PTL
===============================================================================
