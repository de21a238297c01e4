--------------------------- MODULE MCLegacyRequests ----------------------------
(* A small instance of LegacyRequests for TLC: two clients whose atomic       *)
(* requests and searches race; one client that goes through the function      *)
(* calls on attributes of every kind; the named format; a timestamp.          *)
EXTENDS LegacyRequests

CONSTANTS a, b, c1, c2

T(x) == <<<<"c", x>>>>
I(i) == <<<<"i", i>>>>
F(i) == <<<<"f", i>>>>
S(x) == <<<<"s", T(x)>>>>

Call(attr, name, arg1, dt1) == Funcall(attr, name, arg1, dt1, <<>>, None)
OnInt(name, i) == Call("n", name, I(i), KInt)
Eq(attr, dt, value) == Check(attr, "eq", dt, value)

Atomic(k, checks, funcalls) ==
    [kind |-> "atomic", format |-> "protocol", key |-> k, erase |-> FALSE,
     fail_if_found |-> FALSE, fail_if_not_found |-> FALSE,
     checks |-> checks, funcalls |-> funcalls]
Alter(k, f) == Atomic(k, <<>>, <<f>>)
If2(k, f) == Atomic(k, <<Eq("n", KInt, I(2))>>, <<f>>)
Insert(k, fs) == [Atomic(k, <<>>, fs) EXCEPT !.fail_if_found = TRUE]
Update(k, fs) == [Atomic(k, <<>>, fs) EXCEPT !.fail_if_not_found = TRUE]
Erase(k, checks, fs) == [Atomic(k, checks, fs) EXCEPT !.erase = TRUE]
Start(format, id, checks) == [kind |-> "start", format |-> format, id |-> id, checks |-> checks]
On(kind, id) == [kind |-> kind, id |-> id]
Get(format, k) == [kind |-> "get", format |-> format, key |-> k]
Count(format, checks) == [kind |-> "count", format |-> format, checks |-> checks]

\* The races: the first client adds and swaps, or searches; the second does anything,
\* or searches and changes records.  Key 1 holds n = 2, one below the largest integer.
First == <<Alter(1, OnInt("num_add", 1)), Alter(3, OnInt("num_add", 1)),
           If2(1, OnInt("num_div", -1)), Start("protocol", 1, <<>>), On("next", 1), On("stop", 1),
           Start("protocol", 3, <<Eq("n", KInt, I(2))>>), On("next", 3)>>
Second == <<Alter(1, OnInt("num_add", 1)), Alter(3, OnInt("num_add", 1)),
            If2(1, OnInt("set", 3)), If2(1, OnInt("num_div", 2)),
            Alter(2, OnInt("num_div", 0)), If2(3, OnInt("set", 1)),
            Update(1, <<Call("items", "set_add", T(b), KString)>>), Update(3, <<>>),
            Insert(2, <<OnInt("set", 1)>>), Insert(3, <<>>), Erase(1, <<>>, <<>>),
            Erase(1, <<Eq("n", KInt, I(2))>>, <<>>), Erase(2, <<>>, <<OnInt("set", 1)>>),
            Start("protocol", 2, <<Eq("key", KString, T(a))>>), On("next", 2), On("stop", 2),
            Get("protocol", 3), Count("protocol", <<>>), [kind |-> "garbled"], [kind |-> "other"]>>

\* One client: function calls on every kind, valid or not, one or two to a request.
OnMap(attr, name, arg1, dt1, key, kdt) == Funcall(attr, name, arg1, dt1, key, kdt)
Calls ==
    <<OnInt("set", 1), OnInt("num_add", 2), OnInt("num_sub", 3), OnInt("num_mul", -2),
      OnInt("num_div", -1), OnInt("num_mod", -3), OnInt("num_and", -2), OnInt("num_or", 1),
      OnInt("num_xor", 3), OnInt("num_max", 3), OnInt("num_min", -4), OnInt("num_mod", 0),
      Call("n", "num_add", F(1), KFloat), Call("n", "num_max", F(1), KFloat),
      Call("n", "num_add", T(a), KInt), Call("n", "num_add", T(a), KString),
      Call("n", "set", F(1), KFloat), Funcall("n", "set", I(1), KInt, I(1), KInt),
      Call("n", "set_union", I(1), KInt), Call("n", "string_append", T(a), KString),
      Call("w", "set", F(1), KFloat), Call("w", "num_div", I(0), KInt), Call("w", "num_or", F(1), KFloat),
      Call("w", "num_add", F(1), KFloat), Call("w", "num_max", I(1), KInt),
      Call("t", "set", T(a), KString), Call("t", "string_append", T(b), KString),
      Call("t", "string_prepend", T(b), KString), Call("t", "string_ltrim", T(a), KString),
      Call("t", "string_rtrim", T(b), KString), Call("t", "num_add", I(1), KInt),
      Call("l", "set", I(1) \o I(2), KList(KInt)), Call("l", "list_lpush", I(3), KInt),
      Call("l", "list_rpush", I(3), KInt), Call("l", "list_rpush", T(a), KString),
      Call("l", "set", T(a), KList(KInt)),
      Call("y", "list_rpush", I(1), KList(KInt)), Call("y", "set_union", I(1), KList(KInt)),
      Call("s", "set", S(a) \o S(b) \o S(a), KSet(KString)), Call("s", "set_add", T(b), KString),
      Call("s", "set_remove", T(a), KString), Call("s", "set_union", S(b), KSet(KString)),
      Call("s", "set_intersect", S(b), KSet(KString)), Call("s", "list_lpush", T(a), KString),
      Call("m", "set", S(a) \o I(1) \o S(a) \o I(2), KMap(KString, KInt)),
      Call("m", "set", S(a), KMap(KString, KInt)),
      OnMap("m", "map_add", I(3), KInt, T(b), KString),
      OnMap("m", "num_add", I(2), KInt, T(b), KString),
      OnMap("m", "num_div", I(0), KInt, T(a), KString),
      OnMap("m", "string_append", T(a), KString, T(a), KString),
      Funcall("m", "map_remove", <<>>, None, T(a), KString),
      OnMap("m", "map_remove", I(1), KInt, T(a), KString),
      OnMap("v", "num_add", I(1), KInt, I(1), KInt), OnMap("v", "map_add", F(1), KFloat, I(2), KInt),
      OnMap("v", "num_xor", I(1), KInt, I(1), KInt),
      OnMap("x", "string_append", T(b), KString, I(1), KInt),
      OnMap("x", "string_ltrim", T(b), KString, I(1), KInt),
      OnMap("x", "map_add", T(a), KString, I(1), KInt),
      Call("d", "set", T(a), KDocument), Call("key", "set", T(a), KBytes),
      Call("other", "set", I(1), KInt), Call("n", "doc_unset", I(1), KInt)>>
Single == [i \in DOMAIN Calls |-> Alter(1, Calls[i])]
Double == <<Atomic(1, <<>>, <<OnInt("num_add", 2), OnInt("num_mul", 3)>>),
            Atomic(1, <<>>, <<Call("t", "set", T(b), KString), OnInt("num_xor", -1)>>),
            Atomic(1, <<>>, <<OnInt("set", 3), Call("w", "num_add", I(1), KInt)>>),
            Atomic(1, <<>>, <<Call("t", "set", T(b), KString), OnInt("num_div", 0)>>),
            Atomic(1, <<Check("n", "lt", KInt, I(2))>>, <<OnInt("num_add", 1)>>),
            Atomic(1, <<Check("n", "gt", KInt, I(0))>>, <<Call("l", "list_lpush", I(0), KInt)>>),
            Atomic(1, <<Check("t", "ge", KString, T(a))>>, <<OnInt("set", -4)>>),
            Atomic(1, <<Check("t", "eq", KInt, I(1))>>, <<OnInt("set", 0)>>),
            Atomic(1, <<Check("n", "regex", KInt, I(1))>>, <<OnInt("set", 0)>>),
            Erase(1, <<>>, <<>>), Get("protocol", 1),
            Start("protocol", 1, <<Check("t", "le", KInt, I(1))>>),
            Start("protocol", 1, <<Check("n", "eq", KInt, <<>>)>>),
            Count("protocol", <<Check("n", "regex", KInt, I(1))>>), On("next", 1)>>

\* Named requests: the value of an argument is a GetValue.
Named(k, checks, funcalls) == [Atomic(k, checks, funcalls) EXCEPT !.format = "named"]
Name(attr, name, arg1, arg2) == [attr |-> attr, name |-> name, arg1 |-> arg1, arg2 |-> arg2]
By(attr, predicate, value) == [attr |-> attr, predicate |-> predicate, value |-> value]
Str(x) == <<"string", T(x)>>
NamedRequests ==
    <<Named(1, <<>>, <<Name("n", "num_add", Number(1), Absent)>>),
      Named(1, <<By("n", "eq", Number(2))>>, <<Name("t", "string_append", Str(b), Absent)>>),
      Named(1, <<>>, <<Name("t", "set", Bytes(T(a)), Absent)>>),
      Named(1, <<>>, <<Name("n", "set", <<"null", Absent>>, Absent)>>),
      Named(1, <<>>, <<Name("l", "list_rpush", Number(1), Absent)>>),
      Named(1, <<>>, <<Name("s", "set_add", Str(b), Absent)>>),
      Named(1, <<>>, <<Name("m", "map_add", Number(1), Str(b))>>),
      Named(1, <<>>, <<Name("m", "map_add", Number(1), Absent)>>),
      Named(1, <<>>, <<Name("m", "map_remove", Str(b), Absent)>>),
      Named(1, <<>>, <<Name("key", "set", Str(a), Absent)>>),
      Start("named", 1, <<By("t", "eq", Str(a))>>), Start("named", 1, <<By("n", "eq", Number(2))>>),
      Start("named", 1, <<By("n", "eq", Str(a))>>), On("next", 1),
      Start("named", 1, <<By("key", "eq", Str(a))>>),
      Count("named", <<By("n", "eq", Str(a))>>), Get("named", 1)>>

AllRequests == First \o Second \o Single \o Double \o NamedRequests
Numbers(from, list) == (Len(from) + 1)..(Len(from) + Len(list))
Changing == 1..3
Searching == 4..8
SecondMenu == Numbers(First, Second)
Disturbing == {q \in SecondMenu : AllRequests[q].kind \in {"start", "next", "stop"}
                                   \/ AllRequests[q] \in {Alter(1, OnInt("num_add", 1)),
                                        Alter(3, OnInt("num_add", 1)), Erase(1, <<>>, <<>>)}}
CallMenu == Numbers(First \o Second, Single \o Double)
NestedMenu == {q \in CallMenu : \/ AllRequests[q].kind # "atomic" \/ AllRequests[q].erase
                              \/ AllRequests[q].funcalls[1].attr \in {"t", "y"}}
NamedMenu == Numbers(First \o Second \o Single \o Double, NamedRequests)

Texts3 == <<T(a), T(a) \o T(b), T(b)>>
Pair == [key |-> Bytes(Texts3[1]), n |-> Number(2), items |-> <<"set", {Bytes(T(a))}>>]
Bare == [key |-> Bytes(Texts3[2])]
Full == [key |-> Bytes(Texts3[1]), n |-> Number(2), w |-> Float, t |-> Bytes(T(a)), l |-> <<"list", <<Number(1)>>>>,
         s |-> <<"set", {Bytes(T(a))}>>, m |-> <<"map", [k \in {Bytes(T(a))} |-> Number(1)]>>]
Plain == [key |-> Bytes(Texts3[1]), n |-> Number(2), t |-> Bytes(T(a))]
EveryKind ==
    [n |-> KInt, w |-> KFloat, t |-> KString, l |-> KList(KInt), s |-> KSet(KString),
     m |-> KMap(KString, KInt), v |-> KMap(KInt, KFloat), x |-> KMap(KInt, KString), d |-> KDocument]

Of(m1, m2) == [c \in Clients |-> IF c = c1 THEN m1 ELSE m2]
Race(m1, n1, m2, n2) ==
    [schema |-> [n |-> KInt, items |-> KSet(KString)], initial |-> <<Pair, Bare>>,
     menu |-> Of(m1, m2), limit |-> Of(n1, n2)]
Alone(schema, r, menu, n) ==
    [schema |-> schema, initial |-> r, menu |-> Of(menu, {}), limit |-> Of(n, 0)]
Scenarios ==
    <<Race(Changing, 2, SecondMenu, 2), Race(Searching, 3, Disturbing, 2),
      Alone(EveryKind, <<Full>>, CallMenu, 2),
      Alone(EveryKind, <<>>, CallMenu, 2),
      Alone(EveryKind, <<Full>>, NamedMenu, 2),
      Alone([n |-> KInt, t |-> KString], <<Plain>>, NamedMenu, 3),
      Alone([n |-> KInt, t |-> KTimestamp, y |-> KList(KList(KInt))], <<>>, NestedMenu, 2)>>

\* The values of the constants.  (TLC evaluates a definition once, and the body of one that
\* replaces a constant every time.)
MCRequestOf == AllRequests
MCKeyBytes == Texts3
MCPlans == Scenarios
===============================================================================
