------------------------------- MODULE MCLayout --------------------------------
(* A small instance of Layout for TLC: every assignment of a few hashes to    *)
(* three daemons for the strategies; spaces of many partitions; definitions   *)
(* in every form; more daemons and attributes than their widths count.        *)
EXTENDS Spaces

Fixed == [replicas |-> 2, key |-> 0, score |-> <<0, 0, 0, 0>>,
          tokens |-> 2, token |-> <<<<0, 0>>, <<0, 0>>, <<0, 0>>, <<0, 0>>>>]

\* Scores that tie; two tokens per node, which collide and lie on either side of the key.
Scores == {[Fixed EXCEPT !.score = <<x, y, z, 0>>, !.replicas = r] :
             x, y, z \in 0..2, r \in {0, 2, 5}}
Pairs == {<<0, 0>>, <<0, 1>>, <<0, 2>>, <<1, 1>>, <<1, 2>>, <<2, 2>>}
Positioned == {[Fixed EXCEPT !.token = <<x, y, z, <<0, 0>>>>, !.key = k] : x, y, z \in Pairs, k \in 0..3}

Request(via, body) == [via |-> via, body |-> body]
Attribute(name, kind) == [name |-> name, kind |-> kind]
Abc == <<Attribute("a", <<"int">>), Attribute("b", <<"float">>), Attribute("c", <<"bytes">>)>>
Of(subspaces, partitions, f) ==
    Request("control", Space("s", "k", Abc, subspaces, f, partitions))
Spaces ==
    {Of(<<>>, p, f) : p \in 1..9 \cup {12, 16}, f \in 0..2}
    \cup {Of(<<<<"a", "b">>, <<"a", "b", "c">>>>, p, 1) : p \in 1..9 \cup {16, 27}}

\* Type expressions and kinds, also ones that clients cannot be told of.
Kinds ==
    LET flat == {<<"bool">>, <<"int">>, <<"bytes">>, <<"timestamp(", "day">>}
        nested == {<<"list(", x>> : x \in flat} \cup {<<"map(", x, y>> : x, y \in flat}
    IN  flat \cup nested \cup {<<"set(", x>> : x \in nested}
        \cup {<<"map(", x, <<"int">>>> : x \in nested}
Written ==
    {<<>>, <<"int64">>, <<"word">>, <<"list(", "int">>, <<"map(", "int", ")">>, <<"set(", ")">>,
     <<"map(", "list(", "int", ")", ",", "string", ")">>, <<"timestamp(", "year", ")">>,
     <<"timestamp(", "week", ")">>, <<"map(", "int", ",", "int", ",", "int", ")">>}
Controls == {Request("control", Space("s", "k", <<Attribute("a", x)>>, sub, 0, p)) :
               x \in Kinds, sub \in {<<>>, <<<<"a", "k">>>>, <<<<"z">>, <<>>>>}, p \in {0, 2}}

Named == <<Line("space", "s"), Line("key", "k"), Line("attributes", <<>>)>>
Typed(type, name) == Line("definition", [type |-> type, name |-> name])
Schemas ==
    {Named \o <<Typed(x, "a"), Line("subspace", <<"a", "">>), Typed(<<"word">>, "b"),
                Line("tolerate", f), Line("create", p)>> : x \in Written, f \in {1, MaxU32 + 1}, p \in {0, 3, MaxU32 + 1}}
    \cup {Named, Tail(Named) \o <<Typed(<<"int">>, "a")>>,
          Named \o <<Typed(<<"int">>, "a"), Line("key", "j"), Line("create", 2)>>}
Dsl == {Request("dsl", lines) : lines \in Schemas}

\* Every code as the datatype of an attribute, beside a secret or an index.
Packed(attrs, subspaces, indices, f) ==
    Request("packed", [name |-> "s", attrs |-> attrs, subspaces |-> subspaces,
                       indices |-> indices, fault_tolerance |-> f])
Field(name, dt) == [name |-> name, datatype |-> dt]
Sub(attrs, regions) == [attrs |-> attrs, regions |-> regions]
Key == Field("k", 9218)
Codes == {Packed(<<Key, Field("a", dt)>>, <<Sub(<<0>>, 2)>>, <<>>, 0) :
            dt \in 9216..9300 \cup 9340..9480 \cup {9664}}
Shapes ==
    {Packed(<<Key, Field(secret, 9664), Field("b", 9217)>>, subs, indices, f) :
        secret \in {"__secret", "x"}, f \in {1, MaxU32 + 1},
        subs \in {<<>>, <<Sub(<<0>>, 0)>>, <<Sub(<<0>>, 2), Sub(<<1, 2>>, 2), Sub(<<0, 1>>, 2)>>,
                  <<Sub(<<0>>, 2), Sub(<<2, 0>>, 3)>>, <<Sub(<<0>>, 2), Sub(<<3>>, 2)>>,
                  <<Sub(<<0>>, 3), Sub(<<2, 2>>, 3)>>},
        indices \in {<<>>, <<[type |-> 1, attr |-> 2]>>, <<[type |-> 2, attr |-> 0]>>}}
    \cup {Packed(<<>>, <<>>, <<>>, 0), Packed(<<Field("__secret", 9664)>>, <<>>, <<>>, 0)}

\* One too many of what a u16 counts, and packed spaces on up to every daemon.
Wide ==
    {Request("control", Space("s", "k", attributes, subspaces, 0, 2)) :
        attributes \in {Abc, Append(Abc, Attribute("d", <<"int">>))},
        subspaces \in {<<>>, <<<<"a">>, <<"b">>, <<"c">>>>, <<<<"a">>, <<"b">>, <<"c">>, <<"a">>>>,
                       <<<<"a", "b", "c", "a", "b">>>>}}
Replicated ==
    {Packed(<<Key, Field("a", 9217)>>, <<Sub(<<0>>, p), Sub(<<1>>, p)>>, <<>>, f) :
        p \in {1, 3}, f \in {1, 2, 3}}

Three == {1, 2, 3}
Hashings == Scores \cup Positioned
Forms == Controls \cup Dsl \cup Codes \cup Shapes
Starts ==
    <<[hashes |-> Hashings, requests |-> {}, nodes |-> Three, hosts |-> {"address"}],
      [hashes |-> {Fixed}, requests |-> Spaces, nodes |-> Three, hosts |-> {"address"}],
      [hashes |-> {Fixed}, requests |-> Forms, nodes |-> {2}, hosts |-> {"address", "name"}],
      [hashes |-> {Fixed}, requests |-> Wide \cup Replicated, nodes |-> NodeIds, hosts |-> {"address"}]>>
===============================================================================
