-------------------------------- MODULE Spaces ---------------------------------
(* The spaces of a Layout as clients and administrators see them: the forms a *)
(* definition comes in, and what comes back of it.                            *)
EXTENDS Layout, Schema

\* The forms of a definition: CreateSpaceDsl, the space_add of a legacy administrator,
\* and the space_add of a control connection, which is taken as it is.
DefinitionOf(request) ==
    {CASE request.via = "dsl" -> ParseSpace(request.body)
       [] request.via = "packed" -> DecodePacked(request.body)
       [] request.via = "control" -> request.body} \ {Invalid}

\* A space that a legacy administrator adds never keeps clients from their configuration
\* (unless a key has more daemons than a u8 counts), and they see it as it was sent: every attribute but the secret, with its datatype, and
\* of every subspace but the key's the attributes that are left.  Two crates have the
\* tables of codes.  Some codes come back as another one for the same type: the key's as
\* a string, seconds as the generic time, lists and sets without the bits of a map's key.
SeenDatatype(i, attr) ==
    LET dt == attr.datatype
    IN  CASE i = 1 -> PrimitiveBase + 1
          [] i > 1 /\ dt \in ListGeneric .. MapGeneric - 1 -> 64 * (dt \div 64) + (dt % 8)
          [] i > 1 /\ dt = TimestampGeneric + 1 -> TimestampGeneric
          [] OTHER -> dt
PackedSpacesComeBack ==
    (space # NoSpace /\ space.request.via = "packed") =>
        LET packed == space.request.body
            public == SelectSeq([i \in DOMAIN packed.attrs |-> i],
                                LAMBDA i : ~IsSecret(packed.attrs[i]))
            seen == EncodedAttributes(space.def)
            sent == SelectSeq([i \in 1..(Len(packed.subspaces) - 1) |->
                                 {packed.attrs[k + 1].name : k \in ToSet(packed.subspaces[i + 1].attrs)}
                                 \ {packed.attrs[1].name, Secret}],
                              LAMBDA names : names # {})
        IN  /\ LocationsEncode /\ CountOf(space.def) <= MaxU8 => Encodes
            /\ seen = [i \in DOMAIN public |->
                         [name |-> packed.attrs[public[i]].name,
                          datatype |-> SeenDatatype(public[i], packed.attrs[public[i]])]]
            /\ Tail([i \in DOMAIN EncodedSubspaces(space.def) |->
                       {seen[k + 1].name : k \in ToSet(EncodedSubspaces(space.def)[i])}]) = sent

\* Every definition that was accepted in any form, nested types included, can be written
\* in the schema language and read back (if it has attributes, and no subspace without
\* dimensions).
SchemaRoundTrips ==
    space # NoSpace =>
        \/ space.def.attributes = <<>> \/ <<>> \in ToSet(space.def.subspaces)
        \/ ParseSpace(FormatSpace(space.def)) = space.def
===============================================================================
