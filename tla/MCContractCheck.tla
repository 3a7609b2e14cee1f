---------------------------- MODULE MCContractCheck ----------------------------
(* Documents for ContractCheck: every condition of one connective over the    *)
(* interesting leaves, of two over a few of them, and every document a few    *)
(* items away from a good one.                                                *)
EXTENDS ContractCheck

P(name, type) == [name |-> name, type |-> type]
R(name, base, offset, length, access) ==
    [name |-> name, base |-> base, offset |-> offset, length |-> length, access |-> access]
Rel(left, right, require, basis) == [left |-> left, right |-> right, require |-> require, basis |-> basis]
Effect(kind, region, idents) == [kind |-> kind, region |-> region, idents |-> idents]
Block(regions, relations) == Some([regions |-> regions, relations |-> relations])

\* Documents that differ from a good one in the given fields only.
Documents(version, parameters, returns, requires, ensures, effects, memory, target_overrides) ==
    [version : version, parameters : parameters, returns : returns, requires : requires, ensures : ensures,
     effects : effects, memory : memory, target_overrides : target_overrides]
Version == {"0.1"}
Signature == {<<P("p", "ptr"), P("q", "ptr"), P("n", "int")>>}
Result == {<<P("r", "int")>>}
Reads == {<<Effect("memory_read", "index", {"p", "n"})>>}
Nothing == {<<>>}

\* A at p, B beside, inside, around or on it, or behind another pointer.
A(length) == R("A", "p", Quantity(0), length, "read")
B(base, offset, length) == R("B", base, Quantity(offset), length, "write")
Relations == {<<>>, <<Rel("A", "B", "disjoint", "precondition")>>, <<Rel("A", "B", "contains", "precondition")>>,
              <<Rel("B", "A", "equal", "none")>>}
Blocks == {Block(<<A(Quantity(2)), b>>, rels) :
              b \in {B("p", 0, Quantity(2)), B("p", 1, Quantity(1)), B("p", 2, Quantity(1)), B("q", 0, Quantity(1))},
              rels \in Relations}
          \cup {Block(<<A(Word("n")), B(base, 0, Word("n"))>>, <<Rel("A", "B", "disjoint", "precondition")>>) :
                   base \in {"p", "q"}}
          \cup {Block(<<R("A", "p", Quantity(MaxOffset - 1), Quantity(2), "read"), B("p", MaxOffset - 1, Quantity(3))>>,
                      <<Rel("A", "B", "disjoint", "none")>>)}
Promises == {Block(<<A(Quantity(2)), B("q", 1, Quantity(1))>>, <<Rel("A", "B", "disjoint", "precondition")>>),
             Block(<<A(Quantity(2)), B("p", 1, Quantity(1))>>, <<Rel("A", "B", "disjoint", "none")>>)}

Atoms == {Atom(pred, l, r) : pred \in {"disjoint", "equal", "contains"}, l \in {"A"}, r \in {"B"}}
         \cup {Atom("contains", "B", "A"), Atom("disjoint", "p", "B")}
\* Leaves, each a sequence of nodes.
Constant == {<<Bool(TRUE)>>, <<Bool(FALSE)>>}
Bound == <<Ident("n"), Number(1), Cmp("<=", 1, 2)>>
Comparisons == {Bound, <<Number(1), Ident("r"), Cmp("==", 1, 2)>>,
                <<Number(1), Number(2), Cmp("<", 1, 2)>>}
Opaque == {<<Ident("n"), Node("call", <<1>>)>>, <<Node("regions_call", <<>>)>>, <<Ident("q"), Node("construct", <<1>>)>>,
           <<Number(1)>>, <<Ident("r")>>}
Leaves == Constant \cup Comparisons \cup Opaque \cup {<<a>> : a \in Atoms}
Few == Constant \cup {Bound, <<Atom("disjoint", "A", "B")>>}

Shift(e, k) == [i \in DOMAIN e |-> [e[i] EXCEPT !.kids = CASE Len(@) = 0 -> <<>> [] Len(@) = 1 -> <<@[1] + k>>
                                                            [] Len(@) = 2 -> <<@[1] + k, @[2] + k>>]]
Not(e) == Append(e, Node("not", <<Len(e)>>))
Binary(op, l, r) == l \o Shift(r, Len(l)) \o <<Node(op, <<Len(l), Len(l) + Len(r)>>)>>
Connectives == {"and", "or", "implies"}
Pairs(L) == {Binary(op, l, r) : op \in Connectives, l \in L, r \in L}
Nested(L) == {Binary(op, l, r) : op \in Connectives, l \in Pairs(L), r \in L}
             \cup {Binary(op, l, Not(r)) : op \in Connectives, l \in L, r \in L}
             \cup {Not(e) : e \in Pairs(L)}
             \cup {Binary(op, l, r) : op \in Connectives, l \in L, r \in Pairs(L)}

ExprDocuments ==
    Documents(Version, Signature, Result, {<<Bound>>, <<>>}, {<<e>> : e \in Leaves \cup Pairs(Leaves)},
              Nothing, Blocks \cup {None}, Nothing)
    \cup Documents(Version, Signature, Result, Nothing, {<<e>> : e \in Nested(Few)}, Nothing, Promises, Nothing)

\* One item, and one more, away from a good document.
Parameters == {<<P("p", "ptr"), P("q", t), P(name, "int")>> : t \in {"ptr", "bool", "bad"}, name \in {"n", "p"}}
Regions == {<<R("A", base, o, l, access), R(name, "p", Quantity(1), Word("n"), "read")>> :
               base \in {"p", "n", "x"}, o \in {Quantity(0), Quantity(-MaxOffset - 1), Word("n")},
               l \in {Quantity(1), Quantity(-1), Word("n"), Word("q")}, access \in {"read", "execute"}, name \in {"A", "B"}}
BadRelations == {<<Rel("A", right, require, basis)>> : right \in {"B", "C"}, require \in {"disjoint", "apart"},
                                                  basis \in {"none", "precondition", "hope"}} \cup {<<>>}
Texts == {<<>>, <<Unparsable>>, <<<<Ident("x")>>>>, <<<<Ident("r")>>>>, <<<<Atom("disjoint", "A", "C")>>>>}
Effects == {<<Effect("memory_write", "none", {}), Effect(kind, region, ids)>> :
               kind \in {"no_memory", "memory_read"}, region \in {"bare", "index", "bad_index"}, ids \in {{"p"}, {"A"}}}

Shapes ==
    Documents(Version, Parameters, Result, Nothing, Nothing, Reads,
              {Block(rs, rels) : rs \in Regions, rels \in BadRelations}, Nothing)
    \cup Documents({"0.1", "0.2"}, Signature, Result, Texts, Texts, Effects,
                   {None, Block(<<A(Quantity(1))>>, <<>>)}, Nothing)
    \cup Documents(Version, Signature, {<<P(name, t)>> : name \in {"r", "n"}, t \in {"int", "bad"}}, Nothing, Nothing,
                   Reads, {None}, {<<>>, <<[known |-> TRUE]>>, <<[known |-> TRUE], [known |-> FALSE]>>})

MCContracts == ExprDocuments \cup Shapes
MCScalars == {0, 1, 2}
MCAddresses == {0, 2}
MCBindings == {NoBindings, [ints |-> [n |-> 1, r |-> 2], bools |-> <<>>], [ints |-> <<>>, bools |-> [r |-> FALSE]]}
================================================================================
