---------------------------- MODULE ContractCheck ----------------------------
(***************************************************************************)
(* From a contract document to its expression evidence: validate_document  *)
(* (crates/semasm-contract/src/validate.rs) item by item, errors kept and  *)
(* the walk continued; then, of an accepted contract, the alias report and *)
(* the judgement of every condition, as agent verify asks for them         *)
(* (crates/semasm-cli/src/commands.rs).                                    *)
(*                                                                         *)
(* A text is what its parser makes of it: a type is "ptr", "int", "bool"   *)
(* or "bad", an expression its nodes or Unparsable, an offset or a length  *)
(* a number or a word.  Spans, messages and free-form fields are left out. *)
(***************************************************************************)
EXTENDS ContractExpr

CONSTANTS
    Contracts,   \* contract documents
    Scalars,     \* values of integers a caller may pass
    Addresses,   \* values of pointers a caller may pass
    BindingSets  \* ExprBindings a caller of the crate may give

ASSUME ContractAssumption == Scalars \subseteq Int /\ Addresses \subseteq Nat

ASSUME BindingAssumption ==
    \A b \in BindingSets : /\ \A x \in DOMAIN b.ints : b.ints[x] \in Int
                           /\ \A x \in DOMAIN b.bools : b.bools[x] \in BOOLEAN

\* What the parsers of TOML and of expressions leave of a document: every list is
\* a sequence, and a condition that has nodes is a tree of them.
ASSUME DocumentAssumption ==
    \A d \in Contracts :
        /\ \A list \in {"parameters", "returns", "requires", "ensures", "effects", "target_overrides"} :
              Len(d[list]) \in Nat /\ DOMAIN d[list] = 1..Len(d[list])
        /\ \A list \in {"requires", "ensures"} : \A i \in DOMAIN d[list] :
              d[list][i] = <<>> \/ Parsed(d[list][i])
        /\ d.memory.some =>
              \A list \in {"regions", "relations"} :
                  Len(d.memory.x[list]) \in Nat /\ DOMAIN d.memory.x[list] = 1..Len(d.memory.x[list])

VARIABLES
    doc, bindings,
    phase, at,    \* the list being walked and the position in it
    names,        \* parameters and returns seen
    regionNames,  \* regions seen
    checked,      \* what has been accepted so far
    diagnostics,  \* codes of the errors
    contract,     \* the CheckedContract, if there is one
    alias,        \* its alias report, if the target has one
    rows,         \* ContractExprEvidence, in order
    status        \* of the slice

vars == <<doc, bindings, phase, at, names, regionNames, checked, diagnostics, contract, alias, rows, status>>
walk == <<names, regionNames, checked, diagnostics>>
outcome == <<contract, alias, rows, status>>

None == [some |-> FALSE]
Some(x) == [some |-> TRUE, x |-> x]
Unparsable == <<>>
Quantity(n) == [t |-> "number", n |-> n, word |-> ""]
Word(word) == [t |-> "word", n |-> 0, word |-> word]

Lists == <<"parameters", "returns", "requires", "ensures", "effects", "regions", "relations", "target_overrides">>
Items(list) == IF list \in {"regions", "relations"}
               THEN IF doc.memory.some THEN doc.memory.x[list] ELSE <<>>
               ELSE doc[list]

Init ==
    /\ doc \in Contracts /\ bindings \in BindingSets
    /\ phase = "version" /\ at = 1 /\ names = {} /\ regionNames = {} /\ diagnostics = {}
    /\ checked = [list \in Range(Lists) \ {"effects"} |-> <<>>]
    /\ contract = None /\ alias = NoAlias /\ rows = <<>> /\ status = "pending"

-----------------------------------------------------------------------------
(* validate_document *)

CheckVersion ==
    /\ phase = "version"
    /\ IF doc.version = "0.1" THEN phase' = "parameters" /\ UNCHANGED diagnostics
       ELSE phase' = "conclude" /\ diagnostics' = {"CTR001"}
    /\ UNCHANGED <<doc, bindings, at, names, regionNames, checked, outcome>>

item == Items(phase)[at]
Walk(list) ==
    /\ phase = list /\ at <= Len(Items(list)) /\ at' = at + 1
    /\ UNCHANGED <<doc, bindings, phase, outcome>>
Report(codes) == diagnostics' = diagnostics \cup codes
If(b, code) == IF b THEN {code} ELSE {}
Keep(list, b, x) == checked' = IF b THEN [checked EXCEPT ![list] = Append(@, x)] ELSE checked

CheckParameter ==
    /\ Walk("parameters")
    /\ names' = names \cup {item.name}
    /\ Report(If(item.name \in names, "CTR002") \cup If(item.type = "bad", "CTR003"))
    /\ Keep("parameters", item.type # "bad", item) /\ UNCHANGED regionNames

CheckReturn ==
    /\ Walk("returns")
    /\ names' = names \cup {item.name}
    /\ Report(If(item.type = "bad", "CTR003"))
    /\ Keep("returns", item.type # "bad", item) /\ UNCHANGED regionNames

expr_names == names \cup {"regions"} \cup {r.name : r \in Range(Items("regions"))}

\* A condition with unknown identifiers is kept: the error rejects the whole.
check_condition(e) ==
    If(e = Unparsable, "CTR004") \cup If(e # Unparsable /\ ~(free_idents(e) \subseteq expr_names), "CTR005")

CheckRequire == /\ Walk("requires") /\ Report(check_condition(item))
                /\ Keep("requires", item # Unparsable, item) /\ UNCHANGED <<names, regionNames>>
CheckEnsure == /\ Walk("ensures") /\ Report(check_condition(item))
               /\ Keep("ensures", item # Unparsable, item) /\ UNCHANGED <<names, regionNames>>

\* An indexed region is parsed as an expression, any other text is accepted;
\* the kinds are compared once all are seen.
check_effects ==
    LET kinds == {doc.effects[i].kind : i \in DOMAIN doc.effects} IN
    If(item.region = "bad_index", "CTR004")
    \cup If(item.region = "index" /\ ~(item.idents \subseteq names), "CTR005")
    \cup If(at = Len(doc.effects) /\ "no_memory" \in kinds /\ kinds \cap {"memory_read", "memory_write"} # {},
            "CTR006")

CheckEffect == Walk("effects") /\ Report(check_effects) /\ UNCHANGED <<names, regionNames, checked>>

\* The type of the first parameter of that name.
TypeOf(name) ==
    LET named == {i \in DOMAIN checked.parameters : checked.parameters[i].name = name}
    IN  IF named = {} THEN "none"
        ELSE checked.parameters[CHOOSE i \in named : \A j \in named : i <= j].type

parse_i64_literal(raw) == raw.t = "number" /\ raw.n \in -MaxOffset..MaxOffset
parse_u64_literal(raw) == raw.t = "number" /\ raw.n \in 0..(2 * MaxOffset + 1)
parse_length_spec(raw) == parse_u64_literal(raw) \/ (raw.t = "word" /\ TypeOf(raw.word) = "int")

CheckedRegion(r) ==
    [name |-> r.name, base_param |-> r.base, offset |-> r.offset.n, access |-> r.access,
     length |-> IF r.length.t = "number" THEN Literal(r.length.n) ELSE Param(r.length.word)]

ValidRegion == /\ item.name \notin regionNames /\ TypeOf(item.base) = "ptr"
               /\ parse_i64_literal(item.offset) /\ parse_length_spec(item.length)
               /\ item.access \in {"read", "write", "read_write"}

\* Mutant: a region that is not valid is left out without a diagnostic.
MutSkipRegion ==
    /\ Walk("regions")
    /\ regionNames' = regionNames \cup {item.name}
    /\ Keep("regions", ValidRegion, CheckedRegion(item)) /\ UNCHANGED <<names, diagnostics>>

\* The name counts as seen whatever becomes of the region.
CheckRegion ==
    /\ Walk("regions")
    /\ regionNames' = regionNames \cup {item.name}
    /\ Report(If(~ValidRegion, "CTR008"))
    /\ Keep("regions", ValidRegion, CheckedRegion(item)) /\ UNCHANGED names

CheckRelation ==
    LET valid == /\ {item.left, item.right} \subseteq regionNames
                 /\ item.require \in {"disjoint", "equal", "contains"}
                 /\ item.basis \in {"none", "precondition"}
    IN
    /\ Walk("relations")
    /\ Report(If(~valid, "CTR008"))
    /\ Keep("relations", valid, item) /\ UNCHANGED <<names, regionNames>>

CheckOverride ==
    /\ Walk("target_overrides")
    /\ Report(If(~item.known, "CTR007"))
    /\ Keep("target_overrides", item.known, item) /\ UNCHANGED <<names, regionNames>>

EndOfList ==
    \E i \in DOMAIN Lists :
        /\ phase = Lists[i] /\ at > Len(Items(phase)) /\ at' = 1
        /\ phase' = IF i = Len(Lists) THEN "conclude" ELSE Lists[i + 1]
        /\ UNCHANGED <<doc, bindings, walk, outcome>>

Conclude ==
    /\ phase = "conclude"
    /\ IF diagnostics # {} THEN phase' = "done" /\ UNCHANGED contract
       ELSE /\ phase' = "alias"
            /\ contract' = Some(checked)
    /\ UNCHANGED <<doc, bindings, at, walk, alias, rows, status>>

-----------------------------------------------------------------------------
(* The evidence of an accepted contract. *)

\* No alias report without a memory block, nor where static analysis is off.
EvaluateAlias ==
    /\ phase = "alias" /\ phase' = "evaluate"
    /\ \/ alias' = NoAlias
       \/ doc.memory.some /\ alias' = evaluate_alias(contract.x, <<>>)
    /\ UNCHANGED <<doc, bindings, at, walk, contract, rows, status>>

integer_param_names == {p.name : p \in {x \in Range(contract.x.parameters) : x.type = "int"}}

conditions == contract.x.requires \o contract.x.ensures

EvaluateCondition ==
    LET role == IF at <= Len(contract.x.requires) THEN "requires" ELSE "ensures" IN
    /\ phase = "evaluate" /\ at <= Len(conditions) /\ at' = at + 1
    /\ rows' = Append(rows, eval_condition(role, conditions[at], contract.x.relations, alias, bindings,
                                         integer_param_names))
    /\ UNCHANGED <<doc, bindings, phase, walk, contract, alias, status>>

Aggregate ==
    /\ phase = "evaluate" /\ at > Len(conditions) /\ phase' = "done"
    /\ status' = ExprStatus(rows)
    /\ UNCHANGED <<doc, bindings, at, walk, contract, alias, rows>>

Done == phase = "done" /\ UNCHANGED vars

Next ==
    \/ CheckVersion \/ CheckParameter \/ CheckReturn \/ CheckRequire \/ CheckEnsure \/ CheckEffect
    \/ CheckRegion \/ CheckRelation \/ CheckOverride \/ EndOfList \/ Conclude
    \/ EvaluateAlias \/ EvaluateCondition \/ Aggregate \/ Done

Spec == Init /\ [][Next]_vars

-----------------------------------------------------------------------------
(* What an accepted contract and its evidence mean. *)

NamesOf(list) == {x.name : x \in Range(contract.x[list])}
OfType(type) == {p.name : p \in {x \in Range(contract.x.parameters) : x.type = type}}

\* An accepted contract is the whole document, and every name in it resolves:
\* identifiers of conditions are declared, regions lie behind one pointer
\* parameter each, have a length the caller passes or a literal, names of
\* their own, and both ends of every relation are among them.  The walk goes
\* on past errors and counts a region as named before it is valid, so nothing
\* but the final test of the diagnostics keeps a dropped region from a report
\* (AliasRelationEvidence would be invalid_region).
AcceptedContractResolves ==
    contract.some =>
        /\ \A list \in DOMAIN checked : Len(contract.x[list]) = Len(Items(list))
        /\ Cardinality(NamesOf("parameters")) = Len(contract.x.parameters)
        /\ Cardinality(NamesOf("regions")) = Len(contract.x.regions)
        /\ \A e \in Range(conditions) :
              free_idents(e) \subseteq NamesOf("parameters") \cup NamesOf("returns") \cup NamesOf("regions") \cup {"regions"}
        /\ \A r \in Range(contract.x.regions) :
              r.base_param \in OfType("ptr") /\ (r.length.t = "param" => r.length.name \in OfType("int"))
        /\ \A rel \in Range(contract.x.relations) : {rel.left, rel.right} \subseteq NamesOf("regions")

\* A call: the values of pointers, of integers and of whatever else is bound, and of whatever the expression
\* language does not give a meaning.
Calls(e) ==
    [ptr : [OfType("ptr") -> Addresses],
     int : {v \in [OfType("int") \cup DOMAIN bindings.ints -> Scalars] : \A x \in DOMAIN bindings.ints : v[x] = bindings.ints[x]},
     other : [{i \in DOMAIN e : e[i].op \notin {"bool", "int", "not", "and", "or", "implies"}} -> BOOLEAN]]

Span(call, name) ==
    LET r == RegionNamed(contract.x, name)
        from == call.ptr[r.base_param] + r.offset
    IN  from..(from + (IF r.length.t = "literal" THEN r.length.n ELSE call.int[r.length.name]) - 1)
Related(call, pred, left, right) ==
    CASE pred = "disjoint" -> Span(call, left) \cap Span(call, right) = {}
      [] pred = "equal" -> Span(call, left) = Span(call, right)
      [] pred = "contains" -> Span(call, right) \subseteq Span(call, left)

\* The value of an integer operand, if the language gives it one.
IntOf(call, node) ==
    CASE node.op = "int" -> <<node.n>>
      [] node.op = "ident" /\ node.name \in DOMAIN call.int -> <<call.int[node.name]>>
      [] OTHER -> <<>>

\* One node, from the truth of the nodes before it; a number is no condition.
TruthOf(call, e, holds, i) ==
    LET node == e[i]
        l == node.kids[1]
        r == node.kids[2]
        closed == IntOf(call, e[l]) # <<>> /\ IntOf(call, e[r]) # <<>>
    IN  CASE node.op = "bool" -> node.v
          [] node.op = "int" -> FALSE
          [] node.op = "ident" /\ node.name \in DOMAIN bindings.bools -> bindings.bools[node.name]
          [] node.op = "not" -> ~holds[l]
          [] node.op = "and" -> holds[l] /\ holds[r]
          [] node.op = "or" -> holds[l] \/ holds[r]
          [] node.op = "implies" -> (holds[l] => holds[r])
          [] node.op = "cmp" /\ closed -> Compare(node.rel, IntOf(call, e[l])[1], IntOf(call, e[r])[1])
          [] node.op = "atom" /\ {node.left, node.right} \subseteq NamesOf("regions") ->
                Related(call, node.pred, node.left, node.right)
          [] OTHER -> call.other[i]

Truth(call, e) == LET holds[i \in DOMAIN e] == TruthOf(call, e, holds, i) IN holds
Meaning(call, e) == Truth(call, e)[Len(e)]

\* What the caller has promised: the obligations of the alias report and the
\* bounds among the requirements.
Promised(call) ==
    /\ \A i \in IF alias = NoAlias THEN {} ELSE alias.unresolved_obligations :
          Related(call, contract.x.relations[i].require, contract.x.relations[i].left, contract.x.relations[i].right)
    /\ \A e \in Range(contract.x.requires) :
          try_caller_bound_obligation(e, bindings, integer_param_names) => Meaning(call, e)
NonEmpty(call) == \A name \in NamesOf("regions") : Span(call, name) # {}
Saturates == \E r \in Range(contract.x.regions) : r.offset + r.length.n > MaxOffset

Below(e) == LET below[i \in DOMAIN e] == {i} \cup UNION {below[k] : k \in Range(e[i].kids)} IN below

\* Nodes the evaluator has no value for.
Open(e, i) ==
    \/ e[i].op = "ident" /\ e[i].name \notin DOMAIN bindings.bools
    \/ e[i].op = "cmp" /\ \E k \in Range(e[i].kids) : int_value(e[k], bindings) = <<>>
    \/ e[i].op = "atom" /\ alias = NoAlias
    \/ e[i].op \in {"neg", "arith", "call", "construct"}
LeftIsOpen(e, i) == \E j \in Below(e)[e[i].kids[1]] : Open(e, j)

Decided == {"proven_true", "true_under_precondition", "proven_false"}

\* Where the evaluator claims more than it knows.  "x and e" and "x or e" are
\* judged by e alone where x has no value and no region atom is near;
RightOnly(e) ==
    \E i \in DOMAIN e : e[i].op \in {"and", "or"} /\ LeftIsOpen(e, i) /\ ~contains_region_atom(e)[i]
\* "x implies e" is false where x has no value, an atom is near and e is false;
PartialImplication(e) == \E i \in DOMAIN e : e[i].op = "implies" /\ LeftIsOpen(e, i)
\* "a implies false" is false, and its denial true, where a is only promised;
PromotedPromise(e) ==
    \E i \in DOMAIN e : /\ e[i].op \in {"not", "implies"}
                        /\ \E j \in Below(e)[e[i].kids[1]] : e[j].op = "implies" /\ contains_region_atom(e)[e[j].kids[1]]
\* and "contains" is false of equal regions, and read off a relation that is
\* declared the other way round.
MisreadContains(e) ==
    \E i \in DOMAIN e :
        /\ e[i].op = "atom" /\ e[i].pred = "contains" /\ alias # NoAlias
        /\ LET found == lookup_relation_row(contract.x.relations, alias, e[i].left, e[i].right) IN
           found # <<>> /\ (contract.x.relations[found[1].at].left # e[i].left \/ found[1].observed = "proven_equal")

Overclaims(e) == RightOnly(e) \/ PartialImplication(e) \/ PromotedPromise(e) \/ MisreadContains(e)

\* A judgement is a fact about every call: a condition that is proven_true holds
\* in all of them, one that is true_under_precondition in those that keep what
\* the caller promised, one that is proven_false in none of those; whatever the
\* values of what was not evaluated.  The exceptions of Overclaims, and empty
\* and saturating regions, are what the evaluator is known to get wrong.
ExprEvidenceIsSound ==
    phase = "done" /\ contract.some /\ ~Saturates =>
        \A i \in DOMAIN rows :
            LET e == conditions[i] IN
            rows[i] \in Decided /\ ~Overclaims(e) =>
                \A call \in {c \in Calls(e) : NonEmpty(c)} :
                    CASE rows[i] = "proven_true" -> Meaning(call, e)
                      [] rows[i] = "true_under_precondition" -> (Promised(call) => Meaning(call, e))
                      [] rows[i] = "proven_false" -> (Promised(call) => ~Meaning(call, e))
==============================================================================
