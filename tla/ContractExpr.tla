---------------------------- MODULE ContractExpr ----------------------------
(***************************************************************************)
(* The evaluator of contract expressions (crates/semasm-contract/src/      *)
(* eval.rs): a judgement for every requires and ensures of a contract,     *)
(* from literals, bindings, and the alias evidence of RegionEvidence.      *)
(*                                                                         *)
(* A parsed expression is a sequence of nodes, children before parents and *)
(* the root last.  The basis texts of the rows are left out.               *)
(***************************************************************************)
EXTENDS RegionEvidence, FiniteSets, SequencesExt

Node(op, kids) == [op |-> op, kids |-> kids]
Bool(v) == [op |-> "bool", kids |-> <<>>, v |-> v]
Number(n) == [op |-> "int", kids |-> <<>>, n |-> n]
Ident(name) == [op |-> "ident", kids |-> <<>>, name |-> name]
Cmp(rel, l, r) == [op |-> "cmp", kids |-> <<l, r>>, rel |-> rel]
\* regions.pred(left, right); other calls on regions and other calls are the
\* nodes "regions_call" and "call", member, index and range are "construct".
Atom(pred, left, right) == [op |-> "atom", kids |-> <<>>, pred |-> pred, left |-> left, right |-> right]

Compare(rel, l, r) == CASE rel = "==" -> l = r [] rel = "!=" -> l # r [] rel = "<" -> l < r
                        [] rel = "<=" -> l <= r [] rel = ">" -> l > r [] rel = ">=" -> l >= r

NoBindings == [ints |-> <<>>, bools |-> <<>>]
NoAlias == [status |-> "none"]

Proven(b) == IF b THEN "proven_true" ELSE "proven_false"
skip_or_incomplete(force) == IF force THEN "incomplete" ELSE "not_evaluated"

-----------------------------------------------------------------------------
(* Region atoms. *)

\* The first relation between the two names, in either order: its position and
\* what is known of (left, right).
lookup_relation_row(relations, alias, left, right) ==
    LET rows == {i \in DOMAIN relations : {relations[i].left, relations[i].right} = {left, right}}
        i == CHOOSE j \in rows : \A k \in rows : j <= k
        reversed == relations[i].left # left
    IN  IF rows = {} THEN <<>>
        ELSE <<[at |-> i, observed |-> IF reversed /\ alias.observed[i] = "proven_contains"
                                       THEN "may_overlap" ELSE alias.observed[i]]>>

judge_require(pred, required, declared, observed) ==
    CASE relation_satisfies(pred, observed) -> "proven_true"
      [] ~relation_satisfies(pred, observed) /\ declared /\ required = pred -> "true_under_precondition"
      [] ~relation_satisfies(pred, observed) /\ ~(declared /\ required = pred) ->
            IF observed = "may_overlap" THEN "incomplete" ELSE "proven_false"

eval_call(relations, alias, atom) ==
    LET found == lookup_relation_row(relations, alias, atom.left, atom.right) IN
    IF alias = NoAlias THEN "not_evaluated"
    ELSE IF found = <<>> THEN "incomplete"
    ELSE judge_require(atom.pred, relations[found[1].at].require,
                       found[1].at \in alias.unresolved_obligations, found[1].observed)

-----------------------------------------------------------------------------
(* Connectives, on the judgements of their operands. *)

True == {"proven_true", "true_under_precondition"}

eval_not(j) == CASE j = "proven_true" -> "proven_false" [] j = "proven_false" -> "proven_true"
                 [] j = "true_under_precondition" -> "incomplete" [] OTHER -> j

\* Mutant: the right operand alone.
MutPromote(jl, jr) == jr

\* The right operand decides once the left one is true.
After(jl, jr) == IF jl = "true_under_precondition" /\ jr = "proven_true" THEN jl ELSE jr

eval_and(jl, jr, force) ==
    CASE jl = "proven_false" -> jl
      [] jl \in True -> IF jr = "not_evaluated" /\ force THEN "incomplete" ELSE After(jl, jr)
      [] jl = "incomplete" -> jl
      [] jl = "not_evaluated" ->
            IF jr \in {"not_evaluated", "proven_false"} \/ ~force THEN jr ELSE "incomplete"

eval_or(jl, jr, force) ==
    CASE jl \in True \cup {"incomplete"} -> jl
      [] jl = "proven_false" -> jr
      [] jl = "not_evaluated" ->
            IF jr \in {"not_evaluated", "proven_true"} \/ ~force THEN jr ELSE "incomplete"

\* jr is the consequent, evaluated with force; attempted: a parent or a part has
\* a region atom.
eval_implies(jl, jr, attempted) ==
    CASE jl = "proven_false" -> "proven_true"
      [] jl \in True -> After(jl, jr)
      [] jl = "incomplete" -> jl
      [] jl = "not_evaluated" -> IF attempted THEN jr ELSE jl

-----------------------------------------------------------------------------
(* Expressions. *)

\* What the parser makes of a text: operands stand before their node, and are as
\* many as it takes.
Parsed(e) ==
    /\ Len(e) \in Nat \ {0} /\ DOMAIN e = 1..Len(e)
    /\ \A i \in DOMAIN e :
          /\ e[i].kids \in Seq(1..(i - 1))
          /\ e[i].op \in {"bool", "int", "ident", "not", "and", "or", "implies", "cmp", "neg", "arith",
                         "atom", "regions_call", "call", "construct"}
          /\ e[i].op = "not" => Len(e[i].kids) = 1
          /\ e[i].op \in {"and", "or", "implies", "cmp"} => Len(e[i].kids) = 2
          /\ e[i].op = "bool" => e[i].v \in BOOLEAN
          /\ e[i].op = "int" => e[i].n \in Int
          /\ e[i].op = "cmp" => e[i].rel \in {"==", "!=", "<", "<=", ">", ">="}
          /\ e[i].op = "atom" => e[i].pred \in {"disjoint", "equal", "contains"}

free_idents(e) ==
    UNION {CASE e[i].op = "ident" -> {e[i].name}
             [] e[i].op = "atom" -> {"regions", e[i].left, e[i].right}
             [] e[i].op = "regions_call" -> {"regions"}
             [] OTHER -> {} : i \in DOMAIN e}

\* contains_region_atom of every node.
contains_region_atom(e) ==
    LET has[i \in DOMAIN e] == \/ e[i].op \in {"atom", "regions_call"}
                               \/ \E k \in Range(e[i].kids) : has[k]
    IN  has

int_value(node, bindings) ==
    CASE node.op = "int" -> <<node.n>>
      [] node.op = "ident" /\ node.name \in DOMAIN bindings.ints -> <<bindings.ints[node.name]>>
      [] OTHER -> <<>>

eval_cmp(node, l, r, attempted) ==
    IF l = <<>> \/ r = <<>> THEN skip_or_incomplete(attempted) ELSE Proven(Compare(node.rel, l[1], r[1]))

\* One node, from the judgements of the nodes before it.
eval_node(e, relations, alias, bindings, ev, i, force) ==
    LET node == e[i]
        kid(k) == node.kids[k]
        some == force \/ contains_region_atom(e)[i]
    IN  CASE node.op = "bool" -> Proven(node.v)
          [] node.op = "int" -> "incomplete"
          [] node.op = "ident" -> IF node.name \in DOMAIN bindings.bools
                                  THEN Proven(bindings.bools[node.name])
                                  ELSE skip_or_incomplete(force)
          [] node.op = "not" -> eval_not(ev[kid(1)][force])
          [] node.op = "and" -> eval_and(ev[kid(1)][some], ev[kid(2)][some], some)
          [] node.op = "or" -> eval_or(ev[kid(1)][some], ev[kid(2)][some], some)
          [] node.op = "implies" -> eval_implies(ev[kid(1)][force], ev[kid(2)][TRUE], some)
          [] node.op = "cmp" -> eval_cmp(node, int_value(e[kid(1)], bindings),
                                         int_value(e[kid(2)], bindings), some)
          [] node.op \in {"neg", "arith"} -> skip_or_incomplete(force)
          [] node.op = "atom" -> eval_call(relations, alias, node)
          [] node.op = "regions_call" -> "incomplete"
          [] node.op = "call" -> skip_or_incomplete(force)
          [] node.op = "construct" -> skip_or_incomplete(some)

\* The judgement of every node, with and without force.
Judgements(e, relations, alias, bindings) ==
    LET ev[i \in DOMAIN e] == [force \in BOOLEAN |-> eval_node(e, relations, alias, bindings, ev, i, force)]
    IN  ev

eval_expr(e, relations, alias, bindings) == Judgements(e, relations, alias, bindings)[Len(e)][FALSE]

\* param OP literal or literal OP param, of an integer parameter.
try_caller_bound_obligation(e, bindings, integer_params) ==
    LET root == Last(e)
        operands == {e[root.kids[k]] : k \in 1..2}
    IN  /\ root.op = "cmp"
        /\ \E k \in 1..2 : int_value(e[root.kids[k]], bindings) = <<>>
        /\ \E p, l \in operands : p.op = "ident" /\ p.name \in integer_params /\ l.op = "int"

eval_condition(role, e, relations, alias, bindings, integer_params) ==
    IF role = "requires" /\ try_caller_bound_obligation(e, bindings, integer_params)
    THEN "true_under_precondition"
    ELSE eval_expr(e, relations, alias, bindings)

\* The status of the slice, from the judgements of its rows.
ExprStatus(rows) ==
    LET some(j) == j \in Range(rows)
    IN  CASE Range(rows) \subseteq {"not_evaluated"} -> "none"
          [] some("proven_false") -> "failed"
          [] ~some("proven_false") /\ some("incomplete") -> "incomplete"
          [] ~some("proven_false") /\ ~some("incomplete") /\ some("true_under_precondition") ->
                "passed_under_preconditions"
          [] OTHER -> "passed"

=============================================================================
