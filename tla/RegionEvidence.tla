---------------------------- MODULE RegionEvidence ----------------------------
(***************************************************************************)
(* Region and alias evidence of crates/semasm-contract (alias.rs and       *)
(* region_access.rs): how the memory accesses observed in a candidate, and *)
(* the relations a contract requires of its regions, are judged.           *)
(*                                                                         *)
(* Offsets are 64-bit and saturate; MaxOffset stands for i64::MAX, so that *)
(* a run can reach it.  Names of regions, address texts and basis texts    *)
(* are left out of the rows.                                               *)
(***************************************************************************)
EXTENDS Integers, Sequences

CONSTANT MaxOffset

ASSUME MaxOffsetAssumption == MaxOffset \in Nat \ {0}

Clamp(n) == IF n > MaxOffset THEN MaxOffset
            ELSE IF n < -MaxOffset - 1 THEN -MaxOffset - 1 ELSE n
saturating_add(a, b) == Clamp(a + b)
saturating_mul(a, b) == Clamp(a * b)

\* LengthSpec
Literal(n) == [t |-> "literal", n |-> n, name |-> ""]
Param(name) == [t |-> "param", n |-> 0, name |-> name]

\* AccessAddr
Unset == -1   \* an Option<u64> that is None
Affine(base, offset) == [t |-> "affine", base_param |-> base, offset |-> offset]
IndexedAddr(base, scale, disp, const, max) ==
    [t |-> "indexed", base_param |-> base, scale |-> scale, displacement |-> disp,
     index_const |-> const, index_max_exclusive |-> max]
StackFrame == [t |-> "stack"]
UnknownAddr == [t |-> "unknown"]

access_allowed(access, mode) ==
    access = "read_write" \/ access = (IF mode = "load" THEN "read" ELSE "write")

-----------------------------------------------------------------------------
(* region_access.rs *)

Evidence(mode, bounds, permission, basis) ==
    [operation |-> mode, bounds |-> bounds, permission |-> permission, evidence_basis |-> basis]

Candidates(memory, base) == {i \in DOMAIN memory.regions : memory.regions[i].base_param = base}

\* Some region of S allows the access: find() prefers such a region.
Allows(memory, S, mode) == \E i \in S : access_allowed(memory.regions[i].access, mode)
PermissionOf(memory, S, mode) == IF Allows(memory, S, mode) THEN "allowed" ELSE "denied"

\* The region a row is about: the first that allows the access, else the first.
Matched(memory, S, mode) ==
    LET preferred == {i \in S : Allows(memory, {i}, mode)}
        from == IF preferred = {} THEN S ELSE preferred
    IN  memory.regions[CHOOSE i \in from : \A j \in from : i <= j]

classify_vs_region(region, lo, hi) ==
    LET end == saturating_add(region.offset, region.length.n) IN
    IF region.length.t = "literal"
    THEN CASE lo >= region.offset /\ hi <= end -> "inside"
           [] ~(lo >= region.offset /\ hi <= end) /\ (hi <= region.offset \/ lo >= end) -> "outside"
           [] OTHER -> "may_escape"
    ELSE IF lo # region.offset /\ hi <= region.offset THEN "outside" ELSE "may_escape"

evidence_proven_inside(memory, access, S) ==
    Evidence(access.mode, "proven_inside", PermissionOf(memory, S, access.mode), "proven_static")

\* A symbolic length is a precondition; which region decides that is the
\* matched one, whether or not the access overlaps it.
evidence_may_escape(memory, access, S) ==
    LET symbolic == Matched(memory, S, access.mode).length.t = "param"
        permission == PermissionOf(memory, S, access.mode)
    IN  Evidence(access.mode, "may_escape", permission,
                 IF symbolic /\ permission = "allowed" THEN "declared_precondition" ELSE "unknown")

NotJudged(access) == Evidence(access.mode, "unknown", "unknown", "unknown")

judge_affine_access(memory, access, base, offset) ==
    LET candidates == Candidates(memory, base)
        class(i) == classify_vs_region(memory.regions[i], offset, saturating_add(offset, access.width))
        inside == {i \in candidates : class(i) = "inside"}
    IN  CASE candidates = {} -> NotJudged(access)
          [] inside # {} -> evidence_proven_inside(memory, access, inside)
          [] candidates # {} /\ \A i \in candidates : class(i) = "outside" ->
                Evidence(access.mode, "proven_outside", "unknown", "proven_static")
          [] OTHER -> evidence_may_escape(memory, access, candidates)

\* Without an index range: an obligation of the caller, if it is permitted.
judge_indexed_access(memory, access, base) ==
    LET candidates == Candidates(memory, base)
        permission == PermissionOf(memory, candidates, access.mode)
    IN  IF candidates = {} THEN NotJudged(access)
        ELSE Evidence(access.mode, "may_escape", permission,
                      IF permission = "denied" THEN "proven_static" ELSE "declared_precondition")

ProvenAllowed(row) == row.bounds = "proven_inside" /\ row.permission = "allowed"

\* Both ends of the range inside, each in a region of its own if need be.
judge_indexed_range_access(memory, access, base, scale, disp, max_exclusive) ==
    LET hi == saturating_add(saturating_mul(Clamp(max_exclusive - 1), scale), disp)
        ends == {judge_affine_access(memory, access, base, offset) : offset \in {disp, hi}}
    IN  IF max_exclusive # 0 /\ \A row \in ends : ProvenAllowed(row)
        THEN Evidence(access.mode, "proven_inside", "allowed", "proven_static")
        ELSE judge_indexed_access(memory, access, base)

judge_access(memory, access) ==
    LET a == access.addr IN
    CASE a.t = "unknown" -> NotJudged(access)
      [] a.t = "affine" -> judge_affine_access(memory, access, a.base_param, a.offset)
      [] a.t = "indexed" /\ a.index_const # Unset ->
            judge_affine_access(memory, access, a.base_param,
                saturating_add(saturating_mul(Clamp(a.index_const), a.scale), a.displacement))
      [] a.t = "indexed" /\ a.index_const = Unset /\ a.index_max_exclusive # Unset ->
            judge_indexed_range_access(memory, access, a.base_param, a.scale, a.displacement,
                                       a.index_max_exclusive)
      [] OTHER -> judge_indexed_access(memory, access, a.base_param)

Judged(accesses) == {i \in DOMAIN accesses : accesses[i].addr # StackFrame}

RowFails(row) == row.bounds = "proven_outside" \/ row.permission = "denied"
RowUnderPreconditions(row) ==
    /\ row.bounds = "may_escape" /\ row.permission = "allowed"
    /\ row.evidence_basis = "declared_precondition"

evaluate_region_access(memory, accesses) ==
    LET rows == [i \in Judged(accesses) |-> judge_access(memory, accesses[i])]
        some(P(_)) == \E i \in DOMAIN rows : P(rows[i])
        incomplete(row) == ~RowFails(row) /\ ~RowUnderPreconditions(row) /\ ~ProvenAllowed(row)
        unknown(row) == row.bounds = "unknown" \/ row.permission = "unknown"
    IN  [rows |-> rows,
         status |-> CASE some(RowFails) -> "failed"
                      [] ~some(RowFails) /\ (some(incomplete) \/ some(unknown)) -> "incomplete"
                      [] ~some(RowFails) /\ ~some(incomplete) /\ ~some(unknown)
                         /\ some(RowUnderPreconditions) -> "passed_under_preconditions"
                      [] OTHER -> "passed"]

-----------------------------------------------------------------------------
(* alias.rs *)

relation_satisfies(required, observed) ==
    observed = (CASE required = "disjoint" -> "proven_disjoint"
                  [] required = "equal" -> "proven_equal"
                  [] required = "contains" -> "proven_contains")

contradicts(required, observed) ==
    \/ observed = "proven_partial_overlap"
    \/ observed = "proven_disjoint" /\ required # "disjoint"
    \/ observed \in {"proven_equal", "proven_contains"} /\ required = "disjoint"

\* Mutant: touching ends count as a gap too early.
MutTouching(left, right) ==
    LET l1 == saturating_add(left.offset, left.length.n) IN
    IF left.base_param = right.base_param /\ l1 <= right.offset + 1 THEN "proven_disjoint"
    ELSE "may_overlap"

\* Only regions of one parameter can be related; the right one containing the
\* left one counts as a partial overlap.
observe_pair(left, right) ==
    LET l0 == left.offset
        l1 == saturating_add(left.offset, left.length.n)
        r0 == right.offset
        r1 == saturating_add(right.offset, right.length.n)
    IN  IF left.base_param # right.base_param THEN "may_overlap"
        ELSE IF left.length.t = "literal" /\ right.length.t = "literal"
        THEN IF l0 = r0 /\ l1 = r1 THEN "proven_equal"
             ELSE IF l0 <= r0 /\ l1 >= r1 THEN "proven_contains"
             ELSE IF r0 <= l0 /\ r1 >= l1 THEN "proven_partial_overlap"
             ELSE IF l1 <= r0 \/ r1 <= l0 THEN "proven_disjoint"
             ELSE "proven_partial_overlap"
        ELSE IF l0 = r0 /\ left.length = right.length THEN "proven_equal" ELSE "may_overlap"

RegionNamed(memory, name) ==
    LET named == {i \in DOMAIN memory.regions : memory.regions[i].name = name}
    IN  memory.regions[CHOOSE i \in named : \A j \in named : i <= j]

evaluate_alias(memory, accesses) ==
    LET observed(rel) == observe_pair(RegionNamed(memory, rel.left), RegionNamed(memory, rel.right))
        failed(rel) == contradicts(rel.require, observed(rel))
        proven(rel) == relation_satisfies(rel.require, observed(rel))
        obligation(rel) == ~failed(rel) /\ ~proven(rel) /\ rel.basis = "precondition"
        some(P(_)) == \E i \in DOMAIN memory.relations : P(memory.relations[i])
        unproven(rel) == ~failed(rel) /\ ~proven(rel) /\ ~obligation(rel)
        unknown == \E i \in DOMAIN accesses : accesses[i].addr = UnknownAddr
    IN  [observed |-> [i \in DOMAIN memory.relations |-> observed(memory.relations[i])],
         unresolved_obligations |-> {i \in DOMAIN memory.relations : obligation(memory.relations[i])},
         status |-> CASE some(failed) -> "failed"
                      [] ~some(failed) /\ (some(unproven) \/ unknown) -> "incomplete"
                      [] ~some(failed) /\ ~some(unproven) /\ ~unknown /\ some(obligation) ->
                            "passed_under_preconditions"
                      [] OTHER -> "passed"]

===============================================================================
