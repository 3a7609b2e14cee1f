------------------------- MODULE MemoryEvidenceProofs -------------------------
(***************************************************************************)
(* The alias evidence of MemoryEvidence is sound for every contract that   *)
(* validate_document accepts, every largest offset and every length a      *)
(* caller may pass.                                                        *)
(***************************************************************************)
EXTENDS MemoryEvidence, TLAPS

\* The alias report is the one of the accesses collected, until the machine
\* starts.
EvidenceInv ==
    /\ program \in Programs
    /\ phase = "start" => alias = evaluate_alias(memory, accesses)

\* Only Evaluate enters "start", and it sets the report it enters with.
LEMMA EvidenceIsKept == Spec => []EvidenceInv
<1>1. Init => EvidenceInv
  BY DEF Init, EvidenceInv
<1>2. EvidenceInv /\ [Next]_vars => EvidenceInv'
  <2> SUFFICES ASSUME EvidenceInv, [Next]_vars PROVE EvidenceInv'
    OBVIOUS
  <2> USE DEF EvidenceInv
  <2>1. CASE UNCHANGED vars
    BY <2>1 DEF vars, memory
  <2>2. CASE CollectX86 \/ CollectAArch64 \/ CollectRiscv
    BY <2>2 DEF CollectX86, CollectAArch64, CollectRiscv
  <2>3. CASE Evaluate
    BY <2>3 DEF Evaluate, memory
  <2>4. CASE Start \/ Return
    BY <2>4 DEF Start, Return
  <2>5. CASE Compute \/ Load \/ Store \/ Compare \/ Branch \/ Select
    <3>1. phase = "run" /\ phase' = phase /\ program' = program
      BY <2>5 DEF Compute, Load, Store, Compare, Branch, Select, Step
    <3> QED BY <3>1
  <2>6. CASE Done
    BY <2>6 DEF Done, vars, memory
  <2> QED BY <2>1, <2>2, <2>3, <2>4, <2>5, <2>6 DEF Next
<1> QED BY <1>1, <1>2, PTL DEF Spec

-----------------------------------------------------------------------------
(* Regions as spans of bytes. *)

\* The region a relation names is one of the contract's: RegionNamed finds it.
LEMMA NamedRegion ==
    ASSUME NEW m, NEW name,
           \A i, j \in DOMAIN m.regions : m.regions[i].name = m.regions[j].name => i = j,
           NEW k \in DOMAIN m.regions, m.regions[k].name = name,
           k \in Int
    PROVE  RegionNamed(m, name) = m.regions[k]
<1> DEFINE named == {i \in DOMAIN m.regions : m.regions[i].name = name}
<1>1. named = {k}
  OBVIOUS
<1>2. (CHOOSE i \in named : \A j \in named : i <= j) = k
  <2>1. k \in named /\ \A j \in named : k <= j
    BY <1>1
  <2>2. (CHOOSE i \in named : \A j \in named : i <= j) \in named
    BY <2>1, Zenon
  <2> QED BY <1>1, <2>2, Zenon
<1> QED BY <1>2, Zenon DEF RegionNamed

\* When half-open spans of bytes are apart and when they are nested.
LEMMA Spans ==
    ASSUME NEW a \in Int, NEW b \in Int, NEW c \in Int, NEW d \in Int
    PROVE  /\ b <= c \/ d <= a => (a..(b - 1)) \cap (c..(d - 1)) = {}
           /\ a <= c /\ d <= b => c..(d - 1) \subseteq a..(b - 1)
OBVIOUS

\* A region of a checked contract whose end does not saturate.
Exact(r) ==
    /\ r.offset \in Int /\ r.offset >= -MaxOffset
    /\ r.length.n \in Nat /\ r.offset + r.length.n <= MaxOffset
    /\ r.length.t \in {"literal", "param"}
    /\ r.length.t = "literal" => r.length = Literal(r.length.n)

\* Its end is then exact.
LEMMA EndIsExact ==
    ASSUME NEW r, Exact(r)
    PROVE  saturating_add(r.offset, r.length.n) = r.offset + r.length.n
BY MaxOffsetAssumption DEF Exact, saturating_add, Clamp

\* How many bytes a region has when a caller passes len.
Size(r, len) == IF r.length.t = "literal" THEN r.length.n ELSE len[r.length.name]

\* The bytes of a region are a half-open span.
LEMMA SpanOf ==
    ASSUME NEW r, NEW len, Exact(r), Size(r, len) \in Int
    PROVE  Span(r, len) = r.offset..((r.offset + Size(r, len)) - 1)
BY DEF Exact, Span, Size

-----------------------------------------------------------------------------
(* What an observation says of the bytes. *)

\* A required relation, of two sets of bytes.
Related(require, L, R) ==
    CASE require = "disjoint" -> L \cap R = {}
      [] require = "equal" -> L = R
      [] require = "contains" -> R \subseteq L

\* The observation that a pair of regions yields, and when.
LEMMA Observed ==
    ASSUME NEW l, NEW r, Exact(l), Exact(r)
    PROVE  LET o == observe_pair(l, r)
               le == l.offset + l.length.n
               re == r.offset + r.length.n
               literal == l.length.t = "literal" /\ r.length.t = "literal"
           IN
           /\ o = "proven_equal" => l.offset = r.offset /\ ((literal /\ le = re) \/ l.length = r.length)
           /\ o = "proven_contains" => literal /\ l.offset <= r.offset /\ re <= le
           /\ o = "proven_disjoint" =>
                 /\ literal /\ (le <= r.offset \/ re <= l.offset)
                 /\ ~(l.offset <= r.offset /\ re <= le)
           /\ o = "proven_partial_overlap" =>
                 /\ literal /\ ~(l.offset <= r.offset /\ re <= le)
                 /\ \/ r.offset <= l.offset /\ le <= re
                    \/ ~(le <= r.offset \/ re <= l.offset)
<1>1. /\ saturating_add(l.offset, l.length.n) = l.offset + l.length.n
      /\ saturating_add(r.offset, r.length.n) = r.offset + r.length.n
  BY EndIsExact
<1>2. /\ l.offset \in Int /\ l.length.n \in Int
      /\ r.offset \in Int /\ r.length.n \in Int
  BY DEF Exact
<1> HIDE DEF saturating_add
<1> QED BY <1>1, <1>2 DEF observe_pair

\* A relation the observation satisfies holds of the bytes.
LEMMA ProvenIsTrue ==
    ASSUME NEW l, NEW r, NEW len, Exact(l), Exact(r),
           Size(l, len) \in Int, Size(r, len) \in Int,
           NEW q \in {"disjoint", "equal", "contains"},
           relation_satisfies(q, observe_pair(l, r))
    PROVE  Related(q, Span(l, len), Span(r, len))
<1> DEFINE o == observe_pair(l, r)
<1>1. /\ Span(l, len) = l.offset..((l.offset + Size(l, len)) - 1)
      /\ Span(r, len) = r.offset..((r.offset + Size(r, len)) - 1)
  BY SpanOf
<1>2. /\ l.offset \in Int /\ l.length.n \in Int /\ l.length.t \in {"literal", "param"}
      /\ r.offset \in Int /\ r.length.n \in Int /\ r.length.t \in {"literal", "param"}
  BY DEF Exact
<1>3. CASE q = "disjoint"
  <2>1. o = "proven_disjoint"
    BY <1>3 DEF relation_satisfies
  <2>2. /\ l.length.t = "literal" /\ r.length.t = "literal"
        /\ l.offset + l.length.n <= r.offset \/ r.offset + r.length.n <= l.offset
    BY <2>1, Observed
  <2>3. Size(l, len) = l.length.n /\ Size(r, len) = r.length.n
    BY <2>2 DEF Size
  <2>4. Span(l, len) \cap Span(r, len) = {}
    BY <1>1, <1>2, <2>2, <2>3, Spans
  <2> QED BY <1>3, <2>4 DEF Related
<1>4. CASE q = "equal"
  <2>1. o = "proven_equal"
    BY <1>4 DEF relation_satisfies
  <2>2. /\ l.offset = r.offset
        /\ \/ /\ l.length.t = "literal" /\ r.length.t = "literal"
              /\ l.offset + l.length.n = r.offset + r.length.n
           \/ l.length = r.length
    BY <2>1, Observed
  <2>3. Size(l, len) = Size(r, len)
    <3>1. CASE l.length = r.length
      BY <3>1 DEF Size
    <3>2. CASE /\ l.length.t = "literal" /\ r.length.t = "literal"
               /\ l.offset + l.length.n = r.offset + r.length.n
      <4>1. l.length.n = r.length.n
        BY <1>2, <2>2, <3>2
      <4> QED BY <3>2, <4>1 DEF Size
    <3> QED BY <2>2, <3>1, <3>2
  <2>4. Span(l, len) = Span(r, len)
    BY <1>1, <2>2, <2>3
  <2> QED BY <1>4, <2>4 DEF Related
<1>5. CASE q = "contains"
  <2>1. o = "proven_contains"
    BY <1>5 DEF relation_satisfies
  <2>2. /\ l.length.t = "literal" /\ r.length.t = "literal"
        /\ l.offset <= r.offset /\ r.offset + r.length.n <= l.offset + l.length.n
    BY <2>1, Observed
  <2>3. Size(l, len) = l.length.n /\ Size(r, len) = r.length.n
    BY <2>2 DEF Size
  <2>4. Span(r, len) \subseteq Span(l, len)
    BY <1>1, <1>2, <2>2, <2>3, Spans
  <2> QED BY <1>5, <2>4 DEF Related
<1> QED BY <1>3, <1>4, <1>5

\* A relation the observation contradicts does not hold of the bytes, if both
\* regions have some.
LEMMA ContradictedIsFalse ==
    ASSUME NEW l, NEW r, NEW len, Exact(l), Exact(r),
           Size(l, len) \in Int, Size(r, len) \in Int, Size(l, len) > 0, Size(r, len) > 0,
           NEW q \in {"disjoint", "equal", "contains"},
           contradicts(q, observe_pair(l, r))
    PROVE  ~Related(q, Span(l, len), Span(r, len))
<1> DEFINE o == observe_pair(l, r)
           le == l.offset + Size(l, len)
           re == r.offset + Size(r, len)
<1>1. /\ Span(l, len) = l.offset..(le - 1)
      /\ Span(r, len) = r.offset..(re - 1)
  BY SpanOf
<1>2. /\ l.offset \in Int /\ l.length.n \in Int /\ l.length.t \in {"literal", "param"}
      /\ r.offset \in Int /\ r.length.n \in Int /\ r.length.t \in {"literal", "param"}
  BY DEF Exact
<1>3. l.offset < le /\ r.offset < re /\ le \in Int /\ re \in Int
  BY <1>2
<1>4. ASSUME ~(le <= r.offset \/ re <= l.offset)
      PROVE  Span(l, len) \cap Span(r, len) # {}
  <2> HIDE DEF le, re
  <2>1. CASE l.offset <= r.offset
    <3>1. r.offset \in Span(l, len) /\ r.offset \in Span(r, len)
      BY <1>1, <1>2, <1>3, <1>4, <2>1
    <3> QED BY <3>1
  <2>2. CASE ~(l.offset <= r.offset)
    <3>1. l.offset \in Span(l, len) /\ l.offset \in Span(r, len)
      BY <1>1, <1>2, <1>3, <1>4, <2>2
    <3> QED BY <3>1
  <2> QED BY <2>1, <2>2
<1>5. CASE o = "proven_equal" /\ q = "disjoint"
  <2>1. /\ l.offset = r.offset
        /\ \/ /\ l.length.t = "literal" /\ r.length.t = "literal"
              /\ l.offset + l.length.n = r.offset + r.length.n
           \/ l.length = r.length
    BY <1>5, Observed
  <2>2. Size(l, len) = Size(r, len)
    <3>1. CASE l.length = r.length
      BY <3>1 DEF Size
    <3>2. CASE /\ l.length.t = "literal" /\ r.length.t = "literal"
               /\ l.offset + l.length.n = r.offset + r.length.n
      <4>1. l.length.n = r.length.n
        BY <1>2, <2>1, <3>2
      <4> QED BY <3>2, <4>1 DEF Size
    <3> QED BY <2>1, <3>1, <3>2
  <2>3. ~(le <= r.offset \/ re <= l.offset)
    BY <1>2, <1>3, <2>1, <2>2
  <2>4. Span(l, len) \cap Span(r, len) # {}
    BY <1>4, <2>3
  <2> QED BY <1>5, <2>4 DEF Related
<1>6. ASSUME l.length.t = "literal", r.length.t = "literal"
      PROVE  le = l.offset + l.length.n /\ re = r.offset + r.length.n
  BY <1>6 DEF Size
<1>7. CASE o = "proven_contains" /\ q = "disjoint"
  <2>1. l.length.t = "literal" /\ r.length.t = "literal"
    BY <1>7, Observed
  <2>2. l.offset <= r.offset /\ re <= le
    BY <1>6, <1>7, <2>1, Observed
  <2>3. ~(le <= r.offset \/ re <= l.offset)
    BY <1>2, <1>3, <2>2
  <2>4. Span(l, len) \cap Span(r, len) # {}
    BY <1>4, <2>3
  <2> QED BY <1>7, <2>4 DEF Related
<1>8. CASE o \in {"proven_disjoint", "proven_partial_overlap"}
  <2>1. l.length.t = "literal" /\ r.length.t = "literal"
    BY <1>8, Observed
  <2>2. ~(l.offset <= r.offset /\ re <= le)
    BY <1>6, <1>8, <2>1, Observed
  <2>3. q # "disjoint" \/ ~(le <= r.offset \/ re <= l.offset)
    <3>1. CASE o = "proven_disjoint"
      BY <3>1 DEF contradicts
    <3>2. CASE o = "proven_partial_overlap"
      <4>1. \/ r.offset <= l.offset /\ le <= re
            \/ ~(le <= r.offset \/ re <= l.offset)
        BY <1>6, <2>1, <3>2, Observed
      <4> QED BY <4>1, <1>2, <1>3
    <3> QED BY <1>8, <3>1, <3>2
  <2>4. q = "disjoint" => Span(l, len) \cap Span(r, len) # {}
    BY <1>4, <2>3
  <2>5. ~(Span(r, len) \subseteq Span(l, len))
    <3> HIDE DEF le, re
    <3>1. r.offset \in Span(r, len) /\ re - 1 \in Span(r, len)
      BY <1>1, <1>2, <1>3
    <3>2. r.offset \notin Span(l, len) \/ re - 1 \notin Span(l, len)
      BY <1>1, <1>2, <1>3, <2>2
    <3> QED BY <3>1, <3>2
  <2>6. CASE q = "disjoint"
    BY <2>4, <2>6 DEF Related
  <2>7. CASE q = "equal"
    BY <2>5, <2>7 DEF Related
  <2>8. CASE q = "contains"
    BY <2>5, <2>8 DEF Related
  <2> QED BY <2>6, <2>7, <2>8
<1> QED BY <1>5, <1>7, <1>8 DEF contradicts

-----------------------------------------------------------------------------
(* The report. *)

\* What the two regions of a relation are observed to be.
ObservedOf(m, rel) == observe_pair(RegionNamed(m, rel.left), RegionNamed(m, rel.right))

\* "passed" means every relation is proven, "failed" that some is contradicted.
LEMMA AliasStatus ==
    ASSUME NEW m, NEW seen
    PROVE  /\ evaluate_alias(m, seen).status = "passed" =>
                \A i \in DOMAIN m.relations :
                    relation_satisfies(m.relations[i].require, ObservedOf(m, m.relations[i]))
           /\ evaluate_alias(m, seen).status = "failed" =>
                \E i \in DOMAIN m.relations :
                    contradicts(m.relations[i].require, ObservedOf(m, m.relations[i]))
<1> DEFINE failed(rel) == contradicts(rel.require, ObservedOf(m, rel))
           proven(rel) == relation_satisfies(rel.require, ObservedOf(m, rel))
           obligation(rel) == ~failed(rel) /\ ~proven(rel) /\ rel.basis = "precondition"
           unproven(rel) == ~failed(rel) /\ ~proven(rel) /\ ~obligation(rel)
           someFailed == \E i \in DOMAIN m.relations : failed(m.relations[i])
           someUnproven == \E i \in DOMAIN m.relations : unproven(m.relations[i])
           someObligation == \E i \in DOMAIN m.relations : obligation(m.relations[i])
           unknown == \E i \in DOMAIN seen : seen[i].addr = UnknownAddr
<1>1. evaluate_alias(m, seen).status =
        CASE someFailed -> "failed"
          [] ~someFailed /\ (someUnproven \/ unknown) -> "incomplete"
          [] ~someFailed /\ ~someUnproven /\ ~unknown /\ someObligation -> "passed_under_preconditions"
          [] OTHER -> "passed"
  BY DEF evaluate_alias, ObservedOf
<1>2. evaluate_alias(m, seen).status = "passed" => ~someFailed /\ ~someUnproven /\ ~someObligation
  <2> HIDE DEF someFailed, someUnproven, someObligation, unknown
  <2> QED BY <1>1
<1>3. evaluate_alias(m, seen).status = "failed" => someFailed
  <2> HIDE DEF someFailed, someUnproven, someObligation, unknown
  <2> QED BY <1>1
<1>4. ~someFailed /\ ~someUnproven /\ ~someObligation =>
        \A i \in DOMAIN m.relations : proven(m.relations[i])
  <2> HIDE DEF failed, proven
  <2> QED OBVIOUS
<1> QED BY <1>2, <1>3, <1>4

\* The fields of a LengthSpec.
LEMMA LengthFields ==
    /\ \A n : Literal(n).t = "literal" /\ Literal(n).n = n
    /\ \A name : Param(name).t = "param" /\ Param(name).n = 0 /\ Param(name).name = name
BY DEF Literal, Param

\* Both regions of a relation are regions of the contract, and exact.
LEMMA RegionsOfRelation ==
    ASSUME program \in Programs, ~Saturates, NEW k \in DOMAIN memory.relations,
           NEW name \in {memory.relations[k].left, memory.relations[k].right}
    PROVE  /\ Exact(RegionNamed(memory, name))
           /\ RegionNamed(memory, name) \in Range(memory.regions)
           /\ \A from \in Nat : \A len \in Lengths(from) :
                 RegionNamed(memory, name).length.t = "param" =>
                    /\ Size(RegionNamed(memory, name), len) \in Int
                    /\ Size(RegionNamed(memory, name), len) >= from
<1>1. Validated(program.contract)
  BY ProgramsAssumption
<1>2. PICK i \in DOMAIN memory.regions : memory.regions[i].name = name
  BY <1>1 DEF Validated, memory
<1> DEFINE r == memory.regions[i]
<1>3. RegionNamed(memory, name) = r
  <2>1. DOMAIN memory.regions = 1..Len(memory.regions)
    BY <1>1 DEF Validated, memory
  <2>2. \A a, b \in DOMAIN memory.regions : memory.regions[a].name = memory.regions[b].name => a = b
    BY <1>1 DEF Validated, memory
  <2>3. i \in Int
    BY <2>1
  <2> QED BY <1>2, <2>2, <2>3, NamedRegion
<1>4. r \in Range(memory.regions)
  BY DEF Range
<1>5. ~(r.offset + r.length.n > MaxOffset)
  BY <1>4 DEF Saturates
<1>6. /\ r.offset \in -MaxOffset..MaxOffset
      /\ \/ r.length.n \in Nat /\ r.length = Literal(r.length.n)
         \/ \E p \in {j \in DOMAIN params : ~params[j].ptr} : r.length = Param(params[p].name)
  BY <1>1 DEF Validated, memory, params
<1>7. Exact(r)
  <2>1. CASE r.length.n \in Nat /\ r.length = Literal(r.length.n)
    <3>1. r.length.t = "literal"
      BY <2>1, LengthFields
    <3> QED BY <1>5, <1>6, <2>1, <3>1, MaxOffsetAssumption DEF Exact
  <2>2. ASSUME NEW p \in {j \in DOMAIN params : ~params[j].ptr}, r.length = Param(params[p].name)
        PROVE  Exact(r)
    <3>1. r.length.t = "param" /\ r.length.n = 0
      BY <2>2, LengthFields
    <3> QED BY <1>5, <1>6, <3>1, MaxOffsetAssumption DEF Exact
  <2> QED BY <1>6, <2>1, <2>2
<1>8. ASSUME NEW from \in Nat, NEW len \in Lengths(from), r.length.t = "param"
      PROVE  Size(r, len) \in Int /\ Size(r, len) >= from
  <2>1. r.length # Literal(r.length.n)
    BY <1>8, LengthFields
  <2>2. PICK p \in {j \in DOMAIN params : ~params[j].ptr} : r.length = Param(params[p].name)
    BY <1>6, <2>1
  <2>3. r.length.name = params[p].name
    BY <2>2, LengthFields
  <2>4. len[r.length.name] \in {x \in Scalars : x >= from}
    BY <2>3 DEF Lengths
  <2> QED BY <1>8, <2>4, EvidenceAssumption DEF Size
<1> QED BY <1>3, <1>4, <1>7, <1>8

\* RelationEvidenceIsSound, for every checked contract: evaluate_alias reports
\* "passed" only if every required relation holds of the bytes, whatever lengths
\* the caller passes, and "failed" only if some relation cannot hold.
THEOREM AliasEvidenceIsProof == Spec => []RelationEvidenceIsSound
<1>1. EvidenceInv => RelationEvidenceIsSound
  <2> SUFFICES ASSUME EvidenceInv, phase = "start", ~Saturates
               PROVE  /\ alias.status = "passed" =>
                            \A i \in DOMAIN memory.relations : \A len \in Lengths(0) : Holds(memory.relations[i], len)
                      /\ alias.status = "failed" /\ ~HasEmpty =>
                            \E i \in DOMAIN memory.relations : \A len \in Lengths(1) : ~Holds(memory.relations[i], len)
    BY DEF RelationEvidenceIsSound
  <2>1. alias = evaluate_alias(memory, accesses) /\ program \in Programs
    BY DEF EvidenceInv
  <2>2. ASSUME NEW i \in DOMAIN memory.relations, NEW from \in Nat, NEW len \in Lengths(from)
        PROVE  LET rel == memory.relations[i]
                   l == RegionNamed(memory, rel.left)
                   r == RegionNamed(memory, rel.right)
               IN  /\ rel.require \in {"disjoint", "equal", "contains"}
                   /\ Exact(l) /\ Exact(r) /\ Size(l, len) \in Int /\ Size(r, len) \in Int
                   /\ from = 1 /\ ~HasEmpty => Size(l, len) > 0 /\ Size(r, len) > 0
                   /\ Holds(rel, len) <=> Related(rel.require, Span(l, len), Span(r, len))
    <3> DEFINE rel == memory.relations[i]
    <3>1. rel.require \in {"disjoint", "equal", "contains"}
      BY <2>1, ProgramsAssumption DEF Validated, memory
    <3>2. ASSUME NEW name \in {rel.left, rel.right}
          PROVE  LET r == RegionNamed(memory, name)
                 IN  Exact(r) /\ Size(r, len) \in Int /\ (from = 1 /\ ~HasEmpty => Size(r, len) > 0)
      <4> DEFINE r == RegionNamed(memory, name)
      <4>1. /\ Exact(r) /\ r \in Range(memory.regions)
            /\ r.length.t = "param" => Size(r, len) \in Int /\ Size(r, len) >= from
        BY <2>1, RegionsOfRelation
      <4> SUFFICES Exact(r) /\ Size(r, len) \in Int /\ (from = 1 /\ ~HasEmpty => Size(r, len) > 0)
        OBVIOUS
      <4> HIDE DEF r
      <4>2. CASE r.length.t = "param"
        BY <4>1, <4>2
      <4>3. CASE r.length.t = "literal"
        <5>1. Size(r, len) = r.length.n /\ r.length.n \in Nat /\ r.length = Literal(r.length.n)
          BY <4>1, <4>3 DEF Size, Exact
        <5>2. ~HasEmpty => r.length.n # 0
          BY <4>1, <5>1 DEF HasEmpty
        <5> QED BY <4>1, <5>1, <5>2
      <4> QED BY <4>1, <4>2, <4>3 DEF Exact
    <3>3. Holds(rel, len) <=> Related(rel.require, Span(RegionNamed(memory, rel.left), len),
                                                   Span(RegionNamed(memory, rel.right), len))
      BY DEF Holds, Related
    <3> QED BY <3>1, <3>2, <3>3
  <2>3. ASSUME alias.status = "passed", NEW i \in DOMAIN memory.relations, NEW len \in Lengths(0)
        PROVE  Holds(memory.relations[i], len)
    <3>1. relation_satisfies(memory.relations[i].require, ObservedOf(memory, memory.relations[i]))
      BY <2>1, <2>3, AliasStatus
    <3> QED BY <2>2, <3>1, ProvenIsTrue DEF ObservedOf
  <2>4. ASSUME alias.status = "failed", ~HasEmpty
        PROVE  \E i \in DOMAIN memory.relations : \A len \in Lengths(1) : ~Holds(memory.relations[i], len)
    <3>1. PICK i \in DOMAIN memory.relations :
                contradicts(memory.relations[i].require, ObservedOf(memory, memory.relations[i]))
      BY <2>1, <2>4, AliasStatus
    <3>2. ASSUME NEW len \in Lengths(1) PROVE ~Holds(memory.relations[i], len)
      BY <2>2, <2>4, <3>1, ContradictedIsFalse DEF ObservedOf
    <3> QED BY <3>2
  <2> QED BY <2>3, <2>4
<1> QED BY <1>1, EvidenceIsKept, PTL

===============================================================================
