---------------------------- MODULE HarnessVectors ----------------------------
(***************************************************************************)
(* Contract shapes, builtin oracles and test vectors                       *)
(* (crates/semasm-agent/src/harness.rs): which family a checked contract   *)
(* belongs to, the oracle named for it, and the vectors synthesised for it *)
(* or derived from an external case.                                       *)
(*                                                                         *)
(* A contract is a record                                                  *)
(*   words     the substrings its name contains, of those the code asks    *)
(*   tokens    those of them that stand between underscores                *)
(*   params, returns   sequences of types (a parameter is its position)    *)
(*   requires  comparisons of a parameter with an integer literal          *)
(*   ensures   the conditions, blanks removed                              *)
(*   effects   kinds of effect with the region ptr[0..len] they name       *)
(***************************************************************************)
EXTENDS Integers, Sequences, FiniteSets, Functions

CONSTANTS
    FixtureCap,  \* MAX_FIXTURE_CAP, 256
    WordBytes    \* bytes of a machine word, 8

ASSUME VectorAssumption == FixtureCap \in Nat \ {0} /\ WordBytes \in Nat \ {0}

-----------------------------------------------------------------------------
(* Two's-complement words. *)

\* 256 ^ n
Power[n \in 0..WordBytes] == IF n = 0 THEN 1 ELSE 256 * Power[n - 1]

Words2 == Power[WordBytes]
MaxInt == Words2 \div 2 - 1
MinInt == -(Words2 \div 2)
Wrap(n) == ((n - MinInt) % Words2) + MinInt
Bits(n) == n % Words2

Least(S) == CHOOSE x \in S : \A y \in S : x <= y
Lesser(a, b) == IF a <= b THEN a ELSE b
Greater(a, b) == IF a <= b THEN b ELSE a

\* JSON values of a test vector.
Null == [k |-> "null"]
Num(n) == [k |-> "number", v |-> n]
Arr(items) == [k |-> "array", items |-> items]
Values == {Null} \cup [k : {"number"}, v : Int] \cup [k : {"array"}, items : Seq(Int)]
Copies(x, n) == [i \in 1..n |-> x]

Vector(inputs, expected) == [inputs |-> inputs, expected |-> expected]
External(inputs, expected) == Vector(inputs, expected)

NoShape == [op |-> "None"]
Found(shape) == shape.op # "None"

-----------------------------------------------------------------------------
(* What the shapes read of a contract. *)

ConstPtrs == {"const_ptr_u8", "const_ptr_i64"}
MutPtrs == {"ptr_u8"}
Has(c, kind) == \E e \in c.effects : e.kind = kind
Returns(c, type) == type \in Range(c.returns)
At(c, types) == {i \in DOMAIN c.params : c.params[i] \in types}

\* The first parameter of one of the types, 0 when there is none.
First(c, types) == IF At(c, types) = {} THEN 0 ELSE Least(At(c, types))

\* Condition  p <= n, p < n (ident on the left)  or  n >= p, n > p.
length_bound_from_expr(e, p) ==
    IF e.param # p \/ e.n < 0 THEN {}
    ELSE IF <<e.ident, e.op>> \in {<<"left", "<=">>, <<"right", ">=">>} THEN {e.n}
    ELSE IF <<e.ident, e.op>> \in {<<"left", "<">>, <<"right", ">">>} THEN {Greater(e.n - 1, 0)}
    ELSE {}

length_bound_from_requires(c, p) ==
    UNION {length_bound_from_expr(e, p) : e \in Range(c.requires)}

\* max_length.unwrap_or(MAX_FIXTURE_CAP).clamp(1, MAX_FIXTURE_CAP)
max_len(bounds) ==
    IF bounds = {} THEN FixtureCap ELSE Greater(1, Lesser(Least(bounds), FixtureCap))

needle_from_expr(e, p) ==
    IF e.param = p /\ e.op = "==" /\ e.n \in 0..255 THEN {e.n} ELSE {}

\* The first condition that fixes the byte wins.
needle_from_requires(c, p, default) ==
    LET fixing == {i \in DOMAIN c.requires : needle_from_expr(c.requires[i], p) # {}} IN
    IF fixing = {} THEN default ELSE c.requires[Least(fixing)].n

DefaultNeedle == 65

allows_null_when_empty(c, ptr, len) ==
    \E e \in c.effects : e.kind = "memory_read" /\ e.region = <<ptr, len>>

-----------------------------------------------------------------------------
(* The families, in the order the code tries them. *)

buffer_scan_op_from_name(w) ==
    LET last == {"last", "rfind"} \cap w # {}
        find == {"find", "index"} \cap w # {}
    IN  IF "count" \in w THEN IF last \/ find THEN "None" ELSE "Count"
        ELSE IF last THEN "FindLast" ELSE IF find THEN "FindFirst" ELSE "None"

scan_shape(c) ==
    LET p == First(c, ConstPtrs)
        l == First(c, {"usize"})
        n == First(c, {"u8"})
    IN  IF 0 \in {p, l, n} \/ ~Returns(c, "usize") THEN NoShape
        ELSE [op |-> buffer_scan_op_from_name(c.words),
              needle |-> needle_from_requires(c, n, DefaultNeedle),
              max |-> max_len(length_bound_from_requires(c, l)),
              null |-> allows_null_when_empty(c, p, l)]

replace_byte_shape(c) ==
    LET p == First(c, MutPtrs)
        l == First(c, {"usize"})
        bytes == At(c, {"u8"})
    IN  IF \/ "replace" \notin c.words \/ ~Has(c, "memory_write")
           \/ 0 \in {p, l} \/ ~Returns(c, "usize") \/ Cardinality(bytes) < 2
        THEN NoShape
        ELSE LET n == Least(bytes) IN
             [op |-> "ReplaceByte",
              needle |-> needle_from_requires(c, n, DefaultNeedle),
              replacement |-> needle_from_requires(c, Least(bytes \ {n}), 0),
              max |-> max_len(length_bound_from_requires(c, l))]

memset_shape(c) ==
    LET p == First(c, MutPtrs)
        l == First(c, {"usize"})
        bytes == At(c, {"u8"})
    IN  IF \/ "memset" \notin c.words \/ ~Has(c, "memory_write")
           \/ 0 \in {p, l} \/ ~Returns(c, "usize") \/ Cardinality(bytes) # 1
        THEN NoShape
        ELSE [op |-> "Memset",
              value |-> needle_from_requires(c, Least(bytes), DefaultNeedle),
              max |-> max_len(length_bound_from_requires(c, l))]

memcpy_shape(c) ==
    LET l == First(c, {"usize"}) IN
    IF \/ "memcpy" \notin c.words \/ ~Has(c, "memory_write")
       \/ Len(c.params) # 3 \/ c.returns # <<"usize">>
       \/ 0 \in {First(c, {"ptr_u8"}), First(c, {"const_ptr_u8"}), l}
    THEN NoShape
    ELSE [op |-> "Memcpy", max |-> max_len(length_bound_from_requires(c, l))]

memcmp_shape(c) ==
    LET ptrs == At(c, {"const_ptr_u8"})
        lens == At(c, {"usize"})
    IN  IF \/ {"memcmp", "bcmp"} \cap c.words = {}
           \/ Len(c.params) # 3 \/ c.returns # <<"isize">>
           \/ Cardinality(ptrs) # 2 \/ Cardinality(lens) # 1
        THEN NoShape
        ELSE LET l == Least(lens) IN
             [op |-> "MemCmp",
              max |-> max_len(length_bound_from_requires(c, l)),
              null |-> \A p \in ptrs : allows_null_when_empty(c, p, l)]

i64_sum_shape(c) ==
    LET p == First(c, {"const_ptr_i64"})
        l == First(c, {"usize"})
    IN  IF 0 \in {p, l} \/ ~Returns(c, "i64") \/ Len(c.params) # 2 THEN NoShape
        ELSE [op |-> "Sum",
              max |-> max_len(length_bound_from_requires(c, l)),
              null |-> allows_null_when_empty(c, p, l)]

pure_int_types(c) ==
    /\ Cardinality(At(c, {"usize"})) = 2
    /\ At(c, ConstPtrs \cup MutPtrs \cup {"u8"}) = {}
    /\ Returns(c, "usize")

\* Exactly one of the candidates, or none.
Only(ops) == IF Cardinality(ops) = 1 THEN CHOOSE op \in ops : TRUE ELSE "None"

pure_int_op_from_name(c) == Only((IF "min" \in c.words THEN {"Min"} ELSE {})
                                 \cup (IF "max" \in c.words THEN {"Max"} ELSE {}))

pure_int_op_from_ensures(c) ==
    Only((IF {"result<=a", "result<=b"} \subseteq c.ensures THEN {"Min"} ELSE {})
         \cup (IF {"result>=a", "result>=b"} \subseteq c.ensures THEN {"Max"} ELSE {}))

\* Name and ensures must agree where both speak.
Agreed(byName, byEnsures) ==
    IF byEnsures \in {"None", byName} THEN byName
    ELSE IF byName = "None" THEN byEnsures ELSE "None"

pure_int_shape(c) ==
    IF ~pure_int_types(c) THEN NoShape
    ELSE [op |-> Agreed(pure_int_op_from_name(c), pure_int_op_from_ensures(c))]

pure_int_i64_types(c) == c.params = <<"i64", "i64">> /\ Returns(c, "i64")

pure_int_i64_op_from_name(c) ==
    IF {"add_then", "then_double"} \cap c.words # {} THEN "AddThenDouble"
    ELSE Only((IF {"add", "sum"} \cap c.tokens # {} THEN {"Add"} ELSE {})
              \cup (IF "sub" \in c.tokens THEN {"Sub"} ELSE {})
              \cup (IF "min" \in c.tokens THEN {"Min"} ELSE {})
              \cup (IF "max" \in c.tokens THEN {"Max"} ELSE {}))

pure_int_i64_shape(c) ==
    IF ~pure_int_i64_types(c) THEN NoShape
    ELSE [op |-> Agreed(pure_int_i64_op_from_name(c), pure_int_op_from_ensures(c))]

pure_int_unary_i64_types(c) == c.params = <<"i64">> /\ Returns(c, "i64")

pure_int_unary_i64_shape(c) ==
    LET says(words, op) == IF words \cap c.words # {} THEN {op} ELSE {} IN
    IF ~pure_int_unary_i64_types(c) THEN NoShape
    ELSE [op |-> Only(
            says({"abs"}, "Abs") \cup says({"sum_range"}, "SumRange")
            \cup says({"countdown"}, "Countdown")
            \cup says({"scale"} \cup (IF "then" \in c.words THEN {} ELSE {"double"}), "Double")
            \cup (IF "inc" \in c.tokens THEN {"Inc"} ELSE says({"increment"}, "Inc"))
            \cup says({"add_base"}, "AddBase100")
            \cup says({"return", "identity", "stack_local", "spill"}, "Identity"))]

cell_load_shape(c) == IF "load_byte0" \in c.words THEN [op |-> "CellLoad"] ELSE NoShape
cell_store_shape(c) == IF "store_byte0" \in c.words THEN [op |-> "CellStore"] ELSE NoShape

-----------------------------------------------------------------------------
(* The oracles' arithmetic. *)

PureIntOp_reduce(op, a, b) == IF op = "Min" THEN Lesser(a, b) ELSE Greater(a, b)

PureIntI64Op_reduce(op, a, b) ==
    CASE op = "Add" -> Wrap(a + b)
      [] op = "Sub" -> Wrap(a - b)
      [] op = "Min" -> Lesser(a, b)
      [] op = "Max" -> Greater(a, b)
      [] op = "AddThenDouble" -> Wrap(2 * Wrap(a + b))

\* wrapping_div truncates towards zero.
Halved(n) == IF n < 0 THEN -((-n) \div 2) ELSE n \div 2

\* Mutant: halves before multiplying.
MutHalveFirst(op, x) == IF op = "SumRange" THEN Wrap(Halved(x) * Wrap(x + 1)) ELSE x

PureIntUnaryI64Op_reduce(op, x) ==
    CASE op \in {"Identity", "Countdown"} -> x
      [] op = "Abs" -> Wrap(Greater(x, -x))
      [] op = "SumRange" -> Halved(Wrap(x * Wrap(x + 1)))
      [] op = "Double" -> Wrap(2 * x)
      [] op = "Inc" -> Wrap(x + 1)
      [] op = "AddBase100" -> Wrap(x + 100)

-----------------------------------------------------------------------------
(* Vector synthesis. *)

\* The first three bytes, counting from 0, other than the needle.
non_needle_bytes(needle) == [i \in 1..3 |-> IF i - 1 < needle THEN i - 1 ELSE i]

ScanVector(items, needle, expected) ==
    Vector(<<Arr(items), Num(Len(items)), Num(needle)>>, expected)
EmptyScan(needle) == Vector(<<Null, Num(0), Num(needle)>>, 0)

synthesize_buffer_scan_vectors(s) ==
    LET n == s.needle
        no == non_needle_bytes(n)
    IN  <<EmptyScan(n),
          ScanVector(<<n>>, n, 1),
          ScanVector(<<no[1], no[2], no[3]>>, n, 0),
          ScanVector(<<n, n>>, n, 2),
          ScanVector(<<0, n, 0>>, n, 1),
          ScanVector(Copies(n, s.max), n, s.max)>>
        \o (IF s.null THEN <<EmptyScan(n)>> ELSE <<>>)

synthesize_find_first_vectors(s) ==
    LET n == s.needle
        no == non_needle_bytes(n)
    IN  <<EmptyScan(n),
          ScanVector(<<n>>, n, 0),
          ScanVector(<<no[1], no[2], no[3]>>, n, 3),
          ScanVector(<<n, n>>, n, 0),
          ScanVector(<<0, n, 0>>, n, 1),
          ScanVector(<<no[1], no[2], n>>, n, 2),
          ScanVector(Copies(n, s.max), n, 0)>>
        \o (IF s.null THEN <<EmptyScan(n)>> ELSE <<>>)

synthesize_find_last_vectors(s) ==
    LET n == s.needle
        no == non_needle_bytes(n)
    IN  <<EmptyScan(n),
          ScanVector(<<n>>, n, 0),
          ScanVector(<<no[1], no[2], no[3]>>, n, 3),
          ScanVector(<<n, n>>, n, 1),
          ScanVector(<<0, n, 0>>, n, 1),
          ScanVector(<<no[1], no[2], n>>, n, 2),
          ScanVector(<<n, no[1], n>>, n, 2),
          ScanVector(Copies(n, s.max), n, s.max - 1)>>
        \o (IF s.null THEN <<EmptyScan(n)>> ELSE <<>>)

ReplaceVector(items, needle, replacement, expected) ==
    Vector(<<Arr(items), Num(Len(items)), Num(needle), Num(replacement)>>, expected)

synthesize_replace_byte_vectors(s) ==
    LET n == s.needle
        r == s.replacement
        miss == (n + 1) % 256
        big == [i \in 1..s.max |-> IF i = 1 /\ s.max > 1 THEN miss ELSE n]
    IN  <<Vector(<<Null, Num(0), Num(n), Num(r)>>, 0),
          ReplaceVector(<<n>>, n, r, 1),
          ReplaceVector(<<miss>>, n, r, 0),
          ReplaceVector(<<n, 1, n, 2, n>>, n, r, 3)>>
        \o (IF n # r THEN <<ReplaceVector(<<n, n, 7>>, n, n, 2)>> ELSE <<>>)
        \o <<ReplaceVector(big, n, r, Cardinality({i \in DOMAIN big : big[i] = n}))>>

synthesize_memset_vectors(s) ==
    LET v == s.value
        filler == (v + 1) % 256
    IN  <<EmptyScan(v),
          ScanVector(<<filler>>, v, 0),
          ScanVector(Copies(filler, 5), v, 0),
          ScanVector(Copies(v, 3), v, 0),
          ScanVector(Copies(filler, s.max), v, 0)>>

PairVector(a, b, expected) == Vector(<<Arr(a), Arr(b), Num(Len(a))>>, expected)

synthesize_memcpy_vectors(s) ==
    LET sentinel == 238 IN
    <<Vector(<<Null, Null, Num(0)>>, 0),
      PairVector(<<sentinel>>, <<90>>, 0),
      PairVector(Copies(sentinel, 5), <<1, 2, 3, 4, 5>>, 0),
      PairVector(Copies(sentinel, s.max), [i \in 1..s.max |-> (i - 1) % 256], 0)>>

synthesize_memcmp_vectors(s) ==
    LET ramp == [i \in 1..s.max |-> (i - 1) % 256] IN
    <<PairVector(<<>>, <<>>, 0),
      PairVector(<<0, 127, 255>>, <<0, 127, 255>>, 0),
      PairVector(<<0>>, <<255>>, -1),
      PairVector(<<255>>, <<0>>, 1),
      PairVector(<<1, 2, 3, 4>>, <<1, 2, 3, 5>>, -1),
      PairVector(ramp, ramp, 0)>>
    \o (IF s.null THEN <<Vector(<<Null, Null, Num(0)>>, 0)>> ELSE <<>>)

SumVector(items, expected) == Vector(<<Arr(items), Num(Len(items))>>, expected)

synthesize_i64_sum_vectors(s) ==
    <<Vector(<<Null, Num(0)>>, 0),
      SumVector(<<1, 2, 3, 4>>, 10),
      SumVector(<<-5, 2, 10>>, 7),
      SumVector(<<-1>>, -1),
      SumVector(<<MaxInt, 1>>, MinInt),
      SumVector(Copies(1, s.max), s.max)>>
    \o (IF s.null THEN <<Vector(<<Null, Num(0)>>, 0)>> ELSE <<>>)

synthesize_pure_int_vectors(s) ==
    LET cases == <<<<0, 0>>, <<1, 2>>, <<5, 3>>, <<7, 7>>, <<0, 1000000>>, <<100, 50>>>> IN
    [i \in DOMAIN cases |-> Vector(<<Num(cases[i][1]), Num(cases[i][2])>>,
                                   PureIntOp_reduce(s.op, cases[i][1], cases[i][2]))]

synthesize_pure_int_i64_vectors(s) ==
    LET cases == <<<<0, 0>>, <<5, 3>>, <<-3, 7>>, <<-5, -2>>, <<-7, -7>>,
                   <<1000000, -50>>, <<MaxInt, 1>>, <<MinInt, -1>>>> IN
    [i \in DOMAIN cases |-> Vector(<<Num(cases[i][1]), Num(cases[i][2])>>,
                                   PureIntI64Op_reduce(s.op, cases[i][1], cases[i][2]))]

synthesize_pure_int_unary_i64_vectors(s) ==
    LET cases == IF s.op = "SumRange" THEN <<0, 1, 5, 10, 20>>
                 ELSE IF s.op = "Countdown" THEN <<0, 5, 10, -3, -1>>
                 ELSE <<0, 5, -5, MaxInt, MinInt>> IN
    [i \in DOMAIN cases |-> Vector(<<Num(cases[i])>>,
                                   PureIntUnaryI64Op_reduce(s.op, cases[i]))]

synthesize_cell_load_vectors ==
    LET cases == <<0, 1, 65, 255>> IN
    [i \in DOMAIN cases |-> Vector(<<Arr(<<cases[i]>>)>>, cases[i])]

synthesize_cell_store_vectors ==
    LET cases == <<<<0, 7>>, <<255, 0>>, <<17, 34>>, <<0, 255>>>> IN
    [i \in DOMAIN cases |-> Vector(<<Arr(<<cases[i][1]>>), Num(cases[i][2])>>, cases[i][2])]

-----------------------------------------------------------------------------
(* The two cascades over the families: vectors and oracle. *)

Families == <<"scan", "replace", "memset", "memcpy", "memcmp", "sum",
              "pure", "pure_i64", "unary", "load", "store">>

ShapeIn(family, c) ==
    CASE family = "scan" -> scan_shape(c)
      [] family = "replace" -> replace_byte_shape(c)
      [] family = "memset" -> memset_shape(c)
      [] family = "memcpy" -> memcpy_shape(c)
      [] family = "memcmp" -> memcmp_shape(c)
      [] family = "sum" -> i64_sum_shape(c)
      [] family = "pure" -> pure_int_shape(c)
      [] family = "pure_i64" -> pure_int_i64_shape(c)
      [] family = "unary" -> pure_int_unary_i64_shape(c)
      [] family = "load" -> cell_load_shape(c)
      [] family = "store" -> cell_store_shape(c)

FamilyOf(order, c) ==
    LET hits == {i \in DOMAIN order : Found(ShapeIn(order[i], c))} IN
    IF hits = {} THEN "none" ELSE order[Least(hits)]

SynthesisOrder == Families

synthesize_vectors(c) ==
    LET f == FamilyOf(SynthesisOrder, c)
        s == ShapeIn(f, c)
    IN  CASE f = "none" -> <<>>
          [] f = "scan" /\ s.op = "Count" -> synthesize_buffer_scan_vectors(s)
          [] f = "scan" /\ s.op = "FindFirst" -> synthesize_find_first_vectors(s)
          [] f = "scan" /\ s.op = "FindLast" -> synthesize_find_last_vectors(s)
          [] f = "replace" -> synthesize_replace_byte_vectors(s)
          [] f = "memset" -> synthesize_memset_vectors(s)
          [] f = "memcpy" -> synthesize_memcpy_vectors(s)
          [] f = "memcmp" -> synthesize_memcmp_vectors(s)
          [] f = "sum" -> synthesize_i64_sum_vectors(s)
          [] f = "pure" -> synthesize_pure_int_vectors(s)
          [] f = "pure_i64" -> synthesize_pure_int_i64_vectors(s)
          [] f = "unary" -> synthesize_pure_int_unary_i64_vectors(s)
          [] f = "load" -> synthesize_cell_load_vectors
          [] f = "store" -> synthesize_cell_store_vectors

\* The oracle a family names: what its claim is about.
recognize_behavior_oracle(c) ==
    LET f == FamilyOf(Families, c) IN
    [family |-> f, op |-> IF f = "none" THEN "None" ELSE ShapeIn(f, c).op]

\* Leaves that must not store: no write effect, and nothing but reads.
is_read_only_buffer_scan(c) ==
    IF Found(cell_load_shape(c)) THEN TRUE
    ELSE IF Found(cell_store_shape(c)) THEN FALSE
    ELSE IF \E f \in {"pure", "pure_i64", "unary"} : Found(ShapeIn(f, c))
    THEN ~Has(c, "memory_write")
    ELSE /\ \E f \in {"scan", "memcmp", "sum"} : Found(ShapeIn(f, c))
         /\ Has(c, "memory_read") /\ ~Has(c, "memory_write")

-----------------------------------------------------------------------------
(* External cases: inputs by parameter position, never an expected value. *)

Rejected == [inputs |-> <<>>, expected |-> "error"]
IsI64(x) == x.k = "number" /\ x.v \in MinInt..MaxInt
IsU64(x) == x.k = "number" /\ x.v \in 0..(Words2 - 1)

derive_external_vector(c, inputs) ==
    LET pure == pure_int_shape(c).op
        pure64 == pure_int_i64_shape(c).op
        unary == pure_int_unary_i64_shape(c).op
    IN  IF Len(inputs) # Len(c.params) THEN Rejected
        ELSE IF pure # "None"
        THEN IF IsU64(inputs[1]) /\ IsU64(inputs[2])
             THEN External(inputs, PureIntOp_reduce(pure, inputs[1].v, inputs[2].v))
             ELSE Rejected
        ELSE IF pure64 # "None"
        THEN IF IsI64(inputs[1]) /\ IsI64(inputs[2])
             THEN External(inputs, PureIntI64Op_reduce(pure64, inputs[1].v, inputs[2].v))
             ELSE Rejected
        ELSE IF unary # "None" /\ IsI64(inputs[1])
        THEN LET x == inputs[1].v IN
             IF \/ unary = "SumRange" /\ x < 0
                \/ unary = "Countdown" /\ Greater(x, -x) > FixtureCap
             THEN Rejected
             ELSE External(inputs, PureIntUnaryI64Op_reduce(unary, x))
        ELSE Rejected

-----------------------------------------------------------------------------
(* From oracle and vectors to the harness shape. *)

HarnessShapes == {"BufferScan", "ReplaceByte", "Memset", "MemCmp", "Memcpy", "I64Sum",
                  "PureInt", "PureIntUnary", "CellLoad", "CellStore"}

IsBuffer(x) == x.k \in {"null", "array"}
IsNumber(x) == x.k = "number"

\* The layout of one vector; the code looks at the first.
LayoutOf(v) ==
    LET in == v.inputs
        rest(i) == \A j \in i..Len(in) : IsNumber(in[j])
    IN  CASE Len(in) = 4 /\ IsBuffer(in[1]) /\ rest(2) -> "ReplaceByte"
          [] Len(in) = 3 /\ IsBuffer(in[1]) /\ IsBuffer(in[2]) /\ rest(3) -> "MemCmp"
          [] Len(in) = 3 /\ IsBuffer(in[1]) /\ rest(2) -> "BufferScan"
          [] Len(in) = 2 /\ IsBuffer(in[1]) /\ rest(2) -> "I64Sum"
          [] Len(in) = 2 /\ rest(1) -> "PureInt"
          [] Len(in) = 1 /\ rest(1) -> "PureIntUnary"
          [] Len(in) = 1 /\ IsBuffer(in[1]) -> "CellLoad"
          [] OTHER -> "error"

detect_harness_shape(vectors) == IF vectors = <<>> THEN "error" ELSE LayoutOf(vectors[1])

oracle_expected_shape(family) ==
    CASE family = "scan" -> "BufferScan"
      [] family = "replace" -> "ReplaceByte"
      [] family = "memset" -> "Memset"
      [] family = "memcpy" -> "Memcpy"
      [] family = "memcmp" -> "MemCmp"
      [] family = "sum" -> "I64Sum"
      [] family \in {"pure", "pure_i64"} -> "PureInt"
      [] family = "unary" -> "PureIntUnary"
      [] family = "load" -> "CellLoad"
      [] family = "store" -> "CellStore"

\* Write shapes that reuse the layout of a read-only one.
Compatible(expected, detected) ==
    \/ expected = detected
    \/ <<expected, detected>> \in {<<"Memset", "BufferScan">>, <<"Memcpy", "MemCmp">>,
                                   <<"CellStore", "I64Sum">>}

resolve_harness_shape(c, vectors) ==
    LET f == recognize_behavior_oracle(c).family IN
    IF f = "none" THEN "error"
    ELSE IF Compatible(oracle_expected_shape(f), detect_harness_shape(vectors))
    THEN oracle_expected_shape(f) ELSE "error"

==============================================================================
